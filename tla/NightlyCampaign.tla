-------------------------- MODULE NightlyCampaign --------------------------
(***************************************************************************)
(* nightly-campaign: one process takes the programs of the catalog one     *)
(* after the other.  Each passes the gates of _run_program, then rounds of *)
(* planning, queueing and controlled execution; what is observed may add   *)
(* targets for a later round.  The result of each program goes to the      *)
(* summary, which is written last: an error that run_nightly_campaign does *)
(* not catch ends the process before.                                      *)
(*                                                                         *)
(* A request is either an observation under a brokered permit, or a run of *)
(* the detector service when the campaign was given an executor for it.    *)
(* The policy decision is abstracted to the scope of the program, the      *)
(* review of the target and the freshness of the program's attestation.    *)
(*                                                                         *)
(* A target is a URL as it is spelled: the registry, the filter of what    *)
(* was observed and the reviews all compare spellings.                     *)
(***************************************************************************)
EXTENDS Naturals, Sequences, FiniteSets, SequencesExt, Cascade

CONSTANTS Catalogs,     \* sequences of programs, each a record of what is known of it
          Links,        \* the links in the answer of each target
          CanonicalForm, \* canonical_http_target: of each spelling, the canonical one
          MaxPrograms, MaxActions, MaxRequests, MaxErrors, MaxRounds, MaxLinks

ASSUME CatalogAssumption ==
  /\ MaxPrograms \in Nat \ {0}
  /\ \A c \in Catalogs : /\ Len(c) \in Nat \ {0} /\ DOMAIN c = 1..Len(c)
                         /\ \A n \in DOMAIN c : c[n].seeds \subseteq DOMAIN Links
ASSUME LinksAssumption ==
  /\ IsFiniteSet(DOMAIN Links)
  /\ \A t \in DOMAIN Links :
       Links[t] \in Seq([form : {"http", "redacted", "unsafe_scheme", "invalid", "credentials"},
                         target : DOMAIN Links])
ASSUME CanonicalAssumption == CanonicalForm \in [DOMAIN Links -> DOMAIN Links]
ASSUME NightBudgetAssumption ==
  /\ MaxActions \in Nat \ {0} /\ MaxRequests \in Nat \ {0} /\ MaxErrors \in Nat \ {0}
  /\ MaxRounds \in Nat \ {0} /\ MaxLinks \in Nat \ {0}

VARIABLES
  programs,   \* the programs of the catalog
  options,    \* [execute, detector]: may it make requests, and with what
  current,    \* the program being run
  stage,      \* "gates", "round", "item", "answer", "feedback", "closing", "summary", and
              \* then "written" or "dead"
  fresh,      \* is its attestation fresh?
  registry,   \* its targets: what is known of each one's safety
  round, rows, position,  \* the round, its queue and the item in it
  failures,   \* consecutive failures in the circuit breaker of the round
  observed, actions, issued, \* observed targets, network actions and permits issued
  results,    \* the results in the summary
  sent,       \* requests that left, per program and target
  answered,   \* observations completed, per program and target
  unknown     \* detector runs of unknown outcome: <<program, target>>

nightVars == <<programs, options, current, stage, fresh, registry, round, rows, position,
               failures, observed, actions, issued, results, sent, answered, unknown>>

Targets == DOMAIN Links
Numbers == DOMAIN programs
Program == programs[current]
-----------------------------------------------------------------------------
NightInit ==
  /\ programs \in Catalogs
  /\ options \in [execute : BOOLEAN, detector : BOOLEAN]
  /\ current = 1
  /\ stage = "gates"
  /\ fresh = TRUE
  /\ registry = <<>>
  /\ round = 0 /\ rows = <<>> /\ position = 0 /\ failures = 0
  /\ observed = {} /\ actions = 0 /\ issued = 0
  /\ results = <<>>
  /\ sent = [k \in Numbers \X Targets |-> 0]
  /\ answered = [k \in Numbers \X Targets |-> 0]
  /\ unknown = {}

\* A review file is refused when it is of another revision, contradicts itself, names
\* unknown guardrails or has no date.
ReviewRefused(p) == p.review # "none" /\ p.review # "valid"

\* build_scope_seed_registry: one target per scope rule that names an HTTP root, spelled as
\* the rule spells it.
SeedRegistry(p) == [t \in p.seeds |-> "ready"]

\* Mutant: one clear review of the program covers all its targets.
Authorizable_Inherited(p, reg, isFresh) ==
  {t \in DOMAIN reg : /\ reg[t] = "ready"
                      /\ p.online => isFresh
                      /\ t \in p.allowed
                      /\ p.guarded => p.cleared # {}}

\* _attestation_from_capture raises: the capture is malformed, or does not prove what the
\* program requires.
NotOnline(p) == p.status = "malformed" \/ (p.online /\ p.status # "online")

\* The targets of the registry that policy planning finds authorizable.
Authorizable(p, reg, isFresh) ==
  {t \in DOMAIN reg : /\ reg[t] = "ready"
                      /\ p.online => isFresh
                      /\ t \in p.allowed
                      /\ p.guarded => t \in p.cleared}

\* _plan_semantic_block_reason: does the review block a target of the plan?
SemanticBlocks(p, reg, isFresh) ==
  \E t \in DOMAIN reg : /\ reg[t] = "ready" /\ t \in p.allowed
                        /\ p.online => isFresh
                        /\ p.guarded /\ t \notin p.cleared

\* The gates of _run_program, in the order of the code: the status they return, or "escape"
\* for a file that is not YAML, whose error nothing catches.
Gate(p, isFresh, execute) ==
  FirstVerdict(
    << <<p.sync = "failed", "blocked">>,
       <<p.sync = "unsynced", "blocked">>,
       <<p.file = "malformed", "escape">>,
       <<p.file \in {"unreadable", "invalid"}, "failed">>,
       <<p.file = "issues", "blocked">>,
       <<p.file = "uncompilable", "blocked">>,
       <<ReviewRefused(p), "failed">>,
       <<p.seeds = {}, "no_targets">>,
       <<NotOnline(p), "blocked">>,
       <<Authorizable(p, SeedRegistry(p), isFresh) = {} /\ SemanticBlocks(p, SeedRegistry(p), isFresh),
         "blocked">>,
       <<Authorizable(p, SeedRegistry(p), isFresh) = {}, "no_authorizable_actions">>,
       <<~execute, "planned">> >>, "run")

Result(status, counted) ==
  [program |-> current, status |-> status,
   observed |-> IF counted THEN observed ELSE {},
   actions |-> IF counted THEN actions ELSE 0,
   permits |-> IF counted THEN issued ELSE 0]

LastProgram == IF Len(programs) < MaxPrograms THEN Len(programs) ELSE MaxPrograms

\* The loop of run_nightly_campaign: the result is kept and the next program taken.
NextProgram(result) ==
  /\ results' = Append(results, result)
  /\ current' = current + 1
  /\ stage' = IF current = LastProgram THEN "summary" ELSE "gates"
  /\ fresh' = TRUE
  /\ registry' = <<>>
  /\ round' = 0 /\ rows' = <<>> /\ position' = 0 /\ failures' = 0
  /\ observed' = {} /\ actions' = 0 /\ issued' = 0
  /\ UNCHANGED <<programs, options, sent, answered, unknown>>

\* An error that is no OSError, ValueError, TypeError or AttributeError leaves
\* run_nightly_campaign: the process ends with no summary.
Escape ==
  /\ stage' = "dead"
  /\ UNCHANGED <<programs, options, current, fresh, registry, round, rows, position, failures,
                 observed, actions, issued, results, sent, answered, unknown>>

PassGates ==
  /\ stage = "gates"
  /\ LET verdict == Gate(Program, fresh, options.execute)
     IN \/ /\ verdict \notin {"run", "escape"}
           /\ NextProgram(Result(verdict, FALSE))
        \/ verdict = "escape" /\ Escape
        \/ /\ verdict = "run"
           /\ stage' = "round"
           /\ registry' = SeedRegistry(Program)
           /\ UNCHANGED <<programs, options, current, fresh, round, rows, position, failures,
                          observed, actions, issued, results, sent, answered, unknown>>

\* The attestation of the program gets too old; the process does not read it again.
GrowStale ==
  /\ stage \notin {"summary", "written", "dead"} /\ fresh
  /\ fresh' = FALSE
  /\ UNCHANGED <<programs, options, current, stage, registry, round, rows, position, failures,
                 observed, actions, issued, results, sent, answered, unknown>>
-----------------------------------------------------------------------------
Least(a, b) == IF a < b THEN a ELSE b

\* What is left of the budgets of the program at the start of a round.
Remaining == Least(MaxActions, MaxRequests) - Least(actions, Least(MaxActions, MaxRequests))

\* The authorizable targets not yet observed, as many as the budget leaves.
RoundQueue ==
  LET open == Authorizable(Program, registry, fresh) \ observed
  IN SubSeq(SetToSeq(open), 1, Least(Cardinality(open), Remaining))

\* Mutant: the rounds are not counted.
BeginRound_Uncounted ==
  /\ stage = "round"
  /\ IF Remaining = 0 \/ RoundQueue = <<>>
     THEN stage' = "closing" /\ UNCHANGED <<rows, position, failures>>
     ELSE stage' = "item" /\ rows' = RoundQueue /\ position' = 1 /\ failures' = 0
  /\ UNCHANGED <<programs, options, current, fresh, registry, round, observed, actions, issued,
                 results, sent, answered, unknown>>

\* A round begins: plan, filter, queue; the session's ledger and breaker are new.
BeginRound ==
  /\ stage = "round"
  /\ IF round = MaxRounds \/ Remaining = 0 \/ RoundQueue = <<>>
     THEN /\ stage' = "closing"
          /\ UNCHANGED <<round, rows, position, failures>>
     ELSE /\ stage' = "item"
          /\ round' = round + 1
          /\ rows' = RoundQueue
          /\ position' = 1
          /\ failures' = 0
  /\ UNCHANGED <<programs, options, current, fresh, registry, observed, actions, issued,
                 results, sent, answered, unknown>>

EndRound ==
  /\ stage' = "round"
  /\ UNCHANGED <<programs, options, current, fresh, registry, round, rows, position, failures,
                 observed, actions, issued, results, sent, answered, unknown>>

\* The queue is exhausted, or the operational guard finds the attestation stale.
LeaveQueue ==
  /\ stage = "item"
  /\ position > Len(rows) \/ (Program.online /\ ~fresh)
  /\ EndRound

Item == rows[position]
Opens == failures + 1 >= MaxErrors

\* The item failed: run_controlled_queue records it and goes on, or stops when the
\* circuit breaker opens.
Failed ==
  /\ failures' = failures + 1
  /\ stage' = IF Opens THEN "round" ELSE "item"
  /\ position' = position + 1

Succeeded ==
  /\ failures' = 0
  /\ stage' = "item"
  /\ position' = position + 1

Runnable == stage = "item" /\ position <= Len(rows) /\ (Program.online => fresh)

\* The broker refuses the item, or its permit is issued.
Broker ==
  /\ Runnable /\ ~options.detector
  /\ \/ /\ stage' = "answer"
        /\ issued' = issued + 1
        /\ UNCHANGED <<position, failures>>
     \/ Failed /\ UNCHANGED issued
  /\ UNCHANGED <<programs, options, current, fresh, registry, round, rows, observed, actions,
                 results, sent, answered, unknown>>

Left(t) == sent' = [sent EXCEPT ![<<current, t>>] = @ + 1]

\* observe_http: it raises before or after the request left, or returns the evidence.
Observe ==
  /\ stage = "answer"
  /\ \/ /\ Failed
        /\ sent' = sent \/ Left(Item)
        /\ UNCHANGED <<actions, observed, answered>>
     \/ /\ stage' = "feedback"
        /\ Left(Item)
        /\ actions' = actions + 1
        /\ observed' = observed \cup {Item}
        /\ answered' = [answered EXCEPT ![<<current, Item>>] = @ + 1]
        /\ UNCHANGED <<position, failures>>
  /\ UNCHANGED <<programs, options, current, fresh, registry, round, rows, issued, results,
                 unknown>>

\* assess_discovered_target: what a discovered link is worth, by its canonical form; "none"
\* has no canonical form.
Assess(source, link) ==
  LET target == CanonicalForm[link.target]
  IN FirstVerdict(
       << <<link.form # "http", "none">>,
          <<source.scheme = "https" /\ target.scheme = "http", "https_downgrade">>,
          <<target.private, "private_literal">>,
          <<target \notin Program.allowed, "out_of_scope">> >>, "ready")

\* merge_discovery: the latest assessment of a target replaces the earlier one.  A seed that
\* is not spelled canonically is another entry.
Merged(source, links) ==
  LET found == {i \in DOMAIN links : Assess(source, links[i]) # "none"}
      named(i) == CanonicalForm[links[i].target]
      latest(t) == CHOOSE i \in found : named(i) = t /\ \A j \in found : named(j) = t => j <= i
  IN [t \in DOMAIN registry \cup {named(i) : i \in found} |->
        IF \E i \in found : named(i) = t THEN Assess(source, links[latest(t)]) ELSE registry[t]]

\* discover_targets_from_evidence: as many links of the answer as the limit admits.
Discovered(t) == Merged(t, SubSeq(Links[t], 1, Least(Len(Links[t]), MaxLinks)))

\* apply_evidence_feedback: the links of the answer join the registry; it may raise.
Feedback ==
  /\ stage = "feedback"
  /\ \/ Succeeded /\ registry' = Discovered(Item)
     \/ Failed /\ registry' \in {registry, Discovered(Item)}
  /\ UNCHANGED <<programs, options, current, fresh, round, rows, observed, actions, issued,
                 results, sent, answered, unknown>>

\* ServiceNightlyDetectorExecutor raises: the service blocked the run, failed it before or
\* after a request left, or does not know its outcome.
DetectorRaises ==
  /\ Failed
  /\ \/ UNCHANGED <<sent, unknown>>
     \/ Left(Item) /\ UNCHANGED unknown
     \/ Left(Item) /\ unknown' = unknown \cup {<<current, Item>>}
  /\ UNCHANGED <<actions, issued, observed, answered>>

\* The executor of the campaign with a detector service: the run is one network action.
Detect ==
  /\ Runnable /\ options.detector
  /\ \/ DetectorRaises
     \/ /\ Succeeded
        /\ Left(Item)
        /\ issued' = issued + 1
        /\ actions' = actions + 1
        /\ observed' = observed \cup {Item}
        /\ answered' = [answered EXCEPT ![<<current, Item>>] = @ + 1]
        /\ UNCHANGED unknown
  /\ UNCHANGED <<programs, options, current, fresh, registry, round, rows, results>>
-----------------------------------------------------------------------------
\* The manifest and the audit chain are verified, and the stored evidence assessed.
CloseProgram ==
  /\ stage = "closing"
  /\ \E status \in {"completed", "failed"} : NextProgram(Result(status, TRUE))

\* A file cannot be read or written: run_nightly_campaign makes a result of the error.
Raise ==
  /\ stage \in {"gates", "round", "item", "closing"}
  /\ NextProgram(Result("failed", FALSE))

\* sqlite3.Error of the session ledger, of which run_nightly_campaign makes none: its rows
\* for a round, for an item that begins or for the one that just ended cannot be written.
LedgerFails == stage \in {"round", "item"} /\ Escape

\* campaign.yaml and campaign.md are written, or the error of one ends the process.
WriteSummary ==
  \/ stage = "summary" /\ Escape
  \/ /\ stage = "summary" /\ stage' = "written"
     /\ UNCHANGED <<programs, options, current, fresh, registry, round, rows, position,
                    failures, observed, actions, issued, results, sent, answered, unknown>>

Over == stage \in {"written", "dead"} /\ UNCHANGED nightVars

NightStep == PassGates \/ BeginRound \/ LeaveQueue \/ Broker \/ Observe \/ Feedback \/ Detect
             \/ CloseProgram \/ Raise \/ LedgerFails \/ WriteSummary
NightNext == NightStep \/ GrowStale \/ Over

NightSpec == NightInit /\ [][NightNext]_nightVars /\ WF_nightVars(NightStep)
-----------------------------------------------------------------------------
RequestsOf(n) == {t \in Targets : sent[<<n, t>>] > 0}
Resulted(n) == \E i \in DOMAIN results : results[i].program = n

\* No spelling of a target is observed with success twice for a program in a night, however
\* often links lead back to it: not across rounds, and not after items that failed.
ObservedOnce == \A k \in Numbers \X Targets : answered[k] <= 1

\* A request goes only to a target in the scope, ready for policy as it was found, and
\* under guardrails only to one whose own review cleared it: a discovered target does not
\* inherit the review of the target that named it.
ReviewedOnly ==
  \A n \in Numbers : \A t \in RequestsOf(n) :
    /\ t \in programs[n].allowed
    /\ programs[n].guarded => t \in programs[n].cleared
    /\ programs[n].review \in {"none", "valid"}

\* A program that is not run to the end of its rounds has made no request, unless an
\* error cut it off; and a completed one reports what it observed.
ResultsTruthful ==
  \A i \in DOMAIN results :
    /\ results[i].status \notin {"completed", "failed"} => RequestsOf(results[i].program) = {}
    /\ results[i].status = "completed" =>
         /\ results[i].observed = {t \in Targets : answered[<<results[i].program, t>>] > 0}
         /\ results[i].actions = Cardinality(results[i].observed)
         /\ results[i].actions <= results[i].permits

\* What the night did, and what it says it did.
NightHonest == ObservedOnce /\ ReviewedOnly /\ ResultsTruthful

\* A night that has begun ends: with one result for every selected program, in order, and
\* its summary written, unless an error that run_nightly_campaign does not catch ended it.
Begun == stage # "gates" \/ results # <<>>
NightEnds ==
  Begun ~> \/ stage = "dead"
           \/ stage = "written" /\ [i \in DOMAIN results |-> results[i].program]
                                      = [i \in 1..LastProgram |-> i]

\* A night that has begun writes its summary, as its documentation says of each run.  Not so:
\* the error of a program file that is not YAML, and those of the session ledger's database,
\* end the process.
NightSummarised == Begun ~> stage = "written"

\* Two targets observed for a program are not two spellings of one URL, as the registry is
\* documented to deduplicate canonical targets.  Not so: a seed keeps the spelling of its
\* scope rule, and a link back to it is another entry.
UrlObservedOnce ==
  \A n \in Numbers : \A t, u \in Targets :
    answered[<<n, t>>] > 0 /\ answered[<<n, u>>] > 0 /\ t # u => CanonicalForm[t] # CanonicalForm[u]

\* A detector run of unknown outcome is not run again: its error says it "cannot be
\* replayed blindly".
UnknownNotReplayed == \A k \in unknown : sent[k] <= 1

\* The requests of a program stay within max_requests_per_program.  Not so: a round is given
\* what successful observations left of it, and items that failed after their request left
\* come back in the next round.
RequestBudget ==
  \A n \in Numbers : MapThenSumSet(LAMBDA t : sent[<<n, t>>], Targets) <= MaxRequests
=============================================================================
