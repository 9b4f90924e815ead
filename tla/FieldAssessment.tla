-------------------------- MODULE FieldAssessment --------------------------
(***************************************************************************)
(* The bounded field assessment: a wrapper script prepares a directory,    *)
(* runs one observation session in it, classifies what the session left    *)
(* and reports; an operator assesses the stored evidence, binds the        *)
(* response to the result, summarizes the session and continues a redirect *)
(* under a new permit.  Wrappers of one program may run at the same time.  *)
(*                                                                         *)
(* A directory is named by the wrapper that prepared it: its stamp is of   *)
(* one second, and a second preparation of that second is refused.         *)
(***************************************************************************)
EXTENDS StoredAssessment, Naturals, Sequences

CONSTANTS
  Wrappers,  \* runs of run-smartfit-bounded-assessment.ps1
  Nowhere,   \* no directory
  Roots,     \* targets an operator starts from
  InScope,   \* targets of the compiled engagement scope
  Answers,   \* what each target may answer: [redirect, shows, body, names]
  Shared,    \* records that other sessions left in a shared directory
  MaxActions,\* --max-actions and --max-requests of the wrapper: 1
  MaxDeaths  \* sessions that may be killed

Targets == DOMAIN Answers
ASSUME AnswerAssumption ==
  /\ Roots \subseteq Targets /\ InScope \subseteq Targets
  /\ \A t \in Targets : \A a \in Answers[t] : a.redirect \in Targets \cup {NoTarget}
  /\ MaxActions \in Nat /\ Nowhere \notin Wrappers /\ IsFiniteSet(Wrappers)
  /\ \A e \in Shared : e.intact \in BOOLEAN

VARIABLES
  at,         \* the step of each wrapper
  goal,       \* the target it was started with
  dir,        \* the directory whose preparation it read
  tail,       \* sequence of the trace line it read and will append after
  shelf,      \* preparations under .astp/field-assessments, newest last
  budget,     \* session-ledger.db: [reserved, completed, errors]
  trace,      \* execution-trace.jsonl: [event, sequence]
  evidence,   \* responses kept in the evidence directory
  broken,     \* directories with a failure evidence
  statuses,   \* execution-status-*.json
  failures,   \* directories with an execution-failure.md
  assessed,    \* assessment-result.yaml: findings, records, bound provenance
  bindings,   \* network-provenance-*.json
  candidates, \* redirect-candidate-*.json
  summary,    \* the session report: [dir, step, counters, permits, records]
  asked,      \* history: requests sent for each directory
  deaths

fieldAssessmentVars ==
  <<at, goal, dir, tail, shelf, budget, trace, evidence, broken, statuses, failures, assessed,
    bindings, candidates, summary, asked, deaths>>
wrapperFiles == <<shelf, budget, trace, evidence, broken, statuses, failures, asked>>
operatorFiles == <<assessed, bindings, candidates, summary>>

NotAssessed == [findings |-> {}, records |-> {}, binding |-> NoTarget, done |-> FALSE]
NoSummary == [dir |-> Nowhere, step |-> "none", counters |-> [completed |-> 0, errors |-> 0],
              permits |-> 0, records |-> 0]

AssessmentInit ==
  /\ at = [w \in Wrappers |-> "idle"]
  /\ goal = [w \in Wrappers |-> NoTarget]
  /\ dir = [w \in Wrappers |-> Nowhere]
  /\ tail = [w \in Wrappers |-> 0]
  /\ shelf = <<>>
  /\ budget = [d \in Wrappers |-> [reserved |-> 0, completed |-> 0, errors |-> 0]]
  /\ trace = [d \in Wrappers |-> <<>>]
  /\ evidence = [d \in Wrappers |-> {}]
  /\ broken = {} /\ failures = {}
  /\ statuses = [d \in Wrappers |-> {}]
  /\ assessed = [d \in Wrappers |-> NotAssessed]
  /\ bindings = [d \in Wrappers |-> {}]
  /\ candidates = [d \in Wrappers |-> {}]
  /\ summary = NoSummary
  /\ asked = [d \in Wrappers |-> 0]
  /\ deaths = 0
-----------------------------------------------------------------------------
\* THE WRAPPER

Ends == {"idle", "blocked", "failed", "thrown"}
Moves(w, from, to) == at[w] = from /\ at' = [at EXCEPT ![w] = to]
Keeps(w) == UNCHANGED <<goal, dir, tail, deaths, operatorFiles>>

\* The live preflight that the wrapper starts with became eligible.
StartAssessment(w, t) ==
  /\ Moves(w, "idle", "prepare")
  /\ goal' = [goal EXCEPT ![w] = t]
  /\ UNCHANGED <<dir, tail, deaths, wrapperFiles, operatorFiles>>

\* One exact target within the compiled scope; a report that went stale, a rate
\* above the reviewed one or a stamp already taken refuses as well.
Prepare(w) ==
  /\ Keeps(w) /\ UNCHANGED <<budget, trace, evidence, broken, statuses, failures, asked>>
  /\ \/ Moves(w, "prepare", "pick") /\ goal[w] \in InScope /\ shelf' = Append(shelf, w)
     \/ Moves(w, "prepare", "blocked") /\ UNCHANGED shelf

NewestPreparation == shelf[Len(shelf)]

PickPreparation(w) ==
  /\ Moves(w, "pick", "session.started")
  /\ dir' = [dir EXCEPT ![w] = NewestPreparation]
  /\ UNCHANGED <<goal, tail, deaths, wrapperFiles, operatorFiles>>

\* What the session does after each event of its trace.
Resumes == [event \in {"session.started", "permit.issued", "evidence.recorded",
                       "session.finished"} |->
              CASE event = "session.started" -> "reserve"
                [] event = "permit.issued" -> "observe"
                [] event = "evidence.recorded" -> "complete"
                [] event = "session.finished" -> "classify"]

Appends == [event \in DOMAIN Resumes |->
              CASE event = "session.started" -> "append session.started"
                [] event = "permit.issued" -> "append permit.issued"
                [] event = "evidence.recorded" -> "append evidence.recorded"
                [] event = "session.finished" -> "append session.finished"]

LastSequence(lines) == IF lines = <<>> THEN 0 ELSE lines[Len(lines)].sequence

\* append_trace_event reads the last line of the file, without a lock, ...
ReadTrace(w) ==
  /\ at[w] \in DOMAIN Resumes
  /\ tail' = [tail EXCEPT ![w] = LastSequence(trace[dir[w]])]
  /\ at' = [at EXCEPT ![w] = Appends[at[w]]]
  /\ UNCHANGED <<goal, dir, deaths, wrapperFiles, operatorFiles>>

\* ... and then appends the one that follows what it read.
AppendTrace(w, event) ==
  /\ Moves(w, Appends[event], Resumes[event])
  /\ trace' = [trace EXCEPT ![dir[w]] =
                 Append(@, [event |-> event, sequence |-> tail[w] + 1])]
  /\ tail' = [tail EXCEPT ![w] = 0]
  /\ UNCHANGED <<goal, dir, deaths, operatorFiles>>
  /\ UNCHANGED <<shelf, budget, evidence, broken, statuses, failures, asked>>

Reserve_Unbounded(w) ==
  /\ Keeps(w) /\ UNCHANGED <<shelf, trace, evidence, broken, statuses, failures, asked>>
  /\ Moves(w, "reserve", "broker")
  /\ budget' = [budget EXCEPT ![dir[w]].reserved = @ + 1]
\* Policy, attestation and origin budget may stop the loop before the ledger
\* does; the ledger refuses what the session has already reserved.
Reserve(w) ==
  /\ Keeps(w) /\ UNCHANGED <<shelf, trace, evidence, broken, statuses, failures, asked>>
  /\ \/ /\ Moves(w, "reserve", "broker")
        /\ budget[dir[w]].reserved < MaxActions
        /\ budget' = [budget EXCEPT ![dir[w]].reserved = @ + 1]
     \/ Moves(w, "reserve", "session.finished") /\ UNCHANGED budget
ActionFails_NoError(w) == budget' = [budget EXCEPT ![dir[w]].completed = @ + 1]
\* Whatever the executor raises counts as a completed action with an error.
ActionFails(w) == budget' = [budget EXCEPT ![dir[w]].completed = @ + 1, ![dir[w]].errors = @ + 1]

BrokerPermit(w) ==
  /\ Keeps(w) /\ UNCHANGED <<shelf, trace, evidence, broken, statuses, failures, asked>>
  /\ \/ Moves(w, "broker", "permit.issued") /\ UNCHANGED budget
     \/ Moves(w, "broker", "session.finished") /\ ActionFails(w)

TargetOf(d) == goal[d]
\* Header values, body and links as the observation keeps them.
Response(d, answer) ==
  [id |-> d, engagement |-> "current", intact |-> TRUE, source |-> "target",
   target |-> TargetOf(d), redirect |-> answer.redirect, shows |-> answer.shows,
   body |-> answer.body, names |-> answer.names]

\* A response is evidence, a transport failure is evidence of its own kind, and
\* what is refused before the request leaves none.
Observe(w) ==
  /\ Keeps(w) /\ UNCHANGED <<shelf, trace, statuses, failures>>
  /\ \/ /\ Moves(w, "observe", "evidence.recorded")
        /\ \E answer \in Answers[TargetOf(dir[w])] :
             evidence' = [evidence EXCEPT ![dir[w]] = @ \cup {Response(dir[w], answer)}]
        /\ asked' = [asked EXCEPT ![dir[w]] = @ + 1]
        /\ UNCHANGED <<budget, broken>>
     \/ /\ Moves(w, "observe", "session.finished") /\ ActionFails(w)
        /\ broken' = broken \cup {dir[w]}
        /\ asked' = [asked EXCEPT ![dir[w]] = @ + 1]
        /\ UNCHANGED evidence
     \/ /\ Moves(w, "observe", "session.finished") /\ ActionFails(w)
        /\ UNCHANGED <<evidence, broken, asked>>

CompleteAction(w) ==
  /\ Moves(w, "complete", "session.finished")
  /\ budget' = [budget EXCEPT ![dir[w]].completed = @ + 1]
  /\ Keeps(w) /\ UNCHANGED <<shelf, trace, evidence, broken, statuses, failures, asked>>

\* One response and no failure, by whichever session of that directory.
Succeeded(d) == Cardinality(evidence[d]) = 1 /\ d \notin broken
ExecutionStatus(w) ==
  [by |-> w, succeeded |-> Succeeded(dir[w]), ids |-> {e.id : e \in evidence[dir[w]]}]

Classify(w, from) ==
  /\ from \in {"classify", "classify failed"}
  /\ Moves(w, from, IF Succeeded(dir[w]) /\ from = "classify" THEN "assess" ELSE "failed")
  /\ statuses' = [statuses EXCEPT ![dir[w]] = @ \cup {ExecutionStatus(w)}]
  /\ failures' = IF Succeeded(dir[w]) THEN failures ELSE failures \cup {dir[w]}
  /\ Keeps(w) /\ UNCHANGED <<shelf, budget, trace, evidence, broken, asked>>

\* "astp assess" is not a command: the wrapper throws.
WrapperAssesses(w) ==
  /\ Moves(w, "assess", "thrown")
  /\ Keeps(w) /\ UNCHANGED wrapperFiles

\* The session is killed and the wrapper goes on to classify what it left; a
\* wrapper that is killed takes no further step.
SessionDies(w) ==
  /\ deaths < MaxDeaths /\ deaths' = deaths + 1
  /\ at[w] \notin {"prepare", "pick", "classify", "classify failed", "assess"} \cup Ends
  /\ at' = [at EXCEPT ![w] = "classify failed"]
  /\ tail' = [tail EXCEPT ![w] = 0]
  /\ UNCHANGED <<goal, dir, wrapperFiles, operatorFiles>>
-----------------------------------------------------------------------------
\* THE OPERATOR

\* Assessment is followed for directories that no live wrapper works in.
Quiet(d) == \A w \in Wrappers : dir[w] = d => at[w] \in Ends

\* assess-stored-evidence over the directory, or over a shared one; its result is
\* put where the later steps read it, as "assess" would have.
AssessStored(d, others) ==
  LET records == evidence[d] \cup others
  IN /\ d \in {shelf[i] : i \in DOMAIN shelf} /\ Quiet(d)
     /\ records # {} /\ Assessable(records, "current")
     /\ assessed' = [assessed EXCEPT ![d] =
                      [findings |-> Findings(records) \cup SynthesizedFindings(records),
                       records |-> records, binding |-> NoTarget, done |-> TRUE]]
     /\ UNCHANGED <<at, goal, dir, tail, deaths, bindings, candidates, summary, wrapperFiles>>

\* Response evidence of a successful status, and the redirect only if the target
\* itself answered.
FindResponseEvidence(d, ids) ==
  {[evidence |-> e.id, target |-> e.target,
    redirect |-> IF FromTarget(e) THEN e.redirect ELSE NoTarget]
     : e \in {r \in evidence[d] : r.id \in ids}}

Provenance(d, status) == [status |-> status, rows |-> FindResponseEvidence(d, status.ids)]

BindProvenance(d, status) ==
  /\ status \in statuses[d] /\ status.succeeded /\ assessed[d].done /\ Quiet(d)
  /\ {row.evidence : row \in FindResponseEvidence(d, status.ids)} = status.ids
  /\ bindings' = [bindings EXCEPT ![d] = @ \cup {Provenance(d, status)}]
  /\ assessed' = [assessed EXCEPT ![d].binding = Provenance(d, status)]
  /\ UNCHANGED <<at, goal, dir, tail, deaths, candidates, summary, wrapperFiles>>

\* Exactly one provenance, the result bound to it, one response, and a redirect
\* within the scope of the source.
Continues(d, row) ==
  /\ bindings[d] = {assessed[d].binding}
  /\ assessed[d].binding.rows = {row}
  /\ row.redirect # NoTarget /\ row.redirect \in InScope

\* The candidate is kept, and a new wrapper starts from it: fresh preflight, new
\* permit.
ContinueRedirect(w, d) ==
  /\ bindings[d] # {}
  /\ \E binding \in bindings[d] : \E row \in binding.rows :
       /\ Continues(d, row)
       /\ candidates' = [candidates EXCEPT ![d] = @ \cup {row.redirect}]
       /\ goal' = [goal EXCEPT ![w] = row.redirect]
  /\ Moves(w, "idle", "prepare")
  /\ UNCHANGED <<dir, tail, deaths, assessed, bindings, summary, wrapperFiles>>

\* The counters of the ledger are read first (one report is followed), ...
ReadCounters(d) ==
  /\ summary.step = "none" /\ trace[d] # <<>>
  /\ summary' = [NoSummary EXCEPT !.dir = d, !.step = "counters",
                   !.counters = [completed |-> budget[d].completed, errors |-> budget[d].errors]]
  /\ UNCHANGED <<at, goal, dir, tail, deaths, assessed, bindings, candidates, wrapperFiles>>

Events(d, event) == Cardinality({i \in DOMAIN trace[d] : trace[d][i].event = event})

\* ... and then the events of the trace.
SummarizeSession ==
  /\ summary.step = "counters"
  /\ summary' = [summary EXCEPT !.step = "done",
                   !.permits = Events(summary.dir, "permit.issued"),
                   !.records = Events(summary.dir, "evidence.recorded")]
  /\ UNCHANGED <<at, goal, dir, tail, deaths, assessed, bindings, candidates, wrapperFiles>>
-----------------------------------------------------------------------------
WrapperStep(w) ==
  \/ \E t \in Roots : StartAssessment(w, t)
  \/ Prepare(w) \/ PickPreparation(w)
  \/ ReadTrace(w) \/ \E event \in DOMAIN Resumes : AppendTrace(w, event)
  \/ Reserve(w) \/ BrokerPermit(w) \/ Observe(w) \/ CompleteAction(w)
  \/ \E from \in {"classify", "classify failed"} : Classify(w, from)
  \/ WrapperAssesses(w) \/ SessionDies(w)

AssessmentNext ==
  \/ \E w \in Wrappers : WrapperStep(w)
  \/ \E d \in Wrappers : \/ \E others \in {{}, Shared} : AssessStored(d, others)
                         \/ \E status \in statuses[d] : BindProvenance(d, status)
                         \/ \E w \in Wrappers : ContinueRedirect(w, d)
                         \/ ReadCounters(d)
  \/ SummarizeSession

AssessmentSpec == AssessmentInit /\ [][AssessmentNext]_fieldAssessmentVars
-----------------------------------------------------------------------------
\* "Ceiling: one GET, one fresh permit": however many wrappers find the same
\* preparation, and whichever of them dies, a directory asks its target once.
OneRequest == \A d \in Wrappers : asked[d] <= 1

\* A continuation goes to a target in scope that an intact response of that
\* directory's target redirected to; it is never a target nobody answered with.
ContinuationGrounded ==
  \A d \in Wrappers : \A t \in candidates[d] :
    /\ t \in InScope
    /\ \E e \in evidence[d] : e.redirect = t /\ FromTarget(e) /\ e.intact
    /\ d \notin broken

\* No finding rests on an altered record, on a response the boundary made up or
\* on one of unknown origin, whatever shares the evidence directory.
FindingsBacked == \A d \in Wrappers : Backed(assessed[d].findings, assessed[d].records)

\* What the operator is told, and where the work goes on, rests on what was observed.
AssessmentGrounded == ContinuationGrounded /\ FindingsBacked

\* The counters of a session that is still running never run ahead of the trace
\* they are reported with.
SummaryOrdered ==
  summary.step = "done" =>
    /\ summary.counters.completed <= summary.records + summary.counters.errors
    /\ summary.records <= summary.permits

\* A wrapper works in the directory it prepared (see README: it does not).
OwnTarget == \A w \in Wrappers : dir[w] \in {Nowhere, w}

\* The trace of a directory is a chain (see README: two sessions fork it).
TraceVerifies == \A d \in Wrappers : \A i \in DOMAIN trace[d] : trace[d][i].sequence = i

\* A directory whose observation was classified as successful has no record that
\* says it failed (see README: it can).
FailureRecordTruthful ==
  \A d \in failures : \A status \in statuses[d] : ~status.succeeded
=============================================================================
