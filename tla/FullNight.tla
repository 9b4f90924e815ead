----------------------------- MODULE FullNight -----------------------------
(***************************************************************************)
(* The accelerated night around its scheduler: the scheduled runs, then    *)
(* the external and the internal follow-ups, the counts, and the chain of  *)
(* documents that publishes them: the report, the manifest of every file,  *)
(* the report again with the verdict on the manifest, the A-H acceptance   *)
(* rebuilt from the results on disk, and the manifest again.               *)
(*                                                                         *)
(* A result is what the detector service stored for a run (module          *)
(* DetectorExecution): its accounting adds up, and a run without an        *)
(* authorization forwarded nothing.  The process may die between any two   *)
(* steps.                                                                  *)
(***************************************************************************)
EXTENDS Naturals, FiniteSets, FiniteSetsExt

CONSTANTS
  Scheduled, \* runs the scheduler makes, Gate is one of them
  Later,     \* those of them made after the scheduler was reopened
  Gate,      \* the run that must have produced a candidate
  External,  \* follow-up runs in containers
  Internal,  \* follow-up runs on local artifacts
  Outcomes   \* [status, authorized, forwarded] a container run may end with

NightRuns == Scheduled \cup External \cup Internal
FollowUps == External \cup Internal

ASSUME NightRunsAssumption ==
  /\ Gate \in Scheduled /\ Later \subseteq Scheduled
  /\ Scheduled \cap FollowUps = {} /\ External \cap Internal = {}
ASSUME OutcomesAssumption ==
  \A o \in Outcomes : o.authorized \in BOOLEAN /\ o.forwarded \in Nat
                        /\ (o.authorized \/ o.forwarded = 0)

VARIABLES
  at,        \* the next step of run_full_night
  results,   \* the result.json of each run
  finished,  \* runs with an attempt.finished event in the scheduler's trace
  inputs,    \* the inputs of the internal runs on disk
  orphans,   \* containers docker still lists
  report,    \* full-night-report.json
  acceptance,\* m53-ah-acceptance.json
  manifest   \* full-night-manifest.json: what each file was when hashed

fullVars == <<at, results, finished, inputs, orphans, report, acceptance, manifest>>

Absent == [is |-> "absent"]
Disk == [results |-> results, inputs |-> inputs, report |-> report,
         acceptance |-> acceptance]

FullInit ==
  /\ at = "first" /\ finished = {}
  /\ results = [r \in {} |-> Absent]
  /\ inputs = {} /\ orphans = 0
  /\ report = Absent /\ acceptance = Absent /\ manifest = Absent
-----------------------------------------------------------------------------
Store(rs) == results' = [r \in DOMAIN results \cup DOMAIN rs |->
                           IF r \in DOMAIN rs THEN rs[r] ELSE results[r]]

\* One dispatched attempt (the choice is module NightScheduler's): a permit
\* under the lease the scheduler names, the detector service, the journal.
Dispatch ==
  /\ at \in {"first", "later"}
  /\ LET round == IF at = "first" THEN Scheduled \ Later ELSE Later
         left  == round \ DOMAIN results
     IN \/ \E r \in left, o \in Outcomes :
             /\ Store([x \in {r} |-> o])
             /\ finished' = finished \cup {r}
             /\ UNCHANGED at
        \/ /\ left = {}
           /\ at' = IF at = "first" THEN "reopen" ELSE "trace"
           /\ UNCHANGED <<results, finished>>
  /\ UNCHANGED <<inputs, orphans, report, acceptance, manifest>>

\* Another process reopens the scheduler's state and moves its clock.
ReopenScheduler ==
  /\ at = "reopen"
  /\ at' \in {"later", "raised"}
  /\ UNCHANGED <<results, finished, inputs, orphans, report, acceptance, manifest>>

\* The trace names each stored run, and the retry came from a real 429.
VerifyTrace ==
  /\ at = "trace"
  /\ \/ at' = "gate" /\ finished = DOMAIN results
     \/ at' = "raised"
  /\ UNCHANGED <<results, finished, inputs, orphans, report, acceptance, manifest>>

\* Without a candidate there is no follow-up and no report.
CheckGate ==
  /\ at = "gate"
  /\ at' = IF results[Gate].forwarded > 0 THEN "external" ELSE "raised"
  /\ UNCHANGED <<results, finished, inputs, orphans, report, acceptance, manifest>>

RunExternal ==
  /\ at = "external"
  /\ \E r \in External \ DOMAIN results, o \in Outcomes :
       /\ Store([x \in {r} |-> o])
       /\ at' = IF External \ DOMAIN results = {r} THEN "inputs" ELSE at
  /\ UNCHANGED <<finished, inputs, orphans, report, acceptance, manifest>>

WriteInputs ==
  /\ at = "inputs"
  /\ inputs' = Internal
  /\ at' = "internal"
  /\ UNCHANGED <<results, finished, orphans, report, acceptance, manifest>>

\* An internal run reads its input and forwards nothing.
RunInternal ==
  /\ at = "internal"
  /\ \E r \in Internal \ DOMAIN results, s \in {"completed", "failed"} :
       /\ s = "completed" => r \in inputs
       /\ Store([x \in {r} |-> [status |-> s, authorized |-> TRUE, forwarded |-> 0]])
       /\ at' = IF Internal \ DOMAIN results = {r} THEN "unlink" ELSE at
  /\ UNCHANGED <<finished, inputs, orphans, report, acceptance, manifest>>

UnlinkInputs ==
  /\ at = "unlink"
  /\ inputs' = {}
  /\ at' = "docker"
  /\ UNCHANGED <<results, finished, orphans, report, acceptance, manifest>>

\* The containers left, or no answer from docker.
QueryDocker ==
  /\ at = "docker"
  /\ \/ at' = "raised" /\ UNCHANGED orphans
     \/ at' = "report" /\ orphans' \in 0..1
  /\ UNCHANGED <<results, finished, inputs, report, acceptance, manifest>>

\* The runs that forwarded nothing add nothing.
SumForwarded(rs, of) == MapThenSumSet(LAMBDA r : of[r].forwarded, rs)
ForwardedCount(rs) == SumForwarded({r \in rs : results[r].forwarded > 0}, results)
\* Follow-ups count as completed whatever they ended with.
Completed == Cardinality({r \in Scheduled : results[r].status = "completed"})
               + Cardinality(FollowUps)

\* Every follow-up is filed under the program of its authorization.
WriteReport ==
  /\ at = "report"
  /\ IF \A r \in FollowUps : results[r].authorized
     THEN /\ at' = "hash"
          /\ report' = [is |-> "report", completed |-> Completed, verify |-> "PENDING",
                        forwarded |-> ForwardedCount(NightRuns), orphans |-> orphans]
     ELSE at' = "raised" /\ UNCHANGED report
  /\ UNCHANGED <<results, finished, inputs, orphans, acceptance, manifest>>

HashManifest ==
  /\ at = "hash"
  /\ manifest' = Disk
  /\ at' = "verify"
  /\ UNCHANGED <<results, finished, inputs, orphans, report, acceptance>>

Verifies == manifest = Disk

\* The verdict on the manifest goes into a file the manifest hashes.
RewriteReport ==
  /\ at = "verify"
  /\ report' = [report EXCEPT !.verify = IF Verifies THEN "PASS" ELSE "FAIL"]
  /\ at' = "accept"
  /\ UNCHANGED <<results, finished, inputs, orphans, acceptance, manifest>>

DurableResults_FirstRound == DOMAIN results \cap Scheduled
\* Every result below the root, whichever round stored it.
DurableResults == DOMAIN results

\* Rebuilt from the results; no container may be left.
BuildAcceptance ==
  /\ at = "accept"
  /\ IF report.orphans = 0
     THEN /\ acceptance' = [is |-> "PASS",
                            runs |-> {r \in DurableResults : results[r].authorized},
                            forwarded |-> ForwardedCount({r \in DurableResults : results[r].authorized})]
          /\ at' = "rehash"
     ELSE at' = "raised" /\ UNCHANGED acceptance
  /\ UNCHANGED <<results, finished, inputs, orphans, report, manifest>>

PublishManifest ==
  /\ at = "rehash"
  /\ manifest' = Disk
  /\ at' = "returned"
  /\ UNCHANGED <<results, finished, inputs, orphans, report, acceptance>>

NightDies ==
  /\ at \notin {"returned", "raised", "dead"}
  /\ at' = "dead"
  /\ UNCHANGED <<results, finished, inputs, orphans, report, acceptance, manifest>>

FullStep ==
  \/ Dispatch \/ ReopenScheduler \/ VerifyTrace \/ CheckGate \/ RunExternal \/ WriteInputs \/ RunInternal
  \/ UnlinkInputs \/ QueryDocker \/ WriteReport \/ HashManifest \/ RewriteReport
  \/ BuildAcceptance \/ PublishManifest

FullNext == FullStep \/ NightDies

FullSpec == FullInit /\ [][FullNext]_fullVars
-----------------------------------------------------------------------------
(***************************************************************************)
(* Properties.                                                             *)
(***************************************************************************)
\* A night that returned has a manifest that verifies what is on disk, the
\* acceptance and the last version of the report included.
PublishedVerifies == at = "returned" => Verifies /\ report.verify = "PASS"

\* The acceptance and the report, counted along different ways, agree on
\* what was forwarded, and it is what the runs' results say.
CountsAgree ==
  acceptance # Absent =>
    /\ acceptance.forwarded = report.forwarded
    /\ acceptance.forwarded = ForwardedCount(DOMAIN results)

\* The documents a night leaves behind agree with each other and with the disk.
NightAccounted == PublishedVerifies /\ CountsAgree

\* "Reconstruct ... from durable artifacts, never expected counters": the
\* report calls completed the runs whose results do.
CompletedTruthful ==
  report # Absent =>
    report.completed = Cardinality({r \in DOMAIN results : results[r].status = "completed"})

\* A report that says the manifest passed lies beside one that does, unless
\* the night is about to write it.
PassMeansVerifies ==
  report # Absent /\ report.verify = "PASS" /\ at \in {"returned", "raised"} => Verifies
=============================================================================
