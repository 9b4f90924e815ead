---------------------------- MODULE MCFieldWork ----------------------------
(***************************************************************************)
(* Components that share no state, each checked from its own initial       *)
(* states: `component` says which of them is looked at, and the others     *)
(* stay as they begin.  Here: the admission database, the commands of a    *)
(* campaign, policy and permits, the field assessment, the planner's queue *)
(* and the development runner.                                             *)
(***************************************************************************)
EXTENDS RuntimeAdmission, Campaign, PolicyAuthority, FieldAssessment, PlannerQueue,
        AutonomousRunner, TLC

CONSTANTS q1, q2, q3, k1, k2, wa, wb, home, login, away
VARIABLE component

\* Admission: three permits for two targets; a second has two ticks.
MCPermits == {q1, q2, q3}
MCKey == q1 :> k1 @@ q2 :> k1 @@ q3 :> k2
MCExpiry == q1 :> 4 @@ q2 :> 5 @@ q3 :> 2

\* Authority: a target in scope and one that needs an approval, under two policies.
Home == [path |-> "/", port |-> 443]
Admin == [path |-> "/admin", port |-> 443]
Constraint == [selector |-> {Admin}, deniedPaths |-> {}, allowedPaths |-> {"/admin"},
               allowedPorts |-> {443}, methods |-> {"POST"}, identities |-> {"owner"},
               rate |-> 1]
Strict == [id |-> "e", denied |-> {}, allowed |-> {Home}, conditional |-> {Admin},
           assets |-> <<Constraint>>, exclusions |-> {"x"}, online |-> TRUE,
           revision |-> "r1", rate |-> 2,
           risk |-> [passive |-> "allow", modify |-> "approval_required"]]
Denying == [Strict EXCEPT !.denied = {Home}, !.exclusions = {}]
MCPolicies == {Strict, Denying}
MCTests == {[id |-> "observe", risk |-> "passive", context |-> {}],
            [id |-> "modify", risk |-> "modify", context |-> {"session"}]}
MCReady == {Home}
Approval == [id |-> "a", engagement |-> "e", issued |-> 0, expires |-> 3, targets |-> {Admin},
             tests |-> {"modify"}, risks |-> {}, identities |-> {"owner"}, rate |-> 1]
Asked(target, approvals, method, matches) ==
  [target |-> target, context |-> {"session"}, approvals |-> approvals, method |-> method,
   identity |-> "owner", rate |-> 1, clears |-> {"x"} \ matches, matches |-> matches,
   attestation |-> None, lease |-> None, store |-> None, now |-> 0]
MCDirect == {Asked(Admin, {Approval}, "POST", {}), Asked(Home, {}, None, {"x"})}

\* Assessment: two wrappers; a root that redirects into and out of the scope.
Answer(redirect, kind) ==
  [redirect |-> redirect, shows |-> {"server", "cors"},
   body |-> [state |-> "kept", kind |-> kind, holds |-> {}], names |-> {away}]
MCAnswers == (home :> {Answer(login, "html"), Answer(away, "other")})
             @@ (login :> {Answer(NoTarget, "html")}) @@ (away :> {})
Stored(id, intact, source) ==
  [id |-> id, engagement |-> "current", intact |-> intact, source |-> source, target |-> home,
   redirect |-> NoTarget, shows |-> {"cors", "header_absent"},
   body |-> [state |-> "kept", kind |-> "json", holds |-> {"key"}], names |-> {}]
MCShared == {Stored("proxied", TRUE, "boundary"), Stored("altered", FALSE, "target")}

\* Planner: up to three programs of up to three rows.
MCPlan(n, held) == [i \in 1..n |-> [target |-> IF i = 2 THEN "scored" ELSE "plain",
                                    authorizable |-> i # held]]
MCPlans == {MCPlan(0, 0), MCPlan(1, 0), MCPlan(3, 1)}
MCPlanSets == MCPlans \X MCPlans \X MCPlans
MCScores == [t \in {"scored"} |-> 5]

MCSymmetry == Permutations(Wrappers)
-----------------------------------------------------------------------------
WorkInit ==
  /\ component \in {"admission", "campaign", "authority", "assessment", "planner", "runner"}
  /\ AdmissionInit /\ Init /\ AssessmentInit /\ DevInit
  /\ AuthorityInit /\ (component # "authority" => engagement = Strict)
  /\ PlannerInit /\ (component # "planner" => plans = <<MCPlan(0, 0), MCPlan(0, 0), MCPlan(0, 0)>>)

WorkNext ==
  /\ \/ /\ component = "admission" /\ AdmissionNext
        /\ UNCHANGED <<vars, authorityVars, fieldAssessmentVars, plannerVars, runnerVars>>
     \/ /\ component = "campaign" /\ Next
        /\ UNCHANGED <<admissionVars, authorityVars, fieldAssessmentVars, plannerVars, runnerVars>>
     \/ /\ component = "authority" /\ AuthorityNext
        /\ UNCHANGED <<admissionVars, vars, fieldAssessmentVars, plannerVars, runnerVars>>
     \/ /\ component = "assessment" /\ AssessmentNext
        /\ UNCHANGED <<admissionVars, vars, authorityVars, plannerVars, runnerVars>>
     \/ /\ component = "planner" /\ PlannerNext
        /\ UNCHANGED <<admissionVars, vars, authorityVars, fieldAssessmentVars, runnerVars>>
     \/ /\ component = "runner" /\ DevNext
        /\ UNCHANGED <<admissionVars, vars, authorityVars, fieldAssessmentVars, plannerVars>>
  /\ UNCHANGED component

WorkSpec ==
  WorkInit /\ [][WorkNext]_<<component, admissionVars, vars, authorityVars,
                             fieldAssessmentVars, plannerVars, runnerVars>>
=============================================================================
