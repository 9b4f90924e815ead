------------------------------ MODULE Campaign ------------------------------
(***************************************************************************)
(* The durable campaign of the orchestrator (orchestrator.py and the       *)
(* campaign half of orchestrator_store.py): the orchestrator-start, -stop, *)
(* -resume and -report commands, each a process of its own, and the batch  *)
(* that a start command executes.                                          *)
(*                                                                         *)
(* transition_campaign reads the state in one transaction, validates, and  *)
(* updates it in another, unconditionally: these are two steps here, and   *)
(* other commands interleave between them.                                 *)
(***************************************************************************)
EXTENDS Integers, Sequences, FiniteSets

CONSTANTS
  Procs,
  Runs,          \* the detector runs of the batch
  MaxCommands,   \* bound on the commands given after the start
  Crashes,       \* commands may die, or end in an exception
  NoState

ASSUME FlagsAssumption == Crashes \in BOOLEAN
ASSUME BoundsAssumption == MaxCommands \in Nat

VARIABLES
  state,     \* campaigns.state, "absent" before the campaign is created
  outcome,   \* actions.state of each run
  pc,        \* what a process does once its plan is carried out
  plan,      \* the transitions it has still to make
  seen,      \* the state its transition read, NoState outside of one
  partial,   \* how the finalization a process performs will conclude
  given,     \* commands given so far
  resumed,   \* history: a resume command made the campaign run
  torn       \* history: a command died between two transitions of its plan

vars == <<state, outcome, pc, plan, seen, partial, given, resumed, torn>>

Table ==
  [absent |-> {"created"},
   created |-> {"preflight", "cancelled"},
   preflight |-> {"ready", "blocked", "failed"},
   ready |-> {"running", "cancelled"},
   running |-> {"pausing", "draining", "completed", "partially_completed",
                "failed"},
   pausing |-> {"paused", "failed"},
   paused |-> {"preflight", "cancelled"},
   draining |-> {"completed", "partially_completed", "paused"},
   completed |-> {}, partially_completed |-> {}, blocked |-> {},
   failed |-> {}, cancelled |-> {}]
State == DOMAIN Table
Final == {s \in State : Table[s] = {}}
ASSUME NoStateAssumption == NoState \notin State

Outcome == {"none", "executing", "blocked", "completed", "failed",
            "unknown_outcome"}
Step == {"idle", "executing", "stop", "resume", "resumed", "drain",
         "conclude"}

Init ==
  /\ state = "absent"
  /\ outcome = [r \in Runs |-> "none"]
  /\ pc = [p \in Procs |-> "idle"]
  /\ plan = [p \in Procs |-> <<>>]
  /\ seen = [p \in Procs |-> NoState]
  /\ partial = [p \in Procs |-> FALSE]
  /\ given = 0
  /\ resumed = FALSE
  /\ torn = FALSE

-----------------------------------------------------------------------------
(***************************************************************************)
(* transition_campaign.                                                    *)
(***************************************************************************)
Goto(p, step, transitions) ==
  /\ pc' = [pc EXCEPT ![p] = step]
  /\ plan' = [plan EXCEPT ![p] = transitions]

Valid(previous, new) == new \in Table[previous]

Read(p) ==
  /\ plan[p] # <<>> /\ seen[p] = NoState
  /\ Valid(state, Head(plan[p]))
  /\ seen' = [seen EXCEPT ![p] = state]
  /\ UNCHANGED <<state, outcome, pc, plan, partial, given, resumed, torn>>

\* validate_transition raises, and the command fails.
Invalid(p) ==
  /\ plan[p] # <<>> /\ seen[p] = NoState
  /\ ~ Valid(state, Head(plan[p]))
  /\ Goto(p, "idle", <<>>)
  /\ UNCHANGED <<state, outcome, seen, partial, given, resumed, torn>>

Write(p) ==
  /\ seen[p] # NoState
  /\ state' = Head(plan[p])
  /\ resumed' = (resumed \/ (pc[p] = "resumed" /\ state' = "running"))
  /\ plan' = [plan EXCEPT ![p] = Tail(@)]
  /\ seen' = [seen EXCEPT ![p] = NoState]
  /\ UNCHANGED <<outcome, pc, partial, given, torn>>

-----------------------------------------------------------------------------
(***************************************************************************)
(* The commands.                                                           *)
(***************************************************************************)
AtRest(p) == pc[p] = "idle" /\ plan[p] = <<>>
At(p, step) == pc[p] = step /\ plan[p] = <<>>

StartPlan(dryRun) ==
  IF dryRun THEN <<"preflight", "ready", "running", "completed">>
  ELSE <<"preflight", "ready", "running">>

\* orchestrator-start: only one campaign row is ever inserted.
Start(p, dryRun) ==
  /\ AtRest(p)
  /\ state = "absent"
  /\ state' = "created"
  /\ Goto(p, IF dryRun THEN "idle" ELSE "executing", StartPlan(dryRun))
  /\ UNCHANGED <<outcome, seen, partial, given, resumed, torn>>

\* The batch: one run after the other, whatever has become of the campaign.
Due(p, r) ==
  /\ At(p, "executing")
  /\ outcome[r] = "none"
  /\ \A q \in Runs : outcome[q] # "executing"

\* The gates before any request refuse the run.
SkipRun(p, r) ==
  /\ Due(p, r)
  /\ outcome' = [outcome EXCEPT ![r] = "blocked"]
  /\ UNCHANGED <<state, pc, plan, seen, partial, given, resumed, torn>>

BeginRun(p, r) ==
  /\ Due(p, r)
  /\ outcome' = [outcome EXCEPT ![r] = "executing"]
  /\ UNCHANGED <<state, pc, plan, seen, partial, given, resumed, torn>>

EndRun(p, r, how) ==
  /\ At(p, "executing")
  /\ outcome[r] = "executing"
  /\ outcome' = [outcome EXCEPT ![r] = how]
  /\ UNCHANGED <<state, pc, plan, seen, partial, given, resumed, torn>>

EndBatch(p) ==
  /\ At(p, "executing")
  /\ \A r \in Runs : outcome[r] \notin {"none", "executing"}
  /\ partial' = [partial EXCEPT ![p] =
       \E r \in Runs : outcome[r] \in {"failed", "unknown_outcome"}]
  /\ Goto(p, "drain", <<>>)
  /\ UNCHANGED <<state, outcome, seen, given, resumed, torn>>

\* orchestrator-stop, -resume, and -report with or without --partial.
Give(p, command, flag) ==
  /\ AtRest(p)
  /\ state # "absent"
  /\ given < MaxCommands
  /\ given' = given + 1
  /\ partial' = [partial EXCEPT ![p] = flag]
  /\ Goto(p, command, <<>>)
  /\ UNCHANGED <<state, outcome, seen, resumed, torn>>

\* request_stop: what it does follows from the state it reads first.
StopPlan_Half == <<"pausing">>
StopPlan == <<"pausing", "paused">>

Stop(p) ==
  /\ At(p, "stop")
  /\ Goto(p, "idle", IF state = "running" THEN StopPlan ELSE <<>>)
  /\ UNCHANGED <<state, outcome, seen, partial, given, resumed, torn>>

\* resume_orchestrator: unknown outcomes are refused before any transition.
Reviewed == \A r \in Runs : outcome[r] # "unknown_outcome"

Resume(p) ==
  /\ At(p, "resume")
  /\ IF Reviewed THEN Goto(p, "resumed", <<"preflight", "ready", "running">>)
     ELSE Goto(p, "idle", <<>>)
  /\ UNCHANGED <<state, outcome, seen, partial, given, resumed, torn>>

Resumed(p) ==
  /\ At(p, "resumed")
  /\ Goto(p, "idle", <<>>)
  /\ UNCHANGED <<state, outcome, seen, partial, given, resumed, torn>>

\* finalize_orchestrator reads the state twice, once for each transition.
Drain(p) ==
  /\ At(p, "drain")
  /\ Goto(p, "conclude", IF state = "running" THEN <<"draining">> ELSE <<>>)
  /\ UNCHANGED <<state, outcome, seen, partial, given, resumed, torn>>

Conclusion(p) == IF partial[p] THEN "partially_completed" ELSE "completed"

Conclude(p) ==
  /\ At(p, "conclude")
  /\ Goto(p, "idle", IF state = "draining" THEN <<Conclusion(p)>> ELSE <<>>)
  /\ UNCHANGED <<state, outcome, seen, partial, given, resumed, torn>>

\* The process of a command dies, or an exception that nobody catches ends it
\* (a run whose reservation exists, a locked store): what it wrote stays.
Crash(p) ==
  /\ Crashes
  /\ ~ AtRest(p)
  /\ Goto(p, "idle", <<>>)
  /\ seen' = [seen EXCEPT ![p] = NoState]
  /\ torn' = (torn \/ plan[p] # <<>> \/ pc[p] = "conclude")
  /\ UNCHANGED <<state, outcome, partial, given, resumed>>

Work(p) ==
  \/ Read(p) \/ Invalid(p) \/ Write(p) \/ EndBatch(p) \/ Stop(p) \/ Resume(p)
  \/ Resumed(p) \/ Drain(p) \/ Conclude(p)
  \/ \E r \in Runs :
       \/ SkipRun(p, r) \/ BeginRun(p, r)
       \/ \E how \in {"completed", "failed", "unknown_outcome"} :
            EndRun(p, r, how)

Next ==
  \E p \in Procs :
    \/ \E dryRun \in BOOLEAN : Start(p, dryRun)
    \/ \E command \in {"stop", "resume"} : Give(p, command, FALSE)
    \/ \E flag \in BOOLEAN : Give(p, "drain", flag)
    \/ Work(p)
    \/ Crash(p)

\* A command that does not die goes on, and a run ends (its worker has a
\* timeout); nobody has to give another command.
Spec == Init /\ [][Next]_vars
FairSpec == Spec /\ \A p \in Procs : WF_vars(Work(p))

-----------------------------------------------------------------------------
(***************************************************************************)
(* Properties                                                              *)
(***************************************************************************)

\* Every variable keeps its type.
TypeOK ==
  /\ state \in State
  /\ outcome \in [Runs -> Outcome]
  /\ pc \in [Procs -> Step]
  /\ plan \in [Procs -> Seq(State)]
  /\ seen \in [Procs -> State \cup {NoState}]
  /\ partial \in [Procs -> BOOLEAN]
  /\ given \in Nat
  /\ resumed \in BOOLEAN
  /\ torn \in BOOLEAN

\* The stored state moves along the transition table, whatever commands are
\* given and wherever they die: there is no impossible jump.
StepsLegal == [][state' # state => state' \in Table[state]]_vars


\* However commands overwrite each other's transitions, one of them carries the
\* campaign on: when none is at work any more it runs, is paused or has ended,
\* unless a command died in the middle of its plan.
Settled == {"absent", "running", "paused"} \cup Final
Unwedged == (\A p \in Procs : AtRest(p)) => state \in Settled \/ torn

\* A stop starts no new work: runs begin only in a running campaign.
QuietWhenStopped ==
  [][(\E r \in Runs : outcome[r] = "none" /\ outcome'[r] = "executing")
       => state = "running"]_vars

\* A campaign that was created ends or is paused, unless it is resumed:
\* commands that interrupt each other do not leave it in between.
Settles == state = "created" ~> (state \in Final \cup {"paused"} \/ resumed)
=============================================================================
