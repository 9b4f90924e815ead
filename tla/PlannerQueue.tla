---------------------------- MODULE PlannerQueue ----------------------------
(***************************************************************************)
(* From plans to work: the fair queue over the plans of several programs,  *)
(* the queue of one plan ordered by priority, and the durable planner      *)
(* state that callers move the items of a queue through.                   *)
(*                                                                         *)
(* A queue names its items by position, and the planner state knows them   *)
(* by that name alone.  A transition is validated against a row read in a  *)
(* transaction of its own.                                                 *)
(***************************************************************************)
EXTENDS Naturals, Integers, Sequences, FiniteSets, SequencesExt

CONSTANTS
  Callers,             \* processes that move the items of a queue
  PlanTargets,         \* targets of the rows of plans
  PlanSets,            \* sequences of plans: each a sequence of rows
  Scores,              \* priorities of targets that have one
  MaxActive, MaxItems, \* max_active_programs, max_items
  Tracked,             \* bound: the queue ids the callers work on
  MaxBuilds, MaxAttempts \* bounds

ASSUME QueueAssumption == MaxActive \in Nat \ {0} /\ MaxItems \in Nat \ {0}
                           /\ Tracked \subseteq 1..MaxItems

ASSUME PlanAssumption ==
  \A ps \in PlanSets : ps \in Seq(Seq([target : PlanTargets, authorizable : BOOLEAN]))

VARIABLES
  plans,  \* the plan files: rows [target, authorizable]
  work,   \* the queue file: items [plan, row], named by their position
  order,  \* how the queue was built
  rows,   \* planner.db: the row of each queue id
  call,   \* the transition each caller is making
  builds

plannerVars == <<plans, work, order, rows, call, builds>>

ItemStates == {"queued", "permit_issued", "running", "completed", "blocked", "failed"}
AllowedTransitions ==
  [queued |-> {"permit_issued", "blocked"}, permit_issued |-> {"running", "blocked"},
   running |-> {"completed", "failed"}, failed |-> {"queued", "blocked"},
   completed |-> {}, blocked |-> {}]

NoRow == [state |-> "none", attempts |-> 0]
NoCall == [id |-> 0, to |-> "none", attempts |-> 0]
-----------------------------------------------------------------------------
(***************************************************************************)
(* Queues.  An item is a plan and one of its authorizable rows.            *)
(***************************************************************************)
OpenRows(plan) == {i \in DOMAIN plan : plan[i].authorizable}
OpenPlans(ps) == {p \in DOMAIN ps : OpenRows(ps[p]) # {}}

\* How many members of a set of positions come before one.
Ahead(S, i) == Cardinality({j \in S : j < i})

\* Mutant: the first few plans, with work or without.
ActivePlans_Early(ps) == {p \in OpenPlans(ps) : p <= MaxActive}

\* The plans that have work, the first few of them: an exhausted plan holds
\* no place of an active program.
ActivePlans(ps) == {p \in OpenPlans(ps) : Ahead(OpenPlans(ps), p) < MaxActive}

Items(ps, chosen) == UNION {{[plan |-> p, row |-> i] : i \in OpenRows(ps[p])} : p \in chosen}

\* The queues of some items: as many as the limit lets in, each behind all the earlier ones.
Queues(items, earlier) ==
  {q \in Injection(1..(IF Cardinality(items) < MaxItems THEN Cardinality(items) ELSE MaxItems),
                   items) :
     \A n \in DOMAIN q : \A x \in earlier[q[n]] : \E m \in 1..(n - 1) : q[m] = x}

\* The loop takes the first row of every active plan, then the second ones, up to the limit.
Turn(ps, x) == Ahead(OpenRows(ps[x.plan]), x.row)
Sooner(ps, y) ==
  {x \in Items(ps, ActivePlans(ps)) :
     \/ Turn(ps, x) < Turn(ps, y)
     \/ Turn(ps, x) = Turn(ps, y) /\ x.plan < y.plan}
FairQueues(ps) ==
  LET items == Items(ps, ActivePlans(ps)) IN Queues(items, [y \in items |-> Sooner(ps, y)])

\* A target without a score comes after every target that has one.
ScoreOf(target) == IF target \in DOMAIN Scores THEN Scores[target] ELSE 0 - 1000000000

\* Rows of one target keep their order; targets of one score come in any.
Preferred(ps, p, y) ==
  {x \in Items(ps, {p}) :
     \/ ScoreOf(ps[p][x.row].target) > ScoreOf(ps[p][y.row].target)
     \/ ps[p][x.row].target = ps[p][y.row].target /\ x.row < y.row}
PriorityQueues(ps, p) ==
  LET items == Items(ps, {p}) IN Queues(items, [y \in items |-> Preferred(ps, p, y)])
-----------------------------------------------------------------------------
PlannerInit ==
  /\ plans \in PlanSets
  /\ work = <<>> /\ order = "none"
  /\ rows = [id \in 1..MaxItems |-> NoRow]
  /\ call = [c \in Callers |-> NoCall]
  /\ builds = 0

ReplanPrograms ==
  /\ builds < MaxBuilds
  /\ plans' \in PlanSets
  /\ builds' = builds + 1
  /\ work' = <<>> /\ order' = "none"
  /\ UNCHANGED <<rows, call>>

BuildFairQueue ==
  /\ order = "none"
  /\ work' \in FairQueues(plans) /\ order' = "fair"
  /\ UNCHANGED <<plans, rows, call, builds>>

BuildPriorityQueue ==
  /\ order = "none"
  /\ \E p \in DOMAIN plans : work' \in PriorityQueues(plans, p)
  /\ order' = "priority"
  /\ UNCHANGED <<plans, rows, call, builds>>

\* INSERT OR IGNORE: an id that has a row keeps it.
InitializePlannerState ==
  /\ work # <<>>
  /\ rows' = [id \in DOMAIN rows |->
                IF id \in DOMAIN work /\ rows[id] = NoRow
                THEN [state |-> "queued", attempts |-> 0] ELSE rows[id]]
  /\ UNCHANGED <<plans, work, order, call, builds>>

\* The row is read and the transition validated against it.
ReadRow(c) ==
  /\ call[c] = NoCall
  /\ \E id \in Tracked, to \in ItemStates :
       /\ rows[id] # NoRow
       /\ to \in AllowedTransitions[rows[id].state]
       /\ to = "running" => rows[id].attempts < MaxAttempts
       /\ call' = [call EXCEPT ![c] =
            [id |-> id, to |-> to,
             attempts |-> rows[id].attempts + (IF to = "running" THEN 1 ELSE 0)]]
  /\ UNCHANGED <<plans, work, order, rows, builds>>

UpdateRow(c) ==
  /\ call[c] # NoCall
  /\ rows' = [rows EXCEPT ![call[c].id] = [state |-> call[c].to, attempts |-> call[c].attempts]]
  /\ call' = [call EXCEPT ![c] = NoCall]
  /\ UNCHANGED <<plans, work, order, builds>>

\* What resume-queue calls resumable.
Resumable == {id \in DOMAIN work : rows[id].state \in {"queued", "failed"}}

PlannerNext ==
  \/ ReplanPrograms \/ BuildFairQueue \/ BuildPriorityQueue \/ InitializePlannerState
  \/ \E c \in Callers : ReadRow(c) \/ UpdateRow(c)

PlannerSpec == PlannerInit /\ [][PlannerNext]_plannerVars
-----------------------------------------------------------------------------
(***************************************************************************)
(* Properties.                                                             *)
(***************************************************************************)
Queued(p) == Cardinality({n \in DOMAIN work : work[n].plan = p})
Open(p) == Cardinality(OpenRows(plans[p]))

\* The fair queue is fair: no program gets two items more than a program
\* that has work left, unless that one is kept out by a full set of active
\* programs.
FairShare ==
  order = "fair" =>
    \A p \in DOMAIN plans : Open(p) > Queued(p) =>
      \/ \A q \in DOMAIN plans : Queued(q) <= Queued(p) + 1
      \/ /\ Queued(p) = 0
         /\ Cardinality({q \in DOMAIN plans : Queued(q) > 0}) = MaxActive

\* Planner items move only as the transition table allows.
TransitionsAllowed ==
  [][\A id \in DOMAIN rows :
       \/ rows'[id] = rows[id] \/ rows[id] = NoRow
       \/ rows'[id].state \in AllowedTransitions[rows[id].state]]_plannerVars
=============================================================================
