---------------------------- MODULE MCNightWork ----------------------------
(***************************************************************************)
(* Components that share no state, each checked from its own initial       *)
(* states: `component` says which of them is looked at, and the others     *)
(* stay as they begin.  Here: the execution of one detector run by two     *)
(* processes, the scheduler of a full night and the night that runs it,    *)
(* the chaos campaign of the detectors, field observations, the program    *)
(* catalog and the observing workers.                                      *)
(***************************************************************************)
EXTENDS DetectorExecution, NightScheduler, FullNight, DetectorChaos, FieldObservation,
        ProgramCatalog, WorkerObservation, TLC

CONSTANTS w1, w2
VARIABLE component

\* Five programs of the full night: H meets a 429 and is renewed, F gets a new
\* revision, E comes online, D is exhausted when empty, B is denied.
MCPrograms == {"B", "D", "E", "F", "H"}
MCAttempts == [p \in MCPrograms |-> IF p \in {"H", "F"} THEN 2 ELSE 1]
MCRank == [B |-> 5, D |-> 2, E |-> 4, F |-> 3, H |-> 1]
MCHours == <<0, 2, 4, 5, 8>>

\* What a run of the night may end with.
MCOutcomes ==
  {[status |-> "completed", authorized |-> TRUE, forwarded |-> 2],
   [status |-> "failed", authorized |-> TRUE, forwarded |-> 1],
   [status |-> "blocked_before_io", authorized |-> TRUE, forwarded |-> 0],
   [status |-> "blocked_before_io", authorized |-> FALSE, forwarded |-> 0]}

\* Chaos: each physical point alone, two in a row, and the end of the matrix.
MCPlans == {<<"before_launch", "reporting">>, <<"before_io">>, <<"forwarded">>, <<"responded">>,
            <<"evidenced", "proved">>, <<"worker_crash">>, <<"none">>}

\* Every site of three urls, observed within small limits.
MCUrls == {"a", "b", "c"}
MCPage == [kind : {"page", "down"}, to : {Nowhere}]
            \cup [kind : {"redirect"}, to : MCUrls \cup {"elsewhere"}]
MCCases == [site : [MCUrls -> MCPage], url : {"a"}, follow : BOOLEAN,
            redirects : 0..2, requests : 1..3]

\* Catalog: captures whose exclusion lines come, go and move.
Line(text, opens, issues, rules) ==
  [text |-> text, opens |-> opens, denies |-> FALSE, assets |-> {}, issues |-> issues,
   rules |-> rules]
Scope   == Line("scope of the program", "scope", {}, {})
Shop    == [Line("the shop", "none", {}, {}) EXCEPT !.assets = {"shop"}]
Online  == Line("no tests while offline", "heading", {}, {"program_must_be_online"})
Company == Line("any system of the company", "none", {"broad_asset_exclusion"}, {})
Campus  == Line("any system of the campus", "none", {"broad_asset_exclusion"}, {})
Traffic == Line("no significant traffic", "none", {"qualitative_rate_limit"}, {})
MCPages == {<<Scope, Shop, Company, Traffic, Online>>, <<Scope, Shop, Campus>>}
MCSignals == {{"submission_control", "published_marker"}}

\* Two observing processes, which may hold the same permit or write the same file.
MCWorkers == {w1, w2}
Asks(command, origin, where, permit, path) ==
  [command |-> command, store |-> where, permit |-> permit, path |-> path,
   origin |-> origin, automation |-> TRUE, method |-> "GET", bounded |-> TRUE]
MCRequests ==
  {Asks("observe", "declared", "file", "p", "p.json"),
   Asks("ctf", "declared", "file", "q", "p.json"),
   Asks("authenticated", "declared", "db", "r", "r.json"),
   Asks("ctf", "other", "db", "q", "q.json")}
MCSymmetry == Permutations(MCWorkers)

\* The first of the cases, for a component that is not looked at.
One(S) == CHOOSE x \in S : TRUE
-----------------------------------------------------------------------------
NightWorkInit ==
  /\ component \in {"detector", "scheduler", "night", "chaos", "field", "catalog", "workers"}
  /\ component # "chaos" => queue = One(Plans)
  /\ component # "field" => case = One(Cases)
  /\ Init /\ SchedInit /\ FullInit /\ ChaosInit /\ FieldInit /\ CatInit /\ WorkersInit
  /\ component # "workers" => \A w \in Workers : task[w].request = One(WorkerRequests)

NightWorkNext ==
  /\ \/ /\ component = "detector" /\ Next
        /\ UNCHANGED <<schedVars, fullVars, chaosVars, fieldVars, catVars, observationVars>>
     \/ /\ component = "scheduler" /\ SchedNext
        /\ UNCHANGED <<vars, fullVars, chaosVars, fieldVars, catVars, observationVars>>
     \/ /\ component = "night" /\ FullNext
        /\ UNCHANGED <<vars, schedVars, chaosVars, fieldVars, catVars, observationVars>>
     \/ /\ component = "chaos" /\ ChaosNext
        /\ UNCHANGED <<vars, schedVars, fullVars, fieldVars, catVars, observationVars>>
     \/ /\ component = "field" /\ FieldNext
        /\ UNCHANGED <<vars, schedVars, fullVars, chaosVars, catVars, observationVars>>
     \/ /\ component = "catalog" /\ CatNext
        /\ UNCHANGED <<vars, schedVars, fullVars, chaosVars, fieldVars, observationVars>>
     \/ /\ component = "workers" /\ WorkersNext
        /\ UNCHANGED <<vars, schedVars, fullVars, chaosVars, fieldVars, catVars>>
  /\ UNCHANGED component

NightWorkSpec ==
  NightWorkInit /\ [][NightWorkNext]_<<component, vars, schedVars, fullVars, chaosVars,
                                       fieldVars, catVars, observationVars>>
=============================================================================
