---------------------------- MODULE MCProxyAndLab ----------------------------
(***************************************************************************)
(* The counting proxy and the qualification lab share no state: each is    *)
(* checked from its own initial states, as `component` says, while the     *)
(* other stays as it begins.  Handler threads are interchangeable, and so  *)
(* are the runs of the lab.                                                *)
(***************************************************************************)
EXTENDS CountingProxy, QualificationLab, TLC

VARIABLE component

\* A crawl of a large page, and a probe of the output's bound.
MCJobs == {[runtime |-> "playwright", target |-> "large", bounded |-> FALSE],
           [runtime |-> "zap", target |-> "health", bounded |-> TRUE]}

\* The verifier's image may be built again.
MCImages == [t \in {"playwright", "zap"} |-> IF t = "zap" THEN 2 ELSE 1]

MCSymmetry == Permutations(Requests) \cup Permutations(LabRuns)

ProxyAndLabInit == component \in {"proxy", "lab"} /\ Init /\ LabInit

ProxyAndLabNext ==
  /\ \/ component = "proxy" /\ Next /\ UNCHANGED labVars
     \/ component = "lab" /\ LabNext /\ UNCHANGED vars
  /\ UNCHANGED component

ProxyAndLabSpec ==
  ProxyAndLabInit /\ [][ProxyAndLabNext]_<<component, vars, labVars>>
=============================================================================
