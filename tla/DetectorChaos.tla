--------------------------- MODULE DetectorChaos ---------------------------
(***************************************************************************)
(* The chaos matrix: a driver takes the chaos points one by one, runs the  *)
(* detector service with the Docker adapter told to fail at that point (or *)
(* injects the artifacts of a crash), and recovers the point from what is  *)
(* on disk.  A physical run is a proxy and a worker container on a network *)
(* of their own; they go on while the adapter reads the ledger and raises, *)
(* until its finally block has removed them.                               *)
(*                                                                         *)
(* Docker removes what it is told to remove.  The worker sends one request *)
(* after the other; its last one may be in flight when it exits.           *)
(***************************************************************************)
EXTENDS Integers, Sequences, FiniteSets, Functions

CONSTANTS
  Plans,       \* the sequences of points a driver may be given
  ChaosRequests, \* the request ceiling of the permit
  Tries        \* bound: the requests a worker attempts

ASSUME ChaosAssumption == ChaosRequests \in Nat \ {0} /\ Tries \in Nat

\* The points the adapter produces, those that are only injected, and the
\* run without a fault that ends the matrix.
Physical == {"before_launch", "before_io", "forwarded", "responded", "evidenced", "worker_crash"}
Injected == {"proved", "reporting"}
Point == Physical \cup Injected \cup {"none"}

\* The driver takes every point once, each in a directory of its own.
ASSUME PlansAssumption == \A plan \in Plans : plan \in Seq(Point) /\ IsInjective(plan)

VARIABLES
  queue,   \* the points left, the head is at work
  disk,    \* the directory of each point
  box,     \* the worker, the proxy, and the request in flight between them
  orphanContainers, \* history: the workers whose container was left behind
  chaosAt,      \* where the driver is
  attempt, \* of the run at work: 1, or 2 for the safe retry
  seen,    \* the accounting the adapter read
  end,     \* how the adapter ended
  chaosReport   \* chaos-report.json

chaosVars == <<queue, disk, box, orphanContainers, chaosAt, attempt, seen, end, chaosReport>>

NoRows == [forwarding |-> 0, responses |-> 0, failed |-> 0, blocked |-> 0]
ForwardedOf(rows) == rows.forwarding + rows.responses + rows.failed
NoBox == [worker |-> "none", proxy |-> "none", flight |-> FALSE, sent |-> 0]
NoEnd == [how |-> "none", started |-> FALSE, retryable |-> FALSE, blocked |-> FALSE]
NoRecovery == [class |-> "none"]
EmptyDir == [life |-> "none", proxyRows |-> [n \in 1..2 |-> NoRows], files |-> {},
             status |-> [n \in 1..2 |-> "none"], recovery |-> NoRecovery]

Expected ==
  [before_launch |-> "FAILED_BEFORE_IO", before_io |-> "FAILED_BEFORE_IO",
   forwarded |-> "UNKNOWN_OUTCOME", worker_crash |-> "UNKNOWN_OUTCOME",
   responded |-> "RECOVERABLE", evidenced |-> "RECOVERABLE", proved |-> "RECOVERABLE",
   reporting |-> "COMPLETED"]

ChaosInit ==
  /\ queue \in Plans
  /\ disk = [p \in Point |-> EmptyDir]
  /\ box = NoBox /\ orphanContainers = {}
  /\ chaosAt = "idle" /\ attempt = 1
  /\ seen = NoRows /\ end = NoEnd /\ chaosReport = <<>>

point == Head(queue)
fault == IF attempt = 1 THEN point ELSE "none"
proxyRows == disk[point].proxyRows[attempt]
Logged(rows) == disk' = [disk EXCEPT ![point].proxyRows[attempt] = rows]
-----------------------------------------------------------------------------
(***************************************************************************)
(* The adapter.                                                            *)
(***************************************************************************)
Ended(how, started, retryable, blocked) ==
  end' = [how |-> how, started |-> started, retryable |-> retryable, blocked |-> blocked]

BeginPoint ==
  /\ chaosAt = "idle" /\ queue # <<>>
  /\ chaosAt' = IF point \in Injected THEN "inject" ELSE "identity"
  /\ attempt' = 1
  /\ UNCHANGED <<queue, disk, box, orphanContainers, seen, end, chaosReport>>

\* The images of the proxy and the worker are those the runtime names.
Identity ==
  /\ chaosAt = "identity"
  /\ seen' = NoRows
  /\ box' = NoBox
  /\ \/ chaosAt' = "create" /\ end' = NoEnd
     \/ chaosAt' = "close" /\ Ended("drift", FALSE, FALSE, TRUE)
  /\ UNCHANGED <<queue, disk, orphanContainers, attempt, chaosReport>>

\* The network, the proxy and its connection to the target's network.
Create ==
  /\ chaosAt = "create"
  /\ \/ /\ box' = [box EXCEPT !.proxy = "running"]
        /\ chaosAt' = "launch" /\ end' = end
     \/ /\ box' \in {box, [box EXCEPT !.proxy = "running"]}
        /\ chaosAt' = "clean" /\ Ended("docker_control", FALSE, TRUE, FALSE)
  /\ UNCHANGED <<queue, disk, orphanContainers, attempt, seen, chaosReport>>

LaunchWorker ==
  /\ chaosAt = "launch"
  /\ \/ /\ fault = "before_launch"
        /\ chaosAt' = "clean" /\ Ended("chaos", FALSE, TRUE, TRUE)
        /\ UNCHANGED <<disk, box>>
     \/ /\ fault # "before_launch"
        /\ disk' = [disk EXCEPT ![point].life = "launching"]
        /\ box' = [box EXCEPT !.worker = "running"]
        /\ chaosAt' = IF fault = "worker_crash" THEN "poll" ELSE "wait"
        /\ end' = end
  /\ UNCHANGED <<queue, orphanContainers, attempt, seen, chaosReport>>

\* The worker's next request, at a proxy that may be told to die on it.
SendRequest ==
  /\ queue # <<>> /\ box.worker = "running" /\ ~box.flight /\ box.sent < Tries
  /\ \/ /\ box.proxy # "running" \/ fault = "before_io"
        /\ box' = [box EXCEPT !.sent = @ + 1,
                              !.proxy = IF @ = "running" THEN "dead" ELSE @]
        /\ UNCHANGED disk
     \/ /\ box.proxy = "running" /\ fault # "before_io"
        /\ ForwardedOf(proxyRows) >= ChaosRequests
        /\ Logged([proxyRows EXCEPT !.blocked = @ + 1])
        /\ box' = [box EXCEPT !.sent = @ + 1]
     \/ /\ box.proxy = "running" /\ fault # "before_io"
        /\ ForwardedOf(proxyRows) < ChaosRequests
        /\ Logged([proxyRows EXCEPT !.forwarding = @ + 1])
        /\ box' = [box EXCEPT !.sent = @ + 1, !.flight = (fault # "forwarded"),
                              !.proxy = IF fault = "forwarded" THEN "dead" ELSE @]
  /\ UNCHANGED <<queue, orphanContainers, chaosAt, attempt, seen, end, chaosReport>>

\* The target answers; a proxy told to hold the answer records nothing.
Answered ==
  /\ queue # <<>> /\ box.flight /\ box.proxy = "running" /\ fault # "worker_crash"
  /\ \/ Logged([proxyRows EXCEPT !.forwarding = @ - 1, !.responses = @ + 1])
     \/ Logged([proxyRows EXCEPT !.forwarding = @ - 1, !.failed = @ + 1])
  /\ box' = [box EXCEPT !.flight = FALSE]
  /\ UNCHANGED <<queue, orphanContainers, chaosAt, attempt, seen, end, chaosReport>>

\* The worker exited: lifecycle, ledger and receipt.
Exited ==
  /\ chaosAt = "wait" /\ box.worker = "running"
  /\ box' = [box EXCEPT !.worker = "none"]
  /\ seen' = proxyRows
  /\ chaosAt' = "clean"
  /\ \E accepted, performed \in BOOLEAN :
       LET f == ForwardedOf(proxyRows)
           how == CASE ~accepted -> "worker_failure"
                    [] accepted /\ proxyRows.forwarding > 0 -> "uncertain"
                    [] accepted /\ proxyRows.forwarding = 0 /\ f + proxyRows.blocked = 0 /\ performed
                         -> "unaccounted"
                    [] OTHER -> IF fault \in {"responded", "evidenced"} THEN "chaos"
                                ELSE "completed"
       IN /\ CASE how = "worker_failure" -> Ended(how, f > 0, f = 0, FALSE)
               [] how = "unaccounted"    -> Ended(how, FALSE, TRUE, TRUE)
               [] how = "chaos"          -> Ended(how, f > 0, FALSE, FALSE)
               [] OTHER                  -> Ended(how, TRUE, FALSE, FALSE)
          /\ disk' = [disk EXCEPT
               ![point].life = "exited",
               ![point].files = IF how = "chaos" /\ fault = "evidenced"
                                THEN @ \cup {"intermediate"} ELSE @]
  /\ UNCHANGED <<queue, orphanContainers, attempt, chaosReport>>

\* The docker client is stopped after its timeout; the container is not.
TimedOut ==
  /\ chaosAt = "wait" /\ box.worker = "running"
  /\ seen' = proxyRows
  /\ orphanContainers' = orphanContainers \cup {<<point, attempt>>}
  /\ chaosAt' = "clean" /\ Ended("timeout", TRUE, TRUE, FALSE)
  /\ UNCHANGED <<queue, disk, box, attempt, chaosReport>>

\* The worker-crash fault: the adapter polls the ledger in the proxy, kills
\* the worker and the proxy once a request was forwarded, and gives up when
\* its deadline passed without one.
PollWorker ==
  /\ chaosAt = "poll"
  /\ chaosAt' = IF ForwardedOf(proxyRows) > 0 THEN "kill" ELSE "giveup"
  /\ UNCHANGED <<queue, disk, box, orphanContainers, attempt, seen, end, chaosReport>>

Kill ==
  /\ chaosAt = "kill"
  /\ box' = [box EXCEPT !.worker = "none", !.proxy = "none", !.flight = FALSE]
  /\ seen' = proxyRows
  /\ disk' = [disk EXCEPT ![point].life = "killed"]
  /\ chaosAt' = "clean" /\ Ended("worker_crash", ForwardedOf(proxyRows) > 0, FALSE, FALSE)
  /\ UNCHANGED <<queue, orphanContainers, attempt, chaosReport>>

GiveUp ==
  /\ chaosAt = "giveup"
  /\ seen' = proxyRows
  /\ chaosAt' = "clean" /\ Ended("not_reached", FALSE, TRUE, TRUE)
  /\ UNCHANGED <<queue, disk, box, orphanContainers, attempt, chaosReport>>

\* The finally block: a worker it named, the proxy and the network.
RemoveContainers ==
  /\ chaosAt = "clean"
  /\ box' = [box EXCEPT !.worker = IF fault = "worker_crash" THEN "none" ELSE @,
                        !.proxy = "none", !.flight = FALSE]
  /\ chaosAt' = "close"
  /\ UNCHANGED <<queue, disk, orphanContainers, attempt, seen, end, chaosReport>>

\* The service writes the result of the run.
StatusOfEnd ==
  IF end.how = "uncertain" \/ (end.started /\ ForwardedOf(seen) > seen.responses
                                /\ end.how # "completed")
  THEN "unknown_outcome"
  ELSE IF end.how = "completed" THEN "completed"
  ELSE IF end.blocked THEN "blocked_before_io" ELSE "failed"

Close ==
  /\ chaosAt = "close"
  /\ disk' = [disk EXCEPT ![point].status[attempt] = StatusOfEnd]
  /\ chaosAt' = IF attempt = 2 THEN "retried" ELSE IF point = "none" THEN "reopen" ELSE "recover"
  /\ UNCHANGED <<queue, box, orphanContainers, attempt, seen, end, chaosReport>>
-----------------------------------------------------------------------------
(***************************************************************************)
(* Recovery.                                                               *)
(***************************************************************************)
\* A run is retried when its durable ledger shows no forwarded request.
MayRetry_Result == end.retryable /\ StatusOfEnd # "unknown_outcome"
MayRetry == ForwardedOf(proxyRows) = 0

RecoveryPasses ==
  LET d == disk[point]  f == ForwardedOf(proxyRows)
  IN CASE point = "before_launch" -> d.life = "none" /\ f = 0
       [] point = "before_io"     -> d.life # "none" /\ f = 0
       [] point = "forwarded"     -> f = 1 /\ proxyRows.forwarding = 1
       [] point = "worker_crash"  -> d.life = "killed" /\ f = 1 /\ proxyRows.forwarding = 1
       [] point = "responded"     -> f = 1 /\ proxyRows.responses = 1
       [] OTHER                   -> proxyRows.responses = 1 /\ "intermediate" \in d.files

RecoverPhysical ==
  /\ chaosAt = "recover"
  /\ IF point = "worker_crash" /\ disk[point].life = "none"  \* its lifecycle file is read
     THEN chaosAt' = "stopped" /\ UNCHANGED disk
     ELSE /\ chaosAt' = IF MayRetry THEN "retry" ELSE "verdict"
          /\ disk' = [disk EXCEPT
               ![point].files = @ \cup (IF "intermediate" \in @ THEN {"evidence"} ELSE {}),
               ![point].recovery =
                 [class |-> Expected[point], before |-> ForwardedOf(proxyRows),
                  after |-> ForwardedOf(proxyRows), unknown |-> proxyRows.forwarding,
                  retry |-> MayRetry, fresh |-> FALSE, passed |-> RecoveryPasses]]
  /\ UNCHANGED <<queue, box, orphanContainers, attempt, seen, end, chaosReport>>

\* The retry is the same request with the next attempt number: another run,
\* another permit, unless its lease or its permit is no longer current.
Retry ==
  /\ chaosAt = "retry"
  /\ \/ chaosAt' = "identity" /\ attempt' = 2 /\ UNCHANGED disk
     \/ /\ chaosAt' = "verdict" /\ attempt' = 1
        /\ disk' = [disk EXCEPT ![point].recovery.passed = FALSE]
  /\ UNCHANGED <<queue, box, orphanContainers, seen, end, chaosReport>>

Retried ==
  /\ chaosAt = "retried"
  /\ disk' = [disk EXCEPT ![point].recovery.fresh = TRUE]
  /\ chaosAt' = "verdict" /\ attempt' = 1
  /\ UNCHANGED <<queue, box, orphanContainers, seen, end, chaosReport>>

\* The accounting in the result of the faulted run and the recovery agree
\* with the point; the driver stops at the first that does not.
RunPasses ==
  CASE point \in {"before_launch", "before_io"} -> disk[point].recovery.before = 0
    [] point \in {"forwarded", "worker_crash"}  -> disk[point].status[1] = "unknown_outcome"
    [] OTHER -> disk[point].recovery.before = 1

Verdict ==
  /\ chaosAt = "verdict"
  /\ IF RunPasses /\ disk[point].recovery.passed
     THEN chaosAt' = "idle" /\ queue' = Tail(queue)
     ELSE chaosAt' = "stopped" /\ UNCHANGED queue
  /\ UNCHANGED <<disk, box, orphanContainers, attempt, seen, end, chaosReport>>

\* A point that is injected: the artifacts a crash there leaves.
Inject ==
  /\ chaosAt = "inject"
  /\ disk' = [disk EXCEPT ![point].files =
                IF point = "proved" THEN {"event", "evidence", "proof"}
                ELSE {"event", "detector-complete", "report.tmp"}]
  /\ chaosAt' = "resume"
  /\ UNCHANGED <<queue, box, orphanContainers, attempt, seen, end, chaosReport>>

Resume ==
  /\ chaosAt = "resume"
  /\ disk' = [disk EXCEPT
       ![point].files = IF point = "proved" THEN @ \cup {"finding"}
                        ELSE (@ \ {"report.tmp"}) \cup {"report"},
       ![point].recovery =
         [class |-> Expected[point], before |-> 0, after |-> 0, unknown |-> 0,
          retry |-> FALSE, fresh |-> FALSE, passed |-> TRUE]]
  /\ chaosAt' = "idle" /\ queue' = Tail(queue)
  /\ UNCHANGED <<box, orphanContainers, attempt, seen, end, chaosReport>>

\* The completed run is reopened from its result and its ledger.
Reopen ==
  /\ chaosAt = "reopen"
  /\ IF disk["none"].status[1] = "completed" /\ ForwardedOf(proxyRows) = 1 /\ proxyRows.responses = 1
     THEN chaosAt' = "idle" /\ queue' = Tail(queue)
     ELSE chaosAt' = "stopped" /\ UNCHANGED queue
  /\ UNCHANGED <<disk, box, orphanContainers, attempt, seen, end, chaosReport>>

Consolidate ==
  LET recovered == {p \in Point : disk[p].recovery # NoRecovery}
      retried == {p \in recovered : disk[p].recovery.retry}
      Sum[S \in SUBSET recovered] ==
        IF S = {} THEN NoRows
        ELSE LET p == CHOOSE p \in S : TRUE
                 rest == Sum[S \ {p}]
             IN [k \in DOMAIN NoRows |->
                   rest[k] + disk[p].proxyRows[1][k] + disk[p].proxyRows[2][k]]
  IN /\ chaosAt = "idle" /\ queue = <<>> /\ chaosReport = <<>>
     /\ chaosReport' = <<[passed |-> Cardinality({p \in recovered : disk[p].recovery.passed}),
                     points |-> Cardinality(recovered), rows |-> Sum[recovered],
                     retries |-> Cardinality(retried), orphanContainers |-> 0]>>
     /\ UNCHANGED <<queue, disk, box, orphanContainers, chaosAt, attempt, seen, end>>

ChaosNext ==
  \/ BeginPoint \/ Identity \/ Create \/ LaunchWorker \/ SendRequest \/ Answered \/ Exited
  \/ TimedOut \/ PollWorker \/ Kill \/ GiveUp \/ RemoveContainers \/ Close \/ RecoverPhysical
  \/ Retry \/ Retried \/ Verdict \/ Inject \/ Resume \/ Reopen \/ Consolidate

ChaosSpec == ChaosInit /\ [][ChaosNext]_chaosVars
-----------------------------------------------------------------------------
(***************************************************************************)
(* Properties.                                                             *)
(***************************************************************************)
\* What a recovery reports of a physical point is what its ledger says, then
\* and ever after: the containers of the run are gone when it is read
\* (recover_physical_detector_chaos against the finally block of execute).
RecoveryTruthful ==
  \A p \in Physical :
    LET r == disk[p].recovery  rows == disk[p].proxyRows[1]
    IN r # NoRecovery =>
         /\ r.before = ForwardedOf(rows) /\ r.unknown = rows.forwarding
         /\ r.passed /\ r.class = "FAILED_BEFORE_IO" => ForwardedOf(rows) = 0
         /\ r.passed /\ r.class = "UNKNOWN_OUTCOME" => rows.forwarding = 1

\* A point is tried a second time only if its first run never let a request
\* out, whatever the adapter's error said of it (retry=accounting.forwarded == 0).
NoBlindReplay ==
  \A p \in Physical :
    disk[p].proxyRows[2] # NoRows \/ disk[p].status[2] # "none" => ForwardedOf(disk[p].proxyRows[1]) = 0

\* A recovery says what happened and repeats nothing that may have happened.
RecoverySound == RecoveryTruthful /\ NoBlindReplay

\* The report says how many workers were left behind.
OrphansReported ==
  chaosReport # <<>> => chaosReport[1].orphanContainers = Cardinality({o \in orphanContainers : o[1] \in Physical})
=============================================================================
