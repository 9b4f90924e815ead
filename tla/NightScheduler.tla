--------------------------- MODULE NightScheduler ---------------------------
(***************************************************************************)
(* The unattended night: a driver takes rounds of a DurableNightScheduler, *)
(* whose state is one file replaced by every operation, and launches the   *)
(* selected work through the detector service, whose journal creates an    *)
(* action at most once.  The driver keeps its decision, the outcome at     *)
(* hand and its results in memory; a crash or an exception loses them, the *)
(* file and the journal stay.                                              *)
(*                                                                         *)
(* Logical time stands still during a round.  A work item is               *)
(* <<program, attempt>>; a lease is <<program, number>>.                   *)
(***************************************************************************)
EXTENDS Naturals, Sequences, FiniteSets, SequencesExt

CONSTANTS NightPrograms, Attempts, Rank, \* the works of each program, and its fairness rank
          Offline, Revised, Renewed,     \* changed by the driver after the first round
          DeniedPrograms, Limited, Exhaustible,  \* never ready; may meet a 429; done when empty
          Hours, Horizon, Duration,      \* the times of the rounds; the deadline; of a work
          RetryAfters, MaxDriverCrashes

ASSUME SchedulerAssumption ==
  /\ IsFiniteSet(NightPrograms)
  /\ Attempts \in [NightPrograms -> Nat \ {0}] /\ Rank \in [NightPrograms -> Nat]
  /\ Hours \in Seq(Nat) /\ Len(Hours) > 1 /\ Horizon \in Nat /\ Duration \in Nat \ {0}
  /\ RetryAfters \subseteq Nat \ {0} /\ MaxDriverCrashes \in Nat

\* The rounds of the script, up to the n-th, in which a program that is ready may be launched.
FirstRound(p) == IF p \in Offline \cup Revised THEN 2 ELSE 1
RoundsFor(p, n) == Cardinality({m \in FirstRound(p)..n : Hours[m] + Duration <= Horizon})

\* The script is written for its works: three rounds before the deadline, two after leases
\* were replaced, and one or two works for each program.
ASSUME ScriptAssumption ==
  \A p \in NightPrograms \ DeniedPrograms :
    Attempts[p] <= IF p \in Limited THEN 2 ELSE RoundsFor(p, Len(Hours))

VARIABLES
  nightClock, lap, draining,  \* the file: logical time, round number, past the deadline?
  launchRow,                   \* the file: the state of each program
  nightEvents,                \* the file: attempts finished, works completed, revisions, backoffs
  leases,                \* the lease store: the status of each lease
  journal,               \* the works for which an action was created
  runs,                  \* the durable detector results: launches in order
  phase,                 \* where the driver is
  decision, launchOutcome, kept, \* its memory: works still to dispatch, outcome, results
  verdict, crashes

schedVars == <<nightClock, lap, draining, launchRow, nightEvents, leases, journal, runs, phase,
               decision, launchOutcome, kept, verdict, crashes>>
file == <<nightClock, lap, draining, launchRow, nightEvents>>

None == <<>>  \* no lease
Works(p) == [n \in 1..Attempts[p] |-> [program |-> p, attempt |-> n]]
FirstLease(p) == IF p \in DeniedPrograms \cup Offline THEN None ELSE <<p, 1>>

\* A work of the file, with the revision and the lease it requires.
Item(w, revision, lease) == [work |-> w, revision |-> revision, lease |-> lease]
Replanned(pending, revision, lease) ==
  [i \in DOMAIN pending |-> Item(pending[i].work, revision, lease)]

SchedInit ==
  /\ nightClock = 0 /\ lap = 0 /\ draining = FALSE
  /\ launchRow = [p \in NightPrograms |->
              [ready |-> p \notin DeniedPrograms \cup Offline \cup Revised, revision |-> 1,
               lease |-> FirstLease(p),
               pending |-> [n \in 1..Attempts[p] |-> Item(Works(p)[n], 1, FirstLease(p))],
               done |-> <<>>, until |-> 0, idle |-> 0, exhausted |-> FALSE, last |-> 0]]
  /\ nightEvents = <<>>
  /\ leases = [l \in {<<p, 1>> : p \in NightPrograms \ (DeniedPrograms \cup Offline)} |-> "active"]
  /\ journal = {} /\ runs = <<>>
  /\ phase = "advance"
  /\ decision = <<>> /\ launchOutcome = <<>> /\ kept = <<>>
  /\ verdict = "none" /\ crashes = 0
-----------------------------------------------------------------------------
\* advance: the clock of the file; the driver takes the hours of its script.
Advance ==
  /\ phase = "advance"
  /\ lap' = lap + 1
  /\ nightClock' = Hours[lap + 1]
  /\ draining' = (Hours[lap + 1] >= Horizon)
  /\ phase' = IF lap = 1 THEN "leases" ELSE "select"
  /\ UNCHANGED <<launchRow, nightEvents, leases, journal, runs, decision,
                 launchOutcome, kept, verdict, crashes>>

\* Mutant: a work is launched before its program is ready.
EligibleWork_Unready(p) ==
  LET r == launchRow[p]
  IN r.lease # None /\ r.pending # <<>> /\ ~r.exhausted /\ nightClock >= r.until

EligibleWork(p) ==
  LET r == launchRow[p]
  IN /\ r.ready /\ r.lease # None /\ r.pending # <<>> /\ ~r.exhausted
     /\ Head(r.pending).revision = r.revision
     /\ Head(r.pending).lease = r.lease
     /\ nightClock >= r.until
     /\ nightClock + Duration <= Horizon

\* select: the heads of the eligible programs.
Selected == IF draining THEN {} ELSE {p \in NightPrograms : EligibleWork(p)}

Marked == [p \in NightPrograms |-> IF p \in Selected THEN [launchRow[p] EXCEPT !.last = lap]
                                                    ELSE launchRow[p]]

\* The driver selects for its trace, and dispatch_round selects again: by then every
\* program selected was last scheduled in this round, and only the rank orders them.
Select ==
  /\ phase = "select"
  /\ launchRow' = Marked
  /\ \E order \in Injection(1..Cardinality(Selected), Selected) :
       /\ \A i, j \in DOMAIN order : i < j => Rank[order[i]] <= Rank[order[j]]
       /\ decision' = [i \in DOMAIN order |-> Head(launchRow[order[i]].pending)]
  /\ phase' = "launch"
  /\ UNCHANGED <<nightClock, lap, draining, nightEvents, leases, journal, runs, launchOutcome, kept,
                 verdict, crashes>>

\* Every work of the decision was dispatched.
EndRound ==
  /\ phase = "launch" /\ decision = <<>>
  /\ phase' = IF lap = Len(Hours) THEN "verify" ELSE "advance"
  /\ UNCHANGED <<file, leases, journal, runs, decision, launchOutcome, kept, verdict, crashes>>

\* The process is gone, and its memory with it.
Dead ==
  /\ phase' = "dead"
  /\ decision' = <<>> /\ launchOutcome' = <<>> /\ kept' = <<>>

Chosen == Head(decision)
Recoverable(lease) == lease \in DOMAIN leases /\ leases[lease] # "revoked"

\* The revision the request of a run names, as that of its program and as the current one:
\* written in the driver, where only the first work of a revised program names the first.
NamedRevision(work) == IF work.program \in Revised /\ work.attempt > 1 THEN 2 ELSE 1

\* execute of the driver, up to the result of the service.  It raises when the lease is not
\* recoverable, when the action exists already, or, after the run, when the retry finds no
\* earlier outcome in memory.
LaunchWork ==
  /\ phase = "launch" /\ decision # <<>>
  /\ IF ~Recoverable(Chosen.lease) \/ Chosen.work \in journal
     THEN Dead /\ UNCHANGED <<journal, runs>>
     ELSE /\ journal' = journal \cup {Chosen.work}
          /\ \E status \in {"completed", "failed", "blocked", "unknown"},
                retry \in {0} \cup RetryAfters :
               /\ retry # 0 => /\ status = "completed"
                                  /\ Chosen.work.program \in Limited /\ Chosen.work.attempt = 1
               /\ LET run == [item |-> Chosen, status |-> status, retry |-> retry,
                              lap |-> lap, at |-> nightClock,
                              named |-> NamedRevision(Chosen.work)]
                  IN /\ runs' = Append(runs, run)
                     /\ \/ /\ Chosen.work.attempt > 1
                           /\ \A i \in DOMAIN kept :
                                kept[i].item.work.program # Chosen.work.program
                           /\ Dead
                        \/ /\ \/ Chosen.work.attempt = 1
                              \/ \E i \in DOMAIN kept :
                                   kept[i].item.work.program = Chosen.work.program
                           /\ launchOutcome' = run
                           /\ kept' = Append(kept, run)
                           /\ phase' = "log"
                           /\ UNCHANGED decision
  /\ UNCHANGED <<file, leases, verdict, crashes>>

\* dispatch_round: the outcome is an event of the file.
LogAttempt ==
  /\ phase = "log"
  /\ nightEvents' = Append(nightEvents, [event |-> "attempt.finished",
                               work |-> launchOutcome.item.work,
                               lap |-> lap, retry |-> launchOutcome.retry])
  /\ phase' = IF launchOutcome.retry = 0 THEN "complete" ELSE "limit"
  /\ UNCHANGED <<nightClock, lap, draining, launchRow, leases, journal, runs, decision,
                 launchOutcome, kept, verdict, crashes>>

\* Mutant: the time of the round alone.
WaitsUntil_Now == nightClock
WaitsUntil == nightClock + launchOutcome.retry

\* rate_limit: the program waits from the logical time of the round.
RateLimit ==
  /\ phase = "limit"
  /\ launchRow' = [launchRow EXCEPT ![launchOutcome.item.work.program].until = WaitsUntil]
  /\ nightEvents' = Append(nightEvents, [event |-> "http.429",
                               work |-> launchOutcome.item.work, lap |-> lap,
                               retry |-> launchOutcome.retry])
  /\ phase' = "complete"
  /\ UNCHANGED <<nightClock, lap, draining, leases, journal, runs, decision,
                 launchOutcome, kept, verdict, crashes>>

Progressed == launchOutcome.status = "completed" /\ launchOutcome.retry = 0
              /\ launchOutcome.item.work.program \notin Exhaustible

\* complete: the work leaves the queue whatever its outcome; two in a row without progress
\* exhaust the program.
Complete ==
  /\ phase = "complete"
  /\ LET p == launchOutcome.item.work.program
         r == launchRow[p]
         idle == IF Progressed THEN 0 ELSE r.idle + 1
         rest == Tail(r.pending)
     IN IF r.pending = <<>> \/ Head(r.pending).work # launchOutcome.item.work
        THEN Dead /\ UNCHANGED <<launchRow, nightEvents>>
        ELSE /\ launchRow' = [launchRow EXCEPT ![p] =
                          [r EXCEPT !.pending = rest,
                                    !.done = Append(@, launchOutcome.item.work),
                                    !.idle = idle,
                                    !.exhausted = \/ @ \/ idle >= 2
                                                  \/ p \in Exhaustible /\ rest = <<>> /\ ~Progressed]]
             /\ nightEvents' = Append(nightEvents, [event |-> "work.completed",
                                          work |-> launchOutcome.item.work, lap |-> lap,
                                          retry |-> 0])
             /\ decision' = Tail(decision)
             /\ launchOutcome' = <<>>
             /\ phase' = "launch"
             /\ UNCHANGED kept
  /\ UNCHANGED <<nightClock, lap, draining, leases, journal, runs, verdict, crashes>>
-----------------------------------------------------------------------------
\* Between the first two rounds the driver issues, revokes and renews leases in the store;
\* a renewed lease leaves its predecessor recoverable.
ReplaceLeases ==
  /\ phase = "leases"
  /\ leases' = [l \in DOMAIN leases \cup {<<p, 1>> : p \in Offline}
                                    \cup {<<p, 2>> : p \in Revised \cup Renewed} |->
                  IF l \in {<<p, 1>> : p \in Revised} THEN "revoked" ELSE "active"]
  /\ phase' = "replan"
  /\ UNCHANGED <<file, journal, runs, decision, launchOutcome, kept, verdict, crashes>>

\* set_ready, replace_revision and replace_lease: the pending works are bound again.
Replan ==
  /\ phase = "replan"
  /\ launchRow' = [p \in NightPrograms |->
               IF p \in Offline
               THEN [launchRow[p] EXCEPT !.ready = TRUE, !.lease = <<p, 1>>,
                                   !.pending = Replanned(@, launchRow[p].revision, <<p, 1>>)]
               ELSE IF p \in Revised
               THEN [launchRow[p] EXCEPT !.ready = TRUE, !.revision = 2, !.lease = <<p, 2>>,
                                   !.pending = Replanned(@, 2, <<p, 2>>)]
               ELSE IF p \in Renewed
               THEN [launchRow[p] EXCEPT !.lease = <<p, 2>>,
                                   !.pending = Replanned(@, launchRow[p].revision, <<p, 2>>)]
               ELSE launchRow[p]]
  /\ phase' = "select"
  /\ UNCHANGED <<nightClock, lap, draining, nightEvents, leases, journal, runs, decision,
                 launchOutcome, kept, verdict, crashes>>

\* The driver crashes while it dispatches a round.
DriverCrash ==
  /\ phase \in {"launch", "log", "limit", "complete"} /\ crashes < MaxDriverCrashes
  /\ crashes' = crashes + 1
  /\ Dead
  /\ UNCHANGED <<file, leases, journal, runs, verdict>>

\* A new process reopens the file and dispatches the round again.
ReopenDriver ==
  /\ phase = "dead"
  /\ phase' = "select"
  /\ UNCHANGED <<file, leases, journal, runs, decision, launchOutcome, kept, verdict, crashes>>
-----------------------------------------------------------------------------
EventsOf(kind) == {i \in DOMAIN nightEvents : nightEvents[i].event = kind}
Finished == EventsOf("attempt.finished")
EventWork(i) == nightEvents[i].work

\* _verify_scheduler_execution_trace, over the events of the file and the results in memory.
TraceVerified ==
  /\ Cardinality(Finished) = Len(kept)
  /\ \A i, j \in Finished : i # j => EventWork(i) # EventWork(j)
  /\ {EventWork(i) : i \in Finished} = {kept[i].item.work : i \in DOMAIN kept}
  /\ \A p \in Limited :
       \E i, j \in Finished :
         /\ {n \in Finished : EventWork(n).program = p} = {i, j}
         /\ i < j /\ nightEvents[i].retry # 0 /\ nightEvents[j].lap > nightEvents[i].lap
  /\ \A i, j \in EventsOf("work.completed") : i # j => EventWork(i) # EventWork(j)

\* Results in memory of a program, and the last of them.
KeptOf(p) == {i \in DOMAIN kept : kept[i].item.work.program = p}
LastKept(p) == {i \in KeptOf(p) : \A j \in KeptOf(p) : j <= i}

\* The state of each program in the report of the night.
ReportedState(p) ==
  CASE p \in DeniedPrograms -> "BLOCKED_POLICY"
    [] launchRow[p].exhausted -> "EXHAUSTED"
    [] \E i \in LastKept(p) : kept[i].status # "completed" -> "PARTIAL"
    [] OTHER -> "COMPLETED"

\* The trace is verified and the report written, or the night raises.
Verify ==
  /\ phase = "verify"
  /\ verdict' = IF TraceVerified THEN "reported" ELSE "raised"
  /\ phase' = "done"
  /\ UNCHANGED <<file, leases, journal, runs, decision, launchOutcome, kept, crashes>>

NightOver == phase = "done" /\ UNCHANGED schedVars

DriverStep == Advance \/ Select \/ EndRound \/ LaunchWork \/ LogAttempt \/ RateLimit \/ Complete
              \/ ReplaceLeases \/ Replan \/ ReopenDriver \/ Verify

SchedNext == DriverStep \/ DriverCrash \/ NightOver
SchedSpec == SchedInit /\ [][SchedNext]_schedVars /\ WF_schedVars(DriverStep)
-----------------------------------------------------------------------------
\* No work is launched twice, in whatever step the driver dies and is reopened.
LaunchedOnce == \A i, j \in DOMAIN runs : i # j => runs[i].item.work # runs[j].item.work

\* What is launched is planned for the revision and bound to the lease that are its program's
\* at that moment, not only at the decision; the works of a program are launched in their
\* order, within the deadline, and never after the program was exhausted.
LaunchesCurrent ==
  [][runs' # runs =>
       LET run == runs'[Len(runs')]
           r == launchRow[run.item.work.program]
       IN /\ run.item.revision = r.revision /\ run.item.lease = r.lease
          /\ leases[r.lease] = "active"
          /\ r.ready /\ ~r.exhausted
          /\ run.item.work.attempt = Len(r.done) + 1
          /\ nightClock + Duration <= Horizon]_schedVars

\* "F revoked its revision-1 lease/permit/plan before revision-2 execution": the run of a
\* launched work names the revision its work requires.
RunsRevised == \A i \in DOMAIN runs : runs[i].named = runs[i].item.revision

\* After a 429 no work of the program is launched in the same round, nor before the time the
\* target asked for.
RateLimitedWaits ==
  \A i, j \in DOMAIN runs :
    (i < j /\ runs[i].retry # 0 /\ runs[i].item.work.program = runs[j].item.work.program)
      => runs[j].lap > runs[i].lap /\ runs[j].at >= runs[i].at + runs[i].retry

\* A report says COMPLETED only of a program all whose work was launched, the last with
\* success.
ReportTruthful ==
  verdict = "reported" =>
    \A p \in NightPrograms : ReportedState(p) = "COMPLETED" =>
      /\ launchRow[p].pending = <<>> /\ Len(launchRow[p].done) = Attempts[p]
      /\ \A i \in DOMAIN runs : (/\ runs[i].item.work.program = p
                                 /\ runs[i].item.work.attempt = Attempts[p])
                                  => runs[i].status = "completed"

\* The driver keeps the schedule, whatever it dies in: no work twice, the waits of the
\* targets, a report that says what was launched.
ScheduleKept == LaunchedOnce /\ RateLimitedWaits /\ ReportTruthful

\* "Launch exactly once per eligible decision, then durably ingest its outcome": a launched
\* work is eventually completed in the file.
OutcomesIngested ==
  \A p \in NightPrograms : \A n \in 1..Attempts[p] :
    Works(p)[n] \in journal
      ~> \E i \in DOMAIN launchRow[p].done : launchRow[p].done[i] = Works(p)[n]
=============================================================================
