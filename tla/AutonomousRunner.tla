-------------------------- MODULE AutonomousRunner -------------------------
(***************************************************************************)
(* The runner of local development: a process woken by a scheduler takes a *)
(* session lock and iterates; every iteration takes the runner lock, loads *)
(* the state file, lets a coding agent work in the repository and moves    *)
(* the state by what the agent reports and the validation finds.  Every    *)
(* write of the state file is a step of its own, and a process may end     *)
(* between any two.                                                        *)
(*                                                                         *)
(* A lock is a directory with an owner file; the owner is a process and    *)
(* the number of its start.  The repository is a commit number and the     *)
(* authors of the uncommitted changes, with a version.                     *)
(***************************************************************************)
EXTENDS Naturals, FiniteSets, Sequences

CONSTANTS
  Runners,        \* processes
  FirstMilestone, LastMilestone,   \* 0 is not an autonomous milestone; 8 is the last one
  MaxInvocations, MaxIdle,         \* of a session: iterations, and those without progress
  MaxStarts, MaxCrashes, MaxForeign, MaxEdits

ASSUME RunnerAssumption ==
  /\ FirstMilestone \in Nat /\ LastMilestone \in Nat /\ MaxInvocations \in Nat \ {0}
  /\ MaxIdle \in Nat \ {0} /\ MaxStarts \in Nat /\ MaxCrashes \in Nat
  /\ MaxForeign \in Nat /\ MaxEdits \in Nat

VARIABLES
  saved,     \* state.json: status, milestone, head
  owned,     \* owned-work.json: none or one checkpoint
  head, milestoneWork,  \* the repository: its commit, and the uncommitted changes
  lock,      \* the two lock directories: absent, or none or one owner
  proc,      \* where each process is, and its memory
  starts, crashes, edits, foreign,
  invoked,   \* the work tree the agent was last given
  validated  \* the milestones whose validation has passed

runnerVars == <<saved, owned, head, milestoneWork, lock, proc, starts, crashes, edits, foreign, invoked,
                validated>>
disk == <<saved, owned, head, milestoneWork>>
counts == <<starts, crashes, edits, foreign>>

Transitions ==
  [READY             |-> {"RUNNING", "BLOCKED"},
   RUNNING           |-> {"READY", "VALIDATING", "WAITING_FOR_RESET", "HUMAN_GATE", "BLOCKED"},
   VALIDATING        |-> {"READY", "HUMAN_GATE", "COMPLETE", "BLOCKED"},
   WAITING_FOR_RESET |-> {"RUNNING", "BLOCKED"},
   RECOVERING        |-> {"READY", "BLOCKED"},
   HUMAN_GATE        |-> {},
   BLOCKED           |-> {"READY"},
   COMPLETE          |-> {}]
Terminal == {"HUMAN_GATE", "COMPLETE"}

Absent == [made |-> FALSE, owner |-> {}]
Owned(owners) == [made |-> TRUE, owner |-> owners]
Clean == [by |-> {}, version |-> 0]
Checkpoint(state) == {[base |-> head, milestone |-> state.milestone, milestoneWork |-> milestoneWork]}

Off == [at |-> "off", start |-> 0, state |-> {}, tries |-> 0, turn |-> 0, idle |-> 0, mark |-> <<>>,
        result |-> "none"]

DevInit ==
  /\ saved = [status |-> "READY", milestone |-> FirstMilestone, head |-> 0]
  /\ owned = {} /\ head = 0 /\ milestoneWork = Clean
  /\ lock = [l \in {"session", "runner"} |-> Absent]
  /\ proc = [p \in Runners |-> Off]
  /\ starts = 0 /\ crashes = 0 /\ edits = 0 /\ foreign = 0
  /\ invoked = Clean /\ validated = {}

Memory(p) == CHOOSE s \in proc[p].state : TRUE
Becomes(p, memory) == proc' = [proc EXCEPT ![p] = memory]
RunnerMoves(p, to) == Becomes(p, [proc[p] EXCEPT !.at = to])

\* The state file is replaced by the process' copy of it.
Saves(p, state, to) ==
  /\ saved' = state
  /\ Becomes(p, [proc[p] EXCEPT !.at = to, !.state = {state}])
-----------------------------------------------------------------------------
\* The locks.  The directory is made first and the owner written into it afterwards.
LockOf(at) == IF at \in {"take session", "own session", "steal session", "drop session"}
              THEN "session" ELSE "runner"
OwnStep == [session |-> "own session", runner |-> "own runner"]
StealStep == [session |-> "steal session", runner |-> "steal runner"]
TakeStep == [session |-> "take session", runner |-> "take runner"]
OwnerOf(p) == [by |-> p, start |-> proc[p].start]
Live(owner) == proc[owner.by].at # "off" /\ proc[owner.by].start = owner.start

Wake(p) ==
  /\ proc[p].at = "off" /\ starts < MaxStarts
  /\ starts' = starts + 1
  /\ Becomes(p, [Off EXCEPT !.at = "take session", !.start = starts + 1])
  /\ UNCHANGED <<disk, lock, crashes, edits, foreign, invoked, validated>>

\* mkdir, or the look at the present owner.  A RunnerError ends a session attempt, and an
\* iteration ends its session.
Take(p) ==
  LET l == LockOf(proc[p].at)
  IN /\ proc[p].at \in {"take session", "take runner"}
     /\ IF proc[p].tries = 2
        THEN lock' = lock /\ (IF l = "session" THEN Becomes(p, Off) ELSE RunnerMoves(p, "drop session"))
        ELSE IF lock[l] = Absent
        THEN lock' = [lock EXCEPT ![l] = Owned({})] /\ RunnerMoves(p, OwnStep[l])
        ELSE /\ lock' = lock
             /\ IF \E o \in lock[l].owner : Live(o)
                THEN IF l = "session" THEN Becomes(p, Off) ELSE RunnerMoves(p, "drop session")
                ELSE RunnerMoves(p, StealStep[l])
     /\ UNCHANGED <<disk, counts, invoked, validated>>

\* The owner file is written; its directory is made again if it is gone.
Own(p) ==
  LET l == LockOf(proc[p].at)
  IN /\ proc[p].at \in {"own session", "own runner"}
     /\ lock' = [lock EXCEPT ![l] = Owned({OwnerOf(p)})]
     /\ Becomes(p, [proc[p] EXCEPT !.at = IF l = "session" THEN "loop" ELSE "load", !.tries = 0])
     /\ UNCHANGED <<disk, counts, invoked, validated>>

\* The directory found without a live owner is moved away, whoever made it since.
Steal(p) ==
  LET l == LockOf(proc[p].at)
  IN /\ proc[p].at \in {"steal session", "steal runner"}
     /\ lock' = [lock EXCEPT ![l] = Absent]
     /\ IF lock[l] = Absent
        THEN IF l = "session" THEN Becomes(p, Off) ELSE RunnerMoves(p, "drop session")
        ELSE Becomes(p, [proc[p] EXCEPT !.at = TakeStep[l], !.tries = @ + 1])
     /\ UNCHANGED <<disk, counts, invoked, validated>>

\* release: an owner that is not this process is left alone, and ends it with an error.
Drop(p) ==
  LET l    == LockOf(proc[p].at)
      mine == lock[l].owner = {OwnerOf(p)}
  IN /\ proc[p].at \in {"drop session", "drop runner", "fail runner"}
     /\ lock' = IF mine THEN [lock EXCEPT ![l] = Absent] ELSE lock
     /\ CASE l = "session" -> Becomes(p, Off)
          [] proc[p].at = "drop runner" /\ mine -> RunnerMoves(p, "account")
          [] OTHER -> RunnerMoves(p, "drop session")
     /\ UNCHANGED <<disk, counts, invoked, validated>>
-----------------------------------------------------------------------------
\* The head of the session loop: the state decides whether there is another iteration.
Fingerprint(state) == <<head, state.milestone, milestoneWork>>

Loop(p) ==
  LET m == proc[p]
  IN /\ m.at = "loop"
     /\ IF saved.status \in Terminal \cup {"BLOCKED"} \/ m.turn = MaxInvocations
        THEN RunnerMoves(p, "drop session")
        ELSE Becomes(p, [m EXCEPT !.at = "take runner", !.tries = 0, !.turn = @ + 1,
                                  !.mark = Fingerprint(saved)])
     /\ UNCHANGED <<disk, lock, counts, invoked, validated>>

\* run_once under the lock: the state is loaded again and the commit compared.
Load(p) ==
  /\ proc[p].at = "load"
  /\ LET s == saved
     IN CASE head # s.head /\ "BLOCKED" \in Transitions[s.status] ->
               Saves(p, [s EXCEPT !.status = "BLOCKED"], "drop runner")
          [] head = s.head /\ s.status = "RUNNING" ->
               Saves(p, [s EXCEPT !.status = "RECOVERING"], "recover")
          [] head = s.head /\ s.status = "BLOCKED" ->
               Saves(p, s, "drop runner")
          [] head = s.head /\ s.status \in {"READY", "WAITING_FOR_RESET"} ->
               Saves(p, s, "verify")
          [] OTHER -> saved' = saved /\ RunnerMoves(p, "fail runner")
  /\ UNCHANGED <<owned, head, milestoneWork, lock, counts, invoked, validated>>

Recover(p) ==
  /\ proc[p].at = "recover"
  /\ Saves(p, [Memory(p) EXCEPT !.status = "READY"], "verify")
  /\ UNCHANGED <<owned, head, milestoneWork, lock, counts, invoked, validated>>

\* verify_owned_work: a clean tree, or exactly the checkpoint of this milestone.
WorkIsOwned(state) ==
  milestoneWork = Clean \/ \E o \in owned : o.base = head /\ o.milestone = state.milestone /\ o.milestoneWork = milestoneWork

VerifyRepository(p) ==
  LET s == Memory(p)
  IN /\ proc[p].at = "verify"
     /\ IF WorkIsOwned(s)
        THEN Saves(p, [s EXCEPT !.status = "RUNNING"], "invoke")
        ELSE Saves(p, [s EXCEPT !.status = "BLOCKED"], "drop runner")
     /\ UNCHANGED <<owned, head, milestoneWork, lock, counts, invoked, validated>>
-----------------------------------------------------------------------------
\* The agent works: it may edit, and it may commit what is there.
Invoke(p) ==
  /\ proc[p].at = "invoke"
  /\ invoked' = milestoneWork
  /\ \/ UNCHANGED <<milestoneWork, head, edits>>
     \/ /\ edits < MaxEdits /\ edits' = edits + 1
        /\ milestoneWork' = [by |-> milestoneWork.by \cup {"agent"}, version |-> edits + 1]
        /\ UNCHANGED head
     \/ /\ edits < MaxEdits /\ edits' = edits + 1
        /\ head' = head + 1 /\ milestoneWork' = Clean
  /\ RunnerMoves(p, "report")
  /\ UNCHANGED <<saved, owned, lock, starts, crashes, foreign, validated>>

Results == {"MILESTONE_COMPLETE", "CONTINUE", "USAGE_LIMIT", "HUMAN_GATE", "BLOCKED", "RESUMABLE"}

\* Its result: completion is validated, an unrecoverable blocker stops at once, everything
\* else saves a checkpoint first.
Report(p, result) ==
  LET s == Memory(p)
  IN /\ proc[p].at = "report"
     /\ saved' = CASE result = "MILESTONE_COMPLETE" -> [s EXCEPT !.status = "VALIDATING"]
                   [] result = "BLOCKED" -> [s EXCEPT !.status = "BLOCKED"]
                   [] OTHER -> s
     /\ owned' = IF result \in {"MILESTONE_COMPLETE", "BLOCKED"} THEN owned ELSE Checkpoint(s)
     /\ Becomes(p, [proc[p] EXCEPT !.state = {saved'}, !.result = result,
          !.at = CASE result = "MILESTONE_COMPLETE" -> "validate"
                   [] result = "BLOCKED" -> "drop runner" [] OTHER -> "settle"])
     /\ UNCHANGED <<head, milestoneWork, lock, counts, invoked, validated>>

\* The transition after a checkpoint.
Settle(p) ==
  LET s      == Memory(p)
      status == CASE proc[p].result = "USAGE_LIMIT" -> "WAITING_FOR_RESET"
                  [] proc[p].result = "HUMAN_GATE" -> "HUMAN_GATE" [] OTHER -> "READY"
  IN /\ proc[p].at = "settle"
     /\ Saves(p, [s EXCEPT !.status = status], "drop runner")
     /\ UNCHANGED <<owned, head, milestoneWork, lock, counts, invoked, validated>>

\* Mutant: the result of the validation is only reported.
Validate_Reported(p) ==
  LET s == Memory(p)
  IN /\ proc[p].at = "validate"
     /\ owned' = {} /\ RunnerMoves(p, "record")
     /\ \/ UNCHANGED validated
        \/ validated' = validated \cup {s.milestone}
     /\ UNCHANGED <<saved, head, milestoneWork, lock, counts, invoked>>

\* The validation fails: a checkpoint, and back to READY.  It passes: the checkpoint is removed.
Validate(p) ==
  LET s == Memory(p)
  IN /\ proc[p].at = "validate"
     /\ \/ owned' = Checkpoint(s) /\ RunnerMoves(p, "settle") /\ UNCHANGED validated
        \/ owned' = {} /\ RunnerMoves(p, "record") /\ validated' = validated \cup {s.milestone}
     /\ UNCHANGED <<saved, head, milestoneWork, lock, counts, invoked>>

\* The commit is recorded, then the next milestone, then the status.
RecordHead(p) ==
  /\ proc[p].at = "record"
  /\ Saves(p, [Memory(p) EXCEPT !.head = head],
           IF Memory(p).milestone \in 1..LastMilestone THEN "advance" ELSE "finish")
  /\ UNCHANGED <<owned, head, milestoneWork, lock, counts, invoked, validated>>

Advance(p) ==
  /\ proc[p].at = "advance"
  /\ Saves(p, [Memory(p) EXCEPT !.milestone = @ + 1], "finish")
  /\ UNCHANGED <<owned, head, milestoneWork, lock, counts, invoked, validated>>

Finish(p) ==
  LET s      == Memory(p)
      status == IF s.milestone = 0 THEN "COMPLETE"
                ELSE IF s.milestone > LastMilestone THEN "HUMAN_GATE" ELSE "READY"
  IN /\ proc[p].at = "finish"
     /\ Saves(p, [s EXCEPT !.status = status], "drop runner")
     /\ UNCHANGED <<owned, head, milestoneWork, lock, counts, invoked, validated>>

\* The tail of the session loop writes the state run_once returned and decides to go on.
Account(p) ==
  LET m    == proc[p]
      s    == Memory(p)
      idle == IF Fingerprint(s) # m.mark THEN 0 ELSE m.idle + 1
      stop == s.status # "READY"
      over == ~stop /\ idle >= MaxIdle
      next == IF over THEN [s EXCEPT !.status = "BLOCKED"] ELSE s
  IN /\ m.at = "account"
     /\ saved' = next
     /\ Becomes(p, [m EXCEPT !.idle = idle, !.state = {next},
          !.at = IF stop \/ over \/ m.result \in {"BLOCKED", "RESUMABLE"}
                 THEN "drop session" ELSE "loop"])
     /\ UNCHANGED <<owned, head, milestoneWork, lock, counts, invoked, validated>>

\* The process ends: killed, at the task's time limit, or at a restart of the machine.
RunnerCrash(p) ==
  /\ proc[p].at # "off" /\ crashes < MaxCrashes
  /\ crashes' = crashes + 1
  /\ Becomes(p, Off)
  /\ UNCHANGED <<disk, lock, starts, edits, foreign, invoked, validated>>

\* Somebody else edits or commits while nothing runs.
Foreign ==
  /\ \A p \in Runners : proc[p].at = "off"
  /\ foreign < MaxForeign /\ foreign' = foreign + 1
  /\ \/ milestoneWork' = [by |-> milestoneWork.by \cup {"somebody"}, version |-> 100 + foreign] /\ UNCHANGED head
     \/ milestoneWork' = Clean /\ head' = head + 1
  /\ UNCHANGED <<saved, owned, lock, proc, starts, crashes, edits, invoked, validated>>
-----------------------------------------------------------------------------
RunnerStep(p) ==
  \/ Take(p) \/ Own(p) \/ Steal(p) \/ Drop(p)
  \/ Loop(p) \/ Load(p) \/ Recover(p) \/ VerifyRepository(p) \/ Invoke(p)
  \/ \E r \in Results : Report(p, r)
  \/ Settle(p) \/ Validate(p) \/ RecordHead(p) \/ Advance(p) \/ Finish(p) \/ Account(p)

DevNext == Foreign \/ \E p \in Runners : Wake(p) \/ RunnerCrash(p) \/ RunnerStep(p)
DevSpec == DevInit /\ [][DevNext]_runnerVars
-----------------------------------------------------------------------------
(* The work tree the agent is given never holds the changes of somebody    *)
(* else, whatever crashed in between (verify_owned_work).                  *)
ForeignNeverAdopted == "somebody" \notin invoked.by

(* The milestone is advanced, or declared complete, only past milestones   *)
(* whose validation has passed, and never by more than one.                *)
ClaimsValidated ==
  [][/\ saved'.milestone # saved.milestone =>
          saved'.milestone = saved.milestone + 1 /\ saved.milestone \in validated
     /\ saved'.status = "COMPLETE" => saved'.milestone \in validated]_runnerVars

(* Live ownership rejects overlap: at most one process works under the     *)
(* runner lock.                                                            *)
Working(p) == proc[p].at \in {"load", "recover", "verify", "invoke", "report", "settle", "validate",
                              "record", "advance", "finish"}
OneRunner == \A p, q \in Runners : Working(p) /\ Working(q) => p = q

(* A wake after a crash resumes: while nobody else touched the repository, *)
(* no later session is refused for the state the crash left.               *)
CrashResumes == \A p \in Runners : foreign = 0 => proc[p].at # "fail runner"
=============================================================================
