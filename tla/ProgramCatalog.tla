--------------------------- MODULE ProgramCatalog --------------------------
(***************************************************************************)
(* The catalog of programs, one policy file and one capture file for each, *)
(* and the commands that work on them: the handlers of the intake server,  *)
(* the review and selection commands and the program preflight.  Every     *)
(* command loads whole files, changes them in memory and writes them back; *)
(* nothing is locked, and a process may end between two writes.            *)
(*                                                                         *)
(* A program is identified with its detail page.  A capture holds the      *)
(* address and the lines of the captured page, its operational signals and *)
(* the time it was taken.                                                  *)
(***************************************************************************)
EXTENDS ProgramIntake

CONSTANTS
  CatalogWorkers,     \* command lines and server threads
  Programs,    \* what the listing pages can list
  Listing,     \* the address of a listing page
  Pages,       \* the line sequences a detail page may show
  Rates, Kinds, Values,  \* what an operator may enter
  Signals,     \* the sets of status signals a detail page may show
  FreshFor,    \* --freshness-seconds, in clock units
  MaxCatalogTime, MaxCommands, MaxIssues

ASSUME CatalogAssumption ==
  /\ Listing \notin Programs /\ Pages # {} /\ Rates \subseteq Nat \ {0}
  /\ \A lines \in Pages :
       /\ lines \in Seq(Range(lines))
       /\ \A line \in Range(lines) : line.issues \subseteq Range(IssueOrder)
  /\ FreshFor \in Nat /\ MaxCatalogTime \in Nat /\ MaxCommands \in Nat /\ MaxIssues \in Nat

VARIABLES
  catalog,   \* program-catalog.yaml: the entry of each program discovered
  policy,    \* programs/<id>.yaml: none or one program
  captures,  \* program-captures/<id>.json: none or one capture
  latest,    \* browser-capture.json: none or one capture, with its modification stamp
  worker,    \* where each command is, and its memory
  reports,   \* the preflight reports, in order
  reviewed,  \* the issues an operator has reviewed: <<program, code, text>>
  reviews,   \* the number of reviews of each program
  catalogClock, commands

catVars == <<catalog, policy, captures, latest, worker, reports, reviewed, reviews, catalogClock,
             commands>>
files == <<catalog, policy, captures, latest>>
history == <<reports, reviewed, reviews>>

NoLines == <<>>  \* a listing page: no policy text
Entry(sync, path, capture) == [sync |-> sync, path |-> path, capture |-> capture, active |-> FALSE]
Idle == [at |-> "idle", ws |-> <<>>, id |-> Listing, program |-> {}, previous |-> {}, capture |-> {},
         seen |-> 0, live |-> FALSE]

Shot(url, lines, signals) == [url |-> url, lines |-> lines, signals |-> signals, taken |-> catalogClock]
Stamped(shot) == [shot |-> shot, stamp |-> IF latest = {} THEN 1
                                           ELSE 1 + CHOOSE s \in {l.stamp : l \in latest} : TRUE]
Only(S) == CHOOSE x \in S : TRUE
CatalogStamp(S) == IF S = {} THEN 0 ELSE Only(S).stamp

CatInit ==
  /\ catalog = <<>>
  /\ policy = [p \in Programs |-> {}]
  /\ captures = [p \in Programs |-> {}]
  /\ latest = {}
  /\ worker = [w \in CatalogWorkers |-> Idle]
  /\ reports = <<>>
  /\ reviewed = {} /\ reviews = [p \in Programs |-> 0]
  /\ catalogClock = 0 /\ commands = 0

Starts(w) ==
  /\ worker[w].at = "idle" /\ commands < MaxCommands
  /\ commands' = commands + 1
Goes(w, memory) == worker' = [worker EXCEPT ![w] = memory]
-----------------------------------------------------------------------------
\* POST /v1/browser-capture: the latest capture is replaced.
CaptureLatest(w, shot) ==
  /\ Starts(w)
  /\ latest' = {Stamped(shot)}
  /\ UNCHANGED <<catalog, policy, captures, worker, history, catalogClock>>

\* merge_discovery: entries of listed programs are kept, the others stay.
Merge(ws, listed) ==
  [p \in DOMAIN ws \cup listed |->
     IF p \in DOMAIN ws THEN ws[p] ELSE Entry("discovered", FALSE, FALSE)]

\* POST /v1/discover-programs: write the capture, load the catalog and merge.
BeginDiscover(w, listed) ==
  /\ Starts(w)
  /\ latest' = {Stamped(Shot(Listing, NoLines, {}))}
  /\ Goes(w, [Idle EXCEPT !.at = "save", !.ws = Merge(catalog, listed)])
  /\ UNCHANGED <<catalog, policy, captures, history, catalogClock>>

\* select-programs: failed programs cannot be activated; every other entry is deactivated.
BeginSelect(w, chosen) ==
  /\ Starts(w)
  /\ chosen \subseteq {p \in DOMAIN catalog : catalog[p].sync # "failed"}
  /\ Goes(w, [Idle EXCEPT !.at = "save",
       !.ws = [p \in DOMAIN catalog |-> [catalog[p] EXCEPT !.active = p \in chosen]]])
  /\ UNCHANGED <<files, history, catalogClock>>

\* save_workspace: the whole catalog is replaced by what the command holds.
SaveWorkspace(w) ==
  /\ worker[w].at = "save"
  /\ catalog' = worker[w].ws
  /\ Goes(w, IF worker[w].live THEN [worker[w] EXCEPT !.at = "evaluate"] ELSE Idle)
  /\ UNCHANGED <<policy, captures, latest, history, catalogClock, commands>>
-----------------------------------------------------------------------------
\* sync_program_capture, entered with the catalog just loaded in ws.
Syncing(memory, ws, id, shot) ==
  IF shot.lines = NoLines
  THEN [memory EXCEPT !.at = "save", !.ws = [ws EXCEPT ![id].sync = "failed"], !.live = FALSE]
  ELSE [memory EXCEPT !.at = "capture", !.ws = ws, !.id = id, !.capture = {shot}]

\* POST /v1/program-detail: the program must have been discovered; the address of the
\* submitted capture is not compared with the program's.
BeginDetail(w, id, shot) ==
  /\ Starts(w)
  /\ id \in DOMAIN catalog
  /\ Goes(w, Syncing(Idle, catalog, id, shot))
  /\ UNCHANGED <<files, history, catalogClock>>

\* write_capture, then the policy is imported and the policy file, if any, is read.
WriteCapture(w) ==
  LET m       == worker[w]
      current == ImportText(Only(m.capture).url, Only(m.capture).lines)
      program == IF policy[m.id] = {} THEN current
                 ELSE CarryForward(Only(policy[m.id]), current)
      entry   == [m.ws[m.id] EXCEPT !.path = TRUE, !.capture = TRUE,
                                    !.sync = IF Ready(program) THEN "ready" ELSE "needs_review"]
  IN /\ m.at = "capture"
     /\ captures' = [captures EXCEPT ![m.id] = m.capture]
     /\ Goes(w, [m EXCEPT !.at = "dump", !.capture = {}, !.program = {program}, !.ws = [@ EXCEPT ![m.id] = entry]])
     /\ UNCHANGED <<catalog, policy, latest, history, catalogClock, commands>>

\* dump_yaml: the policy file is replaced.
DumpProgram(w) ==
  /\ worker[w].at = "dump"
  /\ policy' = [policy EXCEPT ![worker[w].id] = worker[w].program]
  /\ Goes(w, [worker[w] EXCEPT !.at = "save", !.program = {}])
  /\ UNCHANGED <<catalog, captures, latest, history, catalogClock, commands>>

\* review-program: the catalog and the policy file are loaded and the issues resolved: the
\* rate issues if a rate is given, then the issue at an index, if any, by a guardrail.
Review(w, id, rps, index, kind, value) ==
  LET loaded   == Only(policy[id])
      rated    == IF rps = NoRate THEN loaded ELSE ResolveRate(loaded, rps)
      program  == IF index = 0 THEN rated ELSE ResolveGuardrail(rated, index, kind, value)
      resolved == {loaded.issues[i] : i \in Unresolved(loaded) \ Unresolved(program)}
      sync     == IF Ready(program) THEN "ready" ELSE "needs_review"
  IN /\ Starts(w)
     /\ id \in DOMAIN catalog /\ catalog[id].path /\ policy[id] # {}
     /\ rps # NoRate \/ index # 0
     /\ rps # NoRate => RateIssues(loaded) # {}
     /\ index # 0 => CanGuard(rated, index, kind)
     /\ Goes(w, [Idle EXCEPT !.at = "dump", !.id = id, !.program = {program},
                             !.ws = [catalog EXCEPT ![id].sync = sync]])
     /\ reviewed' = reviewed \cup {<<id, i.code, i.text>> : i \in resolved}
     /\ reviews' = [reviews EXCEPT ![id] = @ + 1]
     /\ UNCHANGED <<files, reports, catalogClock>>
-----------------------------------------------------------------------------
\* refresh_program_from_browser: the policy of the last run is kept for the drift, and the
\* command waits for a capture newer than the one it found.
BeginLive(w, id) ==
  /\ Starts(w)
  /\ id \in DOMAIN catalog
  /\ catalog[id].path => policy[id] # {}
  /\ Goes(w, [Idle EXCEPT !.at = "wait", !.id = id, !.seen = CatalogStamp(latest), !.live = TRUE,
                          !.previous = IF catalog[id].path THEN policy[id] ELSE {}])
  /\ UNCHANGED <<files, history, catalogClock>>

\* One turn of the waiting loop that finds a newer capture.
Poll(w) ==
  LET m    == worker[w]
      shot == Only(latest).shot
  IN /\ m.at = "wait" /\ CatalogStamp(latest) > m.seen
     /\ IF shot.url = m.id
        THEN Goes(w, IF m.id \in DOMAIN catalog THEN Syncing(m, catalog, m.id, shot) ELSE Idle)
        ELSE Goes(w, [m EXCEPT !.at = "restat"])
     /\ UNCHANGED <<files, history, catalogClock, commands>>

\* The stamp is read again after a page that does not match.
Restat(w) ==
  /\ worker[w].at = "restat"
  /\ Goes(w, [worker[w] EXCEPT !.at = "wait", !.seen = CatalogStamp(latest)])
  /\ UNCHANGED <<files, history, catalogClock, commands>>

\* --mode cached: the policy on file is its own previous policy.
BeginCached(w, id) ==
  /\ Starts(w)
  /\ id \in DOMAIN catalog /\ catalog[id].path /\ catalog[id].capture /\ policy[id] # {}
  /\ Goes(w, [Idle EXCEPT !.at = "evaluate", !.id = id, !.previous = policy[id]])
  /\ UNCHANGED <<files, history, catalogClock>>

\* evaluate_program_preflight, first half: the catalog and the policy file are read.
ReadPolicy(w) ==
  LET m == worker[w]
  IN /\ m.at = "evaluate"
     /\ Goes(w, IF m.id \in DOMAIN catalog /\ catalog[m.id].path /\ policy[m.id] # {}
                THEN [m EXCEPT !.at = "judge", !.program = policy[m.id]] ELSE Idle)
     /\ UNCHANGED <<files, history, catalogClock, commands>>

\* _capture_status on BugHunt: an offline signal wins, then an explicit online one; an
\* enabled submission control of a published program stands for online.
CaptureStatus(shot) ==
  IF "offline" \in shot.signals THEN "offline"
  ELSE IF "online" \in shot.signals \/ {"submission_control", "published_marker"} \subseteq shot.signals
       THEN "online" ELSE "unknown"

\* evaluate_preflight_gate
Eligible(program, shot, drift, ready) ==
  /\ catalogClock <= shot.taken + FreshFor
  /\ Ready(program) /\ Compiles(program, NoRate)
  /\ drift # "security_relevant"
  /\ Engagement(program, NoRate).online => CaptureStatus(shot) = "online"
  /\ ready

\* Second half: the capture file is read, its address compared, and the report written.
\* ready is the full-pentest readiness of the host.
Judge(w, ready) ==
  LET m       == worker[w]
      program == Only(m.program)
      shot    == Only(captures[m.id])
      drift   == Drift(m.previous, program)
      report  == [id |-> m.id, program |-> program, shot |-> shot, drift |-> drift,
                  eligible |-> Eligible(program, shot, drift, ready), reviews |-> reviews[m.id],
                  live |-> m.live]
  IN /\ m.at = "judge"
     /\ reports' = IF captures[m.id] # {} /\ shot.url = m.id THEN Append(reports, report)
                   ELSE reports
     /\ Goes(w, Idle)
     /\ UNCHANGED <<files, reviewed, reviews, catalogClock, commands>>

\* The wait times out, or the process ends; what it wrote stays.
Abandon(w) ==
  /\ worker[w].at # "idle"
  /\ Goes(w, Idle)
  /\ UNCHANGED <<files, history, catalogClock, commands>>

CatalogTick == catalogClock < MaxCatalogTime /\ catalogClock' = catalogClock + 1 /\ UNCHANGED <<files, worker, history, commands>>

-----------------------------------------------------------------------------
Operator(w) ==
  \/ \E u \in Programs \cup {Listing}, lines \in Pages \cup {NoLines}, s \in Signals :
       (u = Listing <=> lines = NoLines) /\ CaptureLatest(w, Shot(u, lines, s))
  \/ \E listed \in SUBSET Programs \ {{}} : BeginDiscover(w, listed)
  \/ \E chosen \in SUBSET Programs : BeginSelect(w, chosen)
  \/ \E id \in Programs, u \in Programs, lines \in Pages \cup {NoLines}, s \in Signals :
       BeginDetail(w, id, Shot(u, lines, s))
  \/ \E id \in Programs, rps \in Rates \cup {NoRate}, i \in 0..MaxIssues, k \in Kinds, v \in Values :
       Review(w, id, rps, i, k, v)
  \/ \E id \in Programs : BeginLive(w, id) \/ BeginCached(w, id)

Proceed(w) ==
  \/ WriteCapture(w) \/ DumpProgram(w) \/ SaveWorkspace(w)
  \/ Poll(w) \/ Restat(w) \/ ReadPolicy(w)
  \/ \E ready \in BOOLEAN : Judge(w, ready)

CatNext == CatalogTick \/ \E w \in CatalogWorkers : Operator(w) \/ Proceed(w) \/ Abandon(w)

CatSpec == CatInit /\ [][CatNext]_catVars
-----------------------------------------------------------------------------
(* A report that finds a program eligible judged a text whose every issue  *)
(* an operator had reviewed, on this or on an earlier capture of the same  *)
(* program, whatever captures, reviews and preflights interleave           *)
(* (_carry_forward_matching_reviews, sync_program_capture).                *)
EligibleReviewed ==
  \A n \in DOMAIN reports : reports[n].eligible =>
    \A l \in Range(reports[n].program.source) : \A c \in l.issues :
      <<reports[n].id, c, l.text>> \in reviewed

(* A reviewed rate limit is enforced: the policy of every file whose       *)
(* qualitative rate issue is resolved carries the rate the operator chose. *)
ReviewedRateKept ==
  \A p \in Programs : \A program \in policy[p] :
    (\E i \in DOMAIN program.issues :
       program.issues[i].code = "qualitative_rate_limit" /\ program.issues[i].resolution # {})
      => program.rate # NoRate

(* Neither a missing review nor a lost one lets a program through.         *)
ReviewsHold == EligibleReviewed /\ ReviewedRateKept

(* A reviewed exclusion is enforced: the policy of every file carries, for *)
(* each resolved exclusion issue, a guardrail with the kind and value the  *)
(* operator gave, which compile_program copies into the engagement.        *)
GuardrailKept ==
  \A p \in Programs : \A program \in policy[p] : \A i \in DOMAIN program.issues :
    LET issue == program.issues[i]
    IN GuardrailKinds(issue.code) # {} =>
         \A guards \in issue.resolution : \E r \in program.exclusions : r.guards = guards

(* A policy that a live preflight reports as changed in a security-        *)
(* relevant way is not found eligible before somebody reviews the program. *)
DriftReviewed ==
  \A m, n \in DOMAIN reports :
    (/\ m < n /\ reports[m].live /\ reports[m].id = reports[n].id
     /\ reports[m].drift = "security_relevant" /\ reports[n].eligible
     /\ Fingerprint(reports[m].program) = Fingerprint(reports[n].program))
      => reports[n].reviews > reports[m].reviews

(* A report that finds a program eligible judged the policy of the         *)
(* program's own detail page.                                              *)
EligibleBound ==
  \A n \in DOMAIN reports : reports[n].eligible => reports[n].program.url = reports[n].id
=============================================================================
