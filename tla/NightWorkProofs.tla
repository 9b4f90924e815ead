-------------------------- MODULE NightWorkProofs --------------------------
(***************************************************************************)
(* Promises of the night's work for every value of the constants: an       *)
(* observation accounts for each request it sent, whatever target and      *)
(* transport do; the driver launches no work twice, in whatever step it    *)
(* dies, and within the night's limits; processes that observe next to     *)
(* each other keep apart in the files they share; and no program passes    *)
(* the preflight without the reviews of its policy.                        *)
(***************************************************************************)
EXTENDS NightScheduler, FieldObservation, WorkerObservation, ProgramCatalog, SequenceTheorems,
        FiniteSetTheorems, WellFoundedInduction, TLAPS

Urls == UNION {DOMAIN c.site : c \in Cases}
Rows == [forwarding : Nat, responses : Nat, failed : Nat, blocked : Nat]
Open == stage \in {"inspect", "send", "await", "persist"}

\* The ledger counts what left, and has a request open while one is forwarded.
Ledgered ==
  /\ fieldLedger \in Rows /\ reached = ForwardedIn(fieldLedger)
  /\ flight \in {"none", "admitted", "forwarding"}
  /\ stage # "closed" => fieldLedger.forwarding = IF flight = "forwarding" THEN 1 ELSE 0
  /\ flight # "none" => stage \in {"await", "remove"}

\* A request awaited is in flight or answered.
Answered ==
  /\ stage = "await" => (flight = "none" <=> reply # NoReply)
  /\ stage # "await" => reply = NoReply
  /\ reply.to # Nowhere => reply.from = "target"

\* Each hop behind the current one left a response in the chain.
Hops ==
  /\ case \in Cases /\ hop.index \in Nat /\ hop.index <= case.redirects
  /\ hop.url \in DOMAIN case.site /\ chain \in Seq(Urls) /\ Len(chain) <= hop.index + 1
  /\ stage \in {"inspect", "send", "await"} => Len(chain) = hop.index
  /\ Open => fieldLedger.responses = Len(chain) + IF reply.from = "target" THEN 1 ELSE 0

\* A verdict lacks the one request that was admitted when its transport failed, if that was
\* forwarded since; nothing was in flight at any other verdict.
Late(rows) == reached = ForwardedIn(rows) + 1 /\ flight # "admitted"
Concluded ==
  /\ Open => fieldVerdict = NoVerdict
  /\ ~Open => /\ fieldVerdict.rows \in Rows
              /\ reached = ForwardedIn(fieldVerdict.rows) \/ Late(fieldVerdict.rows)
  /\ ~Open /\ fieldVerdict.status \notin {"failed", "unknown"} =>
       /\ flight = "none" /\ fieldVerdict.rows = fieldLedger
       /\ fieldVerdict.status = "completed" => Len(chain) = fieldLedger.responses
  /\ fieldVerdict.retryable => ForwardedIn(fieldVerdict.rows) = 0 /\ chain = <<>>

FieldInv == Ledgered /\ Answered /\ Hops /\ Concluded
-----------------------------------------------------------------------------
\* A run starts with nothing sent and nothing said.
LEMMA FieldStarts == FieldInit => FieldInv
BY CasesAssumption
   DEF FieldInit, FieldInv, Ledgered, Answered, Hops, Concluded, Open, Rows, NoLedger, NoReply,
       NoVerdict, ForwardedIn, Urls

\* A verdict: "completed" needs what PersistEvidence knows, "retryable" a ledger with
\* nothing that left.
LEMMA Concludes ==
  ASSUME FieldInv, Open, NEW status, NEW satisfied, NEW retryable,
         Ends(status, satisfied, retryable),
         UNCHANGED <<case, hop, reply, flight, fieldLedger, chain, reached>>,
         stage # "await" \/ reply = NoReply,
         status = "completed" => stage = "persist",
         status \notin {"failed", "unknown"} => stage \in {"inspect", "persist"},
         retryable => ForwardedIn(fieldLedger) = 0
  PROVE  FieldInv'
<1>1. stage' = "remove" /\ fieldVerdict'.status = status /\ fieldVerdict'.retryable = retryable
      /\ fieldVerdict'.rows = fieldLedger
  BY DEF Ends
<1>2. Ledgered'
  BY <1>1 DEF FieldInv, Ledgered, ForwardedIn, Open
<1>3. Answered'
  BY <1>1 DEF FieldInv, Answered, NoReply
<1>4. Hops'
  BY <1>1 DEF FieldInv, Hops, Open
<1>5. /\ stage = "persist" => fieldLedger.responses = Len(chain)
      /\ stage \in {"inspect", "persist"} => flight = "none"
  BY DEF FieldInv, Ledgered, Answered, Hops, Open, NoReply
<1>6. /\ fieldLedger \in Rows /\ reached = ForwardedIn(fieldLedger)
      /\ ForwardedIn(fieldLedger) = 0 => chain = <<>>
  <2>1. fieldLedger \in Rows /\ reached = ForwardedIn(fieldLedger)
    BY DEF FieldInv, Ledgered
  <2>2. ForwardedIn(fieldLedger) >= fieldLedger.responses /\ fieldLedger.responses \in Nat
    BY <2>1 DEF Rows, ForwardedIn
  <2>3. chain \in Seq(Urls) /\ Len(chain) <= fieldLedger.responses
    BY <2>1 DEF FieldInv, Hops, Rows
  <2> QED
    BY <2>1, <2>2, <2>3, EmptySeq
<1>7. Concluded'
  BY <1>1, <1>5, <1>6 DEF Concluded, Open, ForwardedIn, Late
<1> QED
  BY <1>2, <1>3, <1>4, <1>7 DEF FieldInv

\* SendHop: the request is admitted, or answered by the boundary.
LEMMA Sends == FieldInv /\ SendHop => FieldInv'
<1> SUFFICES ASSUME FieldInv, SendHop PROVE FieldInv'
  OBVIOUS
<1>1. /\ stage = "send" /\ stage' = "await" /\ flight = "none" /\ reply = NoReply
      /\ UNCHANGED <<case, hop, chain, fieldVerdict, reached>>
  BY DEF SendHop, FieldInv, Ledgered, Answered
<1>2. CASE flight' = "admitted" /\ UNCHANGED <<reply, fieldLedger>>
  <2>1. Ledgered'
    BY <1>1, <1>2 DEF FieldInv, Ledgered, ForwardedIn
  <2>2. Answered' /\ Hops'
    BY <1>1, <1>2 DEF FieldInv, Answered, Hops, Open, NoReply
  <2>3. Concluded'
    BY <1>1, <1>2 DEF FieldInv, Concluded, Open, NoVerdict
  <2> QED
    BY <2>1, <2>2, <2>3 DEF FieldInv
<1>3. CASE /\ reply' = [from |-> "boundary", to |-> Nowhere]
           /\ fieldLedger' = [fieldLedger EXCEPT !.blocked = @ + 1]
           /\ UNCHANGED flight
  <2>1. /\ fieldLedger' \in Rows /\ fieldLedger'.forwarding = fieldLedger.forwarding
        /\ fieldLedger'.responses = fieldLedger.responses
        /\ fieldLedger'.failed = fieldLedger.failed
    BY <1>3 DEF FieldInv, Ledgered, Rows
  <2> QED
    BY <1>1, <1>3, <2>1 DEF FieldInv, Ledgered, Answered, Hops, Concluded, Open, NoReply,
                            ForwardedIn, Nowhere, NoVerdict
<1> QED
  BY <1>2, <1>3 DEF SendHop

\* ForwardHop: what leaves is counted as it leaves.
LEMMA Forwards == FieldInv /\ ForwardHop => FieldInv'
<1> SUFFICES ASSUME FieldInv, ForwardHop PROVE FieldInv'
  OBVIOUS
<1>1. /\ flight = "admitted" /\ flight' = "forwarding" /\ stage \in {"await", "remove"}
      /\ reached' = reached + 1
      /\ UNCHANGED <<case, stage, hop, reply, chain, fieldVerdict>>
  BY DEF ForwardHop, FieldInv, Ledgered
<1>2. fieldLedger' = [fieldLedger EXCEPT !.forwarding = @ + 1] /\ fieldLedger \in Rows
  BY DEF ForwardHop, FieldInv, Ledgered
<1>3. /\ fieldLedger' \in Rows /\ fieldLedger'.forwarding = fieldLedger.forwarding + 1
      /\ fieldLedger'.responses = fieldLedger.responses
      /\ fieldLedger'.failed = fieldLedger.failed
  BY <1>2 DEF Rows
<1>4. Ledgered'
  BY <1>1, <1>2, <1>3 DEF FieldInv, Ledgered, ForwardedIn, Rows
<1>5. Answered' /\ Hops'
  BY <1>1, <1>3 DEF FieldInv, Answered, Hops, Open
<1>6. fieldVerdict'.rows = fieldVerdict.rows /\ fieldVerdict' = fieldVerdict
  BY <1>1
<1>7. Concluded'
  <2>1. CASE Open
    BY <1>1, <2>1 DEF FieldInv, Concluded, Open, NoVerdict
  <2>2. CASE ~Open
    <3>1. reached = ForwardedIn(fieldVerdict.rows) /\ fieldVerdict.rows \in Rows
      BY <1>1, <2>2 DEF FieldInv, Concluded, Late
    <3>2. fieldVerdict.status \in {"failed", "unknown"}
      BY <1>1, <2>2 DEF FieldInv, Concluded
    <3> QED
      BY <1>1, <2>2, <3>1, <3>2 DEF FieldInv, Concluded, Open, Late
  <2> QED
    BY <2>1, <2>2
<1> QED
  BY <1>4, <1>5, <1>7 DEF FieldInv

\* AnswerHop: an answer that came is a response of the ledger and of the chain to be.
LEMMA HopAnswered == FieldInv /\ AnswerHop => FieldInv'
<1> SUFFICES ASSUME FieldInv, AnswerHop PROVE FieldInv'
  OBVIOUS
<1> DEFINE page == case.site[hop.url]
<1>1. /\ flight = "forwarding" /\ flight' = "none" /\ stage \in {"await", "remove"}
      /\ fieldLedger.forwarding = 1 /\ fieldLedger \in Rows /\ reply = NoReply
      /\ UNCHANGED <<case, stage, hop, chain, fieldVerdict, reached>>
  BY DEF AnswerHop, FieldInv, Ledgered, Answered
<1>2. CASE page.kind = "down"
  <2>1. fieldLedger' = [fieldLedger EXCEPT !.forwarding = @ - 1, !.failed = @ + 1]
    BY <1>2 DEF AnswerHop
  <2>2. /\ fieldLedger' \in Rows /\ fieldLedger'.forwarding = 0
        /\ fieldLedger'.responses = fieldLedger.responses
        /\ fieldLedger'.failed = fieldLedger.failed + 1
    <3>1. fieldLedger' = [forwarding |-> fieldLedger.forwarding - 1,
                          responses |-> fieldLedger.responses,
                          failed |-> fieldLedger.failed + 1,
                          blocked |-> fieldLedger.blocked]
      BY <1>1, <2>1 DEF Rows
    <3> QED
      BY <1>1, <3>1 DEF Rows
  <2>3. /\ stage = "await" => reply' = [from |-> "boundary", to |-> Nowhere]
        /\ stage # "await" => reply' = reply
    BY <1>2 DEF AnswerHop
  <2>4. Ledgered'
    BY <1>1, <2>2 DEF FieldInv, Ledgered, ForwardedIn, Rows
  <2>5. Answered' /\ Hops'
    BY <1>1, <2>2, <2>3 DEF FieldInv, Answered, Hops, Open, NoReply, Nowhere
  <2>6. Concluded'
    BY <1>1 DEF FieldInv, Concluded, Open, Late
  <2> QED
    BY <2>4, <2>5, <2>6 DEF FieldInv
<1>3. CASE page.kind # "down"
  <2>1. fieldLedger' = [fieldLedger EXCEPT !.forwarding = @ - 1, !.responses = @ + 1]
    BY <1>3 DEF AnswerHop
  <2>2. /\ fieldLedger' \in Rows /\ fieldLedger'.forwarding = 0
        /\ fieldLedger'.responses = fieldLedger.responses + 1
        /\ fieldLedger'.failed = fieldLedger.failed
    <3>1. fieldLedger' = [forwarding |-> fieldLedger.forwarding - 1,
                          responses |-> fieldLedger.responses + 1,
                          failed |-> fieldLedger.failed,
                          blocked |-> fieldLedger.blocked]
      BY <1>1, <2>1 DEF Rows
    <3> QED
      BY <1>1, <3>1 DEF Rows
  <2>3. /\ stage = "await" => reply'.from = "target" /\ reply' # NoReply
        /\ stage # "await" => reply' = reply
    BY <1>3 DEF AnswerHop, NoReply
  <2>4. Ledgered'
    BY <1>1, <2>2 DEF FieldInv, Ledgered, ForwardedIn, Rows
  <2>5. Answered' /\ Hops'
    BY <1>1, <2>2, <2>3 DEF FieldInv, Answered, Hops, Open, NoReply, Rows
  <2>6. Concluded'
    BY <1>1 DEF FieldInv, Concluded, Open, Late
  <2> QED
    BY <2>4, <2>5, <2>6 DEF FieldInv
<1> QED
  BY <1>2, <1>3

\* ReadHop: what the target said joins the chain, and only that leads to a next hop.
LEMMA Reads == FieldInv /\ ReadHop => FieldInv'
<1> SUFFICES ASSUME FieldInv, ReadHop PROVE FieldInv'
  OBVIOUS
<1>1. /\ stage = "await" /\ flight = "none" /\ reply # NoReply /\ reply' = NoReply
      /\ UNCHANGED <<case, flight, fieldLedger, fieldVerdict, reached>>
      /\ stage' \in {"send", "persist"}
  BY DEF ReadHop, FieldInv, Answered
<1>2. /\ chain \in Seq(Urls) /\ hop.url \in Urls /\ Len(chain) = hop.index /\ hop.index \in Nat
      /\ fieldLedger.responses = Len(chain) + IF reply.from = "target" THEN 1 ELSE 0
  BY <1>1 DEF FieldInv, Hops, Open, Urls
<1>3. /\ chain' \in Seq(Urls)
      /\ Len(chain') = hop.index + IF reply.from = "target" THEN 1 ELSE 0
  <2>1. CASE reply.from = "target"
    <3>1. chain' = Append(chain, hop.url)
      BY <2>1 DEF ReadHop, Observed
    <3> QED
      BY <1>2, <2>1, <3>1
  <2>2. CASE reply.from # "target"
    BY <1>2, <2>2 DEF ReadHop, Observed
  <2> QED
    BY <2>1, <2>2
<1>4. CASE stage' = "send"
  <2>1. /\ hop.index < case.redirects /\ reply.from = "target"
        /\ reply.to \in DOMAIN case.site /\ hop' = [index |-> hop.index + 1, url |-> reply.to]
    BY <1>4 DEF ReadHop, FieldInv, Answered, SameOrigin
  <2>2. case.redirects \in Nat
    BY CasesAssumption DEF FieldInv, Hops
  <2>3. Hops'
    BY <1>1, <1>2, <1>3, <1>4, <2>1, <2>2 DEF FieldInv, Hops, Open, NoReply
  <2>4. Ledgered'
    BY <1>1, <1>4 DEF FieldInv, Ledgered, ForwardedIn
  <2>5. Answered'
    BY <1>1, <1>4 DEF Answered, NoReply
  <2>6. Concluded'
    BY <1>1, <1>4 DEF FieldInv, Concluded, Open, NoVerdict
  <2> QED
    BY <2>3, <2>4, <2>5, <2>6 DEF FieldInv
<1>5. CASE stage' = "persist"
  <2>1. hop' = hop
    BY <1>5 DEF ReadHop
  <2>2. Hops'
    BY <1>1, <1>2, <1>3, <1>5, <2>1 DEF FieldInv, Hops, Open, NoReply
  <2>4. Ledgered'
    BY <1>1, <1>5 DEF FieldInv, Ledgered, ForwardedIn
  <2>5. Answered'
    BY <1>1, <1>5 DEF Answered, NoReply
  <2>6. Concluded'
    BY <1>1, <1>5 DEF FieldInv, Concluded, Open, NoVerdict
  <2> QED
    BY <2>2, <2>4, <2>5, <2>6 DEF FieldInv
<1> QED
  BY <1>1, <1>4, <1>5

\* TransportFails: the verdict says of the requests what the ledger says then.
LEMMA Fails == FieldInv /\ TransportFails => FieldInv'
<1> SUFFICES ASSUME FieldInv, TransportFails PROVE FieldInv'
  OBVIOUS
<1> DEFINE status == IF ForwardedIn(fieldLedger) = 0 THEN "failed" ELSE "unknown"
           retryable == ForwardedIn(fieldLedger) = 0
<1>1. /\ Ends(status, FALSE, retryable) /\ stage \in {"send", "await"}
      /\ stage = "await" => reply = NoReply
      /\ UNCHANGED <<case, hop, flight, reply, fieldLedger, chain, reached>>
  BY DEF TransportFails
<1>2. status \in {"failed", "unknown"}
  OBVIOUS
<1> QED
  BY <1>1, <1>2, Concludes DEF Open

\* Every step of the observation keeps the account (field_http_observation.py).
LEMMA FieldStep == FieldInv /\ [FieldNext]_fieldVars => FieldInv'
<1> SUFFICES ASSUME FieldInv, [FieldNext]_fieldVars PROVE FieldInv'
  OBVIOUS
<1>1. ASSUME StartProxy PROVE FieldInv'
  <2>1. CASE stage' = "send" /\ UNCHANGED fieldVerdict
    BY <1>1, <2>1 DEF StartProxy, FieldInv, Ledgered, Answered, Hops, Concluded, Open
  <2>2. CASE Ends("blocked", FALSE, FALSE)
    BY <1>1, <2>2, Concludes DEF StartProxy, Open
  <2> QED
    BY <1>1, <2>1, <2>2 DEF StartProxy
<1>2. ASSUME PersistEvidence PROVE FieldInv'
  BY <1>2, Concludes DEF PersistEvidence, Open
<1>3. ASSUME RemoveProxy PROVE FieldInv'
  BY <1>3 DEF RemoveProxy, FieldInv, Ledgered, Answered, Hops, Concluded, Open, Late
<1>4. CASE UNCHANGED fieldVars
  BY <1>4 DEF fieldVars, FieldInv, Ledgered, Answered, Hops, Concluded, Open, Late
<1> QED
  BY <1>1, <1>2, <1>3, <1>4, Sends, Forwards, HopAnswered, Reads, Fails DEF FieldNext

\* Whatever the target answers, and wherever the request is when the transport fails, a run
\* accounts for each request that left but for the one in flight, one that may be retried
\* has no other behind it, and a completed one accounts for each request and each hop.
THEOREM AccountsForRequests == FieldSpec => []FieldAccounted
<1>1. FieldInv => FieldAccounted
  <2> SUFFICES ASSUME FieldInv PROVE FieldAccounted
    OBVIOUS
  <2>1. VerdictAccounted
    <3> SUFFICES ASSUME fieldVerdict.status # "open" PROVE VerdictAccounted
      BY DEF VerdictAccounted
    <3>1. ~Open
      BY DEF FieldInv, Concluded, NoVerdict
    <3>2. /\ ForwardedIn(fieldVerdict.rows) \in Nat
          /\ \/ reached = ForwardedIn(fieldVerdict.rows)
             \/ reached = ForwardedIn(fieldVerdict.rows) + 1
      BY <3>1 DEF FieldInv, Concluded, Rows, ForwardedIn, Late
    <3>3. fieldVerdict.status \notin {"failed", "unknown"} => reached = ForwardedIn(fieldVerdict.rows)
      BY <3>1 DEF FieldInv, Concluded, Ledgered
    <3>4. fieldVerdict.retryable => ForwardedIn(fieldVerdict.rows) = 0 /\ chain = <<>>
      BY DEF FieldInv, Concluded
    <3> QED
      BY <3>2, <3>3, <3>4 DEF VerdictAccounted
  <2>2. case.redirects \in Nat
    BY CasesAssumption DEF FieldInv, Hops
  <2>3. Len(chain) \in Nat /\ Len(chain) <= case.redirects + 1
    BY <2>2 DEF FieldInv, Hops
  <2>4. ChainAccounted
    <3>1. fieldVerdict.status = "completed" => ~Open
      BY DEF FieldInv, Concluded, NoVerdict
    <3> QED
      BY <2>3, <3>1 DEF FieldInv, Ledgered, Concluded, ChainAccounted
  <2> QED
    BY <2>1, <2>4 DEF FieldAccounted
<1> QED
  BY <1>1, FieldStarts, FieldStep, PTL DEF FieldSpec
-----------------------------------------------------------------------------
\* The durable results are a sequence of works that the journal knows, each once.
Journaled ==
  /\ \E S : runs \in Seq(S)
  /\ \A i \in DOMAIN runs : runs[i].item.work \in journal
  /\ LaunchedOnce

\* LaunchWork adds one result, of a work the journal did not know.
LEMMA LaunchJournaled == Journaled /\ LaunchWork => Journaled'
<1> SUFFICES ASSUME Journaled, LaunchWork PROVE Journaled'
  OBVIOUS
<1>1. CASE UNCHANGED <<journal, runs>>
  BY <1>1 DEF Journaled, LaunchedOnce
<1>2. CASE ~(UNCHANGED <<journal, runs>>)
  <2>1. /\ Chosen.work \notin journal /\ journal' = journal \cup {Chosen.work}
        /\ \E run : run.item = Chosen /\ runs' = Append(runs, run)
    BY <1>2 DEF LaunchWork
  <2>2. PICK run : run.item = Chosen /\ runs' = Append(runs, run)
    BY <2>1
  <2>3. PICK S : runs \in Seq(S)
    BY DEF Journaled
  <2> DEFINE T == S \cup {run}
  <2>4. runs \in Seq(T) /\ run \in T
    BY <2>3, SeqMonotonic
  <2> HIDE DEF T
  <2>5. /\ runs' \in Seq(T) /\ Len(runs') = Len(runs) + 1 /\ Len(runs) \in Nat
        /\ DOMAIN runs = 1..Len(runs) /\ DOMAIN runs' = 1..(Len(runs) + 1)
        /\ \A i \in 1..Len(runs) : runs'[i] = runs[i]
        /\ runs'[Len(runs) + 1] = run
    BY <2>2, <2>4
  <2>6. \A i \in DOMAIN runs' : \/ i \in DOMAIN runs /\ runs'[i].item.work \in journal
                                                     /\ runs'[i] = runs[i]
                                \/ i = Len(runs) + 1 /\ runs'[i].item.work = Chosen.work
    BY <2>2, <2>5 DEF Journaled
  <2>7. \A i \in DOMAIN runs' : runs'[i].item.work \in journal'
    BY <2>1, <2>6
  <2>8. LaunchedOnce'
    BY <2>1, <2>6 DEF Journaled, LaunchedOnce
  <2> QED
    BY <2>5, <2>7, <2>8 DEF Journaled
<1> QED
  BY <1>1, <1>2

\* Nobody else launches: results and journal survive what the driver does and dies in.
LEMMA OthersKeepResults ==
  [SchedNext]_schedVars => LaunchWork \/ UNCHANGED <<journal, runs>>
BY DEF SchedNext, DriverStep, NightOver, schedVars, Advance, Select, EndRound, LogAttempt,
       RateLimit, Complete, ReplaceLeases, Replan, ReopenDriver, Verify, DriverCrash, Dead

\* In whatever step the driver crashes, and however often, no work is launched twice.
THEOREM LaunchesOnce == SchedSpec => []LaunchedOnce
<1>1. SchedInit => Journaled
  <2> SUFFICES ASSUME SchedInit PROVE Journaled
    OBVIOUS
  <2>1. runs = <<>> /\ journal = {}
    BY DEF SchedInit
  <2>2. runs \in Seq({}) /\ DOMAIN runs = {}
    BY <2>1
  <2> QED
    BY <2>2 DEF Journaled, LaunchedOnce
<1>2. Journaled /\ [SchedNext]_schedVars => Journaled'
  <2>1. Journaled /\ UNCHANGED <<journal, runs>> => Journaled'
    BY DEF Journaled, LaunchedOnce
  <2> QED
    BY <2>1, LaunchJournaled, OthersKeepResults
<1>3. Journaled => LaunchedOnce
  BY DEF Journaled
<1> QED
  BY <1>1, <1>2, <1>3, PTL DEF SchedSpec
-----------------------------------------------------------------------------
(***************************************************************************)
(* The driver: rows, decision, outcome in hand and durable results.        *)
(***************************************************************************)
WorkIds == [program : NightPrograms, attempt : Nat]
Bindings == {None} \cup (NightPrograms \X {1, 2})
Items == [work : WorkIds, revision : Nat, lease : Bindings]
LaunchRows == [ready : BOOLEAN, revision : Nat, lease : Bindings, pending : Seq(Items),
               done : Seq(WorkIds), until : Nat, idle : Nat, exhausted : BOOLEAN, last : Nat]
Launches == [item : Items, status : {"completed", "failed", "blocked", "unknown"}, retry : Nat,
             lap : Nat, at : Nat, named : {1, 2}]
Underway == {"launch", "log", "limit", "complete"}

\* The time of the file is that of its round.
Clocked ==
  /\ phase \in Underway \cup {"advance", "leases", "replan", "select", "verify", "dead", "done"}
  /\ lap \in Nat /\ lap <= Len(Hours) /\ nightClock \in Nat
  /\ phase = "advance" => lap < Len(Hours)
  /\ phase # "advance" => lap > 0 /\ nightClock = Hours[lap]
  /\ \A l \in DOMAIN leases : leases[l] \in {"active", "revoked"}

\* A row's pending works follow those it has done, without a gap.
Queued ==
  /\ launchRow \in [NightPrograms -> LaunchRows]
  /\ \A p \in NightPrograms : \A i \in 1..Len(launchRow[p].pending) :
       launchRow[p].pending[i].work = [program |-> p, attempt |-> Len(launchRow[p].done) + i]

\* A decision holds heads of different rows; who was not dispatched yet is still eligible.
Decided ==
  phase \in Underway =>
    /\ decision \in Seq(Items)
    /\ \A i \in 1..Len(decision) :
         /\ launchRow[decision[i].work.program].pending # <<>>
         /\ decision[i] = Head(launchRow[decision[i].work.program].pending)
         /\ phase = "launch" \/ i > 1 => EligibleWork(decision[i].work.program)
    /\ \A i, j \in 1..Len(decision) :
         i # j => decision[i].work.program # decision[j].work.program

\* The outcome in hand is the last result, of the first work decided; from the limit on the
\* wait it asks for is in the row.
InHand ==
  phase \in {"log", "limit", "complete"} =>
    /\ decision # <<>> /\ runs # <<>>
    /\ launchOutcome = runs[Len(runs)] /\ launchOutcome.item = Head(decision)
    /\ launchOutcome.at = nightClock
    /\ LET r == launchRow[launchOutcome.item.work.program]
       IN /\ phase \in {"log", "limit"} => r.until <= nightClock
          /\ phase = "limit" => launchOutcome.retry # 0
          /\ phase = "complete" /\ launchOutcome.retry # 0
               => r.until >= nightClock + launchOutcome.retry

\* A row waits for every 429 of a work that left its queue; a work launched that has not
\* left it is the next one.
Waited ==
  /\ runs \in Seq(Launches)
  /\ \A i \in 1..Len(runs) :
       LET run == runs[i]
           r == launchRow[run.item.work.program]
       IN /\ run.item.work \in journal
          /\ run.lap \in 1..lap /\ run.at = Hours[run.lap]
          /\ run.item.work.attempt <= Len(r.done) + 1
          /\ run.retry # 0 /\ run.item.work.attempt <= Len(r.done)
               => r.until >= run.at + run.retry
  /\ LaunchedOnce
  /\ RateLimitedWaits
-----------------------------------------------------------------------------
\* A row as far as its schedule goes.
SameWork(p) ==
  /\ launchRow'[p].done = launchRow[p].done
  /\ launchRow'[p].until = launchRow[p].until

\* Who is eligible stays so while its row and the time stand still.
LEMMA EligibleStays ==
  ASSUME NEW p, nightClock' = nightClock, EligibleWork(p),
         launchRow'[p].ready = launchRow[p].ready, launchRow'[p].lease = launchRow[p].lease,
         launchRow'[p].pending = launchRow[p].pending, launchRow'[p].until = launchRow[p].until,
         launchRow'[p].exhausted = launchRow[p].exhausted,
         launchRow'[p].revision = launchRow[p].revision
  PROVE  EligibleWork(p)'
BY DEF EligibleWork

\* Binding works again changes none of them and not their order.
LEMMA ReplannedWorks ==
  ASSUME NEW s \in Seq(Items), NEW revision \in Nat, NEW lease \in Bindings
  PROVE  /\ Replanned(s, revision, lease) \in Seq(Items)
         /\ Len(Replanned(s, revision, lease)) = Len(s)
         /\ \A i \in 1..Len(s) : Replanned(s, revision, lease)[i].work = s[i].work
<1>0. \A i \in 1..Len(s) : s[i] \in Items
  BY ElementOfSeq
<1>1. \A i \in 1..Len(s) : s[i].work \in WorkIds
  BY <1>0 DEF Items
<1>2. \A i \in 1..Len(s) : Item(s[i].work, revision, lease) \in Items
  BY <1>1 DEF Item, Items
<1>3. Replanned(s, revision, lease) = [i \in 1..Len(s) |-> Item(s[i].work, revision, lease)]
  BY DEF Replanned
<1>4. Len(s) \in Nat
  OBVIOUS
<1>5. \A i \in 1..Len(s) : Item(s[i].work, revision, lease).work = s[i].work
  BY DEF Item
<1> QED
  BY <1>2, <1>3, <1>4, <1>5

\* The clock, the rounds and the store are what the driver makes them.
LEMMA ClockedStays ==
  ASSUME Clocked, [SchedNext]_schedVars PROVE Clocked'
<1>1. Hours \in Seq(Nat) /\ Len(Hours) \in Nat /\ \A i \in 1..Len(Hours) : Hours[i] \in Nat
  BY SchedulerAssumption
<1>2. CASE Advance
  <2>1. lap + 1 \in 1..Len(Hours) /\ Hours[lap + 1] \in Nat
    BY <1>1, <1>2 DEF Advance, Clocked
  <2> QED
    BY <1>1, <1>2, <2>1 DEF Advance, Clocked, Underway
<1>3. CASE ReplaceLeases
  <2>1. \A l \in DOMAIN leases' : leases'[l] \in {"active", "revoked"}
    BY <1>3 DEF ReplaceLeases
  <2> QED
    BY <1>3, <2>1 DEF ReplaceLeases, Clocked, file, Underway
<1>4. CASE EndRound
  BY <1>1, <1>4 DEF EndRound, Clocked, file, Underway
<1>5. CASE Select \/ Replan \/ Verify \/ DriverCrash \/ ReopenDriver
  BY <1>5 DEF Select, Replan, Verify, DriverCrash, ReopenDriver, Dead, Clocked, file, Underway
<1>6. CASE LaunchWork
  BY <1>6 DEF LaunchWork, Dead, Clocked, file, Underway
<1>7. CASE LogAttempt \/ RateLimit
  BY <1>7 DEF LogAttempt, RateLimit, Clocked, Underway
<1>8. CASE Complete
  BY <1>8 DEF Complete, Dead, Clocked, Underway
<1>9. CASE NightOver \/ UNCHANGED schedVars
  BY <1>9 DEF NightOver, schedVars, Clocked
<1> QED
  BY <1>2, <1>3, <1>4, <1>5, <1>6, <1>7, <1>8, <1>9 DEF SchedNext, DriverStep

\* What was launched waits as long as no row is scheduled differently.
LEMMA WaitedStays ==
  ASSUME Clocked, Queued, Waited, UNCHANGED <<runs, journal>>, lap' \in Nat, lap <= lap',
         \A p \in NightPrograms : SameWork(p)
  PROVE  Waited'
<1>1. runs' \in Seq(Launches) /\ LaunchedOnce' /\ RateLimitedWaits'
  BY DEF Waited, LaunchedOnce, RateLimitedWaits
<1>2. ASSUME NEW i \in 1..Len(runs')
      PROVE  /\ runs'[i].item.work \in journal'
             /\ runs'[i].lap \in 1..lap' /\ runs'[i].at = Hours[runs'[i].lap]
             /\ runs'[i].item.work.attempt
                  <= Len(launchRow'[runs'[i].item.work.program].done) + 1
             /\ runs'[i].retry # 0 /\ runs'[i].item.work.attempt
                                        <= Len(launchRow'[runs'[i].item.work.program].done)
                  => launchRow'[runs'[i].item.work.program].until
                       >= runs'[i].at + runs'[i].retry
  <2>1. i \in 1..Len(runs) /\ runs'[i] = runs[i] /\ runs \in Seq(Launches)
    BY <1>2 DEF Waited
  <2>2. runs[i] \in Launches
    BY <2>1
  <2>3. runs[i].item.work.program \in NightPrograms
    BY <2>2 DEF Launches, Items, WorkIds
  <2>4. SameWork(runs[i].item.work.program) /\ lap \in Nat
    BY <2>3 DEF Clocked
  <2>5. /\ runs[i].item.work \in journal
        /\ runs[i].lap \in 1..lap /\ runs[i].at = Hours[runs[i].lap]
        /\ runs[i].item.work.attempt <= Len(launchRow[runs[i].item.work.program].done) + 1
        /\ runs[i].retry # 0 /\ runs[i].item.work.attempt
                                  <= Len(launchRow[runs[i].item.work.program].done)
             => launchRow[runs[i].item.work.program].until >= runs[i].at + runs[i].retry
    BY <2>1 DEF Waited
  <2>6. runs[i].lap \in 1..lap'
    BY <2>4, <2>5
  <2> QED
    BY <2>1, <2>4, <2>5, <2>6 DEF SameWork
<1> QED
  BY <1>1, <1>2 DEF Waited

\* Where nothing is launched and no row changes, the driver holds no decision.
LEMMA IdleStays ==
  ASSUME Clocked, Queued, Waited, Clocked', lap <= lap', UNCHANGED <<launchRow, runs, journal>>,
         phase' \notin Underway
  PROVE  Queued' /\ Decided' /\ InHand' /\ Waited'
<1>1. Queued'
  BY DEF Queued
<1>2. Decided' /\ InHand'
  BY DEF Decided, InHand, Underway
<1>3. Waited'
  BY WaitedStays DEF Clocked, SameWork
<1> QED
  BY <1>1, <1>2, <1>3

\* The first work of a row is the one after those it has done.
LEMMA HeadIsNext ==
  ASSUME Queued, NEW p \in NightPrograms, launchRow[p].pending # <<>>
  PROVE  /\ Head(launchRow[p].pending) \in Items
         /\ Head(launchRow[p].pending).work
              = [program |-> p, attempt |-> Len(launchRow[p].done) + 1]
         /\ Len(launchRow[p].pending) > 0 /\ Len(launchRow[p].pending) \in Nat
         /\ Len(launchRow[p].done) \in Nat
         /\ launchRow[p].pending \in Seq(Items) /\ launchRow[p].done \in Seq(WorkIds)
<1>1. launchRow[p].pending \in Seq(Items) /\ launchRow[p].done \in Seq(WorkIds)
  BY DEF Queued, LaunchRows
<1>2. Len(launchRow[p].pending) > 0 /\ Len(launchRow[p].pending) \in Nat
      /\ Len(launchRow[p].done) \in Nat
  BY <1>1, EmptySeq
<1>3. Head(launchRow[p].pending) = launchRow[p].pending[1] /\ 1 \in 1..Len(launchRow[p].pending)
  BY <1>1, <1>2
<1>4. launchRow[p].pending[1] \in Items
  BY <1>1, <1>3, ElementOfSeq
<1> QED
  BY <1>1, <1>2, <1>3, <1>4 DEF Queued

\* Selecting decides upon the heads of the eligible rows, each once.
LEMMA SelectDecides ==
  ASSUME Clocked, Queued, Waited, Clocked', Select
  PROVE  Queued' /\ Decided' /\ InHand' /\ Waited'
<1> Selected \subseteq NightPrograms /\ \A p \in Selected : EligibleWork(p)
  BY DEF Selected
<1>1. \A p \in NightPrograms :
        /\ launchRow[p] \in LaunchRows /\ launchRow'[p] \in LaunchRows
        /\ launchRow'[p].pending = launchRow[p].pending /\ launchRow'[p].done = launchRow[p].done
        /\ launchRow'[p].until = launchRow[p].until /\ launchRow'[p].lease = launchRow[p].lease
        /\ launchRow'[p].ready = launchRow[p].ready
        /\ launchRow'[p].exhausted = launchRow[p].exhausted
        /\ launchRow'[p].revision = launchRow[p].revision
  <2> TAKE p \in NightPrograms
  <2>1. launchRow[p] \in LaunchRows /\ lap \in Nat
    BY DEF Queued, Clocked
  <2>2. launchRow'[p] = launchRow[p] \/ launchRow'[p] = [launchRow[p] EXCEPT !.last = lap]
    BY DEF Select, Marked
  <2> QED
    BY <2>1, <2>2 DEF LaunchRows
<1>2. launchRow' = [p \in NightPrograms |-> launchRow'[p]]
  BY DEF Select, Marked
<1>3. Queued'
  <2>1. launchRow' \in [NightPrograms -> LaunchRows]
    BY <1>1, <1>2
  <2> QED
    BY <1>1, <2>1 DEF Queued
<1>4. UNCHANGED <<nightClock, lap, runs, journal>> /\ phase' = "launch"
  BY DEF Select
<1>5. Waited'
  BY <1>1, <1>4, WaitedStays DEF SameWork, Clocked
<1>6. PICK order \in Injection(1..Cardinality(Selected), Selected) :
        decision' = [i \in DOMAIN order |-> Head(launchRow[order[i]].pending)]
  BY DEF Select
<1> DEFINE n == Cardinality(Selected)
<1>7. n \in Nat
  BY SchedulerAssumption, FS_Subset, FS_CardinalityType
<1>8. /\ order \in [1..n -> Selected] /\ DOMAIN order = 1..n
      /\ \A i, j \in 1..n : i # j => order[i] # order[j]
  BY <1>6 DEF Injection, IsInjective
<1> HIDE DEF n
<1>9. \A i \in 1..n : /\ decision'[i] = Head(launchRow[order[i]].pending)
                      /\ decision'[i] \in Items /\ decision'[i].work.program = order[i]
                      /\ order[i] \in NightPrograms /\ EligibleWork(order[i])
                      /\ launchRow[order[i]].pending # <<>>
  <2> TAKE i \in 1..n
  <2>1. order[i] \in NightPrograms /\ EligibleWork(order[i])
    BY <1>8
  <2>2. launchRow[order[i]].pending # <<>>
    BY <2>1 DEF EligibleWork
  <2>3. decision'[i] = Head(launchRow[order[i]].pending)
    BY <1>6, <1>8
  <2>4. /\ Head(launchRow[order[i]].pending) \in Items
        /\ Head(launchRow[order[i]].pending).work
             = [program |-> order[i], attempt |-> Len(launchRow[order[i]].done) + 1]
    BY <2>1, <2>2, HeadIsNext
  <2>5. decision'[i] \in Items /\ decision'[i].work.program = order[i]
    BY <2>3, <2>4
  <2> QED
    BY <2>1, <2>2, <2>3, <2>5
<1>10. decision' \in Seq(Items) /\ Len(decision') = n
  BY <1>6, <1>7, <1>8, <1>9
<1>11. \A i \in 1..n : EligibleWork(order[i])'
  <2> TAKE i \in 1..n
  <2>1. order[i] \in NightPrograms /\ EligibleWork(order[i]) /\ nightClock' = nightClock
    BY <1>4, <1>9
  <2> QED
    BY <1>1, <2>1, EligibleStays
<1>12. Decided'
  <2>1. \A i \in 1..n : /\ launchRow'[decision'[i].work.program].pending # <<>>
                         /\ decision'[i] = Head(launchRow'[decision'[i].work.program].pending)
    BY <1>1, <1>9
  <2>2. \A i \in 1..n : EligibleWork(decision[i].work.program)'
    BY <1>9, <1>11
  <2>3. \A i, j \in 1..n : i # j => decision'[i].work.program # decision'[j].work.program
    BY <1>8, <1>9
  <2> QED
    BY <1>10, <2>1, <2>2, <2>3 DEF Decided
<1>13. InHand'
  BY <1>4 DEF InHand
<1> QED
  BY <1>3, <1>5, <1>12, <1>13

\* Replanning binds the works to other revisions and leases, in their order.
LEMMA ReplanStays ==
  ASSUME Clocked, Queued, Waited, Clocked', Replan
  PROVE  Queued' /\ Decided' /\ InHand' /\ Waited'
<1>1. ASSUME NEW p \in NightPrograms
      PROVE  /\ launchRow'[p] \in LaunchRows
             /\ launchRow'[p].done = launchRow[p].done /\ launchRow'[p].until = launchRow[p].until
             /\ Len(launchRow'[p].pending) = Len(launchRow[p].pending)
             /\ \A i \in 1..Len(launchRow[p].pending) :
                  launchRow'[p].pending[i].work = launchRow[p].pending[i].work
  <2> DEFINE r == launchRow[p]
             s == launchRow'[p]
  <2>1. r \in LaunchRows
    BY DEF Queued
  <2>2. r.pending \in Seq(Items) /\ r.revision \in Nat
    BY <2>1 DEF LaunchRows
  <2>3. None \in Bindings /\ <<p, 1>> \in Bindings /\ <<p, 2>> \in Bindings
    BY DEF Bindings
  <2>4. \/ s = r
        \/ \E revision \in Nat, lease \in Bindings, ready \in BOOLEAN :
             s = [r EXCEPT !.ready = ready, !.revision = revision, !.lease = lease,
                           !.pending = Replanned(r.pending, revision, lease)]
    <3>1. /\ r.ready \in BOOLEAN
          /\ \A lease : [r EXCEPT !.ready = TRUE, !.lease = lease,
                           !.pending = Replanned(r.pending, r.revision, lease)]
                       = [r EXCEPT !.ready = TRUE, !.revision = r.revision, !.lease = lease,
                           !.pending = Replanned(r.pending, r.revision, lease)]
          /\ \A lease : [r EXCEPT !.lease = lease,
                           !.pending = Replanned(r.pending, r.revision, lease)]
                       = [r EXCEPT !.ready = r.ready, !.revision = r.revision, !.lease = lease,
                           !.pending = Replanned(r.pending, r.revision, lease)]
      BY <2>1 DEF LaunchRows
    <3> QED
      BY <2>2, <2>3, <3>1 DEF Replan
  <2> HIDE DEF r, s
  <2>5. \A revision \in Nat, lease \in Bindings :
          /\ Replanned(r.pending, revision, lease) \in Seq(Items)
          /\ Len(Replanned(r.pending, revision, lease)) = Len(r.pending)
          /\ \A i \in 1..Len(r.pending) :
               Replanned(r.pending, revision, lease)[i].work = r.pending[i].work
    BY <2>2, ReplannedWorks
  <2>6. /\ s \in LaunchRows /\ s.done = r.done /\ s.until = r.until
        /\ \/ s.pending = r.pending
           \/ \E revision \in Nat, lease \in Bindings :
                s.pending = Replanned(r.pending, revision, lease)
    <3>1. CASE s = r
      BY <2>1, <3>1
    <3>2. ASSUME NEW revision \in Nat, NEW lease \in Bindings, NEW ready \in BOOLEAN,
                 s = [r EXCEPT !.ready = ready, !.revision = revision, !.lease = lease,
                               !.pending = Replanned(r.pending, revision, lease)]
          PROVE  /\ s \in LaunchRows /\ s.done = r.done /\ s.until = r.until
                 /\ s.pending = Replanned(r.pending, revision, lease)
      <4>1. Replanned(r.pending, revision, lease) \in Seq(Items)
        BY <2>5
      <4> HIDE <2>5
      <4> QED
        BY <2>1, <3>2, <4>1 DEF LaunchRows
    <3> QED
      BY <2>4, <3>1, <3>2
  <2> QED
    BY <2>5, <2>6 DEF r, s
<1>2. launchRow' \in [NightPrograms -> LaunchRows]
  BY <1>1 DEF Replan
<1>3. Queued'
  BY <1>1, <1>2 DEF Queued
<1>4. UNCHANGED <<lap, runs, journal>> /\ phase' = "select"
  BY DEF Replan
<1>5. Waited'
  BY <1>1, <1>4, WaitedStays DEF SameWork, Clocked
<1> QED
  BY <1>3, <1>4, <1>5 DEF Decided, InHand, Underway

\* What a launch writes, if it comes to one.
LaunchedRun ==
  [item |-> Chosen, status |-> runs'[Len(runs')].status, retry |-> runs'[Len(runs')].retry,
   lap |-> lap, at |-> nightClock, named |-> NamedRevision(Chosen.work)]

\* A launch is of an unknown work that heads its row, whose program is eligible.
LEMMA LaunchIsCurrent ==
  ASSUME Clocked, Queued, Decided, Waited, LaunchWork, runs' # runs
  PROVE  LET p == Chosen.work.program
         IN /\ p \in NightPrograms /\ EligibleWork(p) /\ Chosen = Head(launchRow[p].pending)
            /\ Chosen \in Items /\ Chosen.work.attempt = Len(launchRow[p].done) + 1
            /\ Recoverable(Chosen.lease)
            /\ Chosen.work \notin journal /\ journal' = journal \cup {Chosen.work}
            /\ LaunchedRun \in Launches /\ runs' = Append(runs, LaunchedRun)
            /\ Len(runs') = Len(runs) + 1 /\ Len(runs) \in Nat
            /\ runs'[Len(runs) + 1] = LaunchedRun
            /\ \A i \in 1..Len(runs) : runs'[i] = runs[i]
<1>1. decision # <<>> /\ phase = "launch" /\ decision \in Seq(Items)
  BY DEF LaunchWork, Decided, Underway
<1>2. Chosen = decision[1] /\ 1 \in 1..Len(decision) /\ Chosen \in Items
  BY <1>1, EmptySeq, ElementOfSeq DEF Chosen
<1> DEFINE p == Chosen.work.program
<1>3. p \in NightPrograms
  BY <1>2 DEF Items, WorkIds
<1>4. /\ launchRow[p].pending # <<>> /\ Chosen = Head(launchRow[p].pending) /\ EligibleWork(p)
  BY <1>1, <1>2 DEF Decided, Underway
<1>5. Chosen.work.attempt = Len(launchRow[p].done) + 1
  <2>1. Head(launchRow[p].pending).work
          = [program |-> p, attempt |-> Len(launchRow[p].done) + 1]
    BY <1>3, <1>4, HeadIsNext
  <2> QED
    BY <1>4, <2>1
<1>6. /\ Recoverable(Chosen.lease) /\ Chosen.work \notin journal
      /\ journal' = journal \cup {Chosen.work}
      /\ \E status \in {"completed", "failed", "blocked", "unknown"},
            retry \in {0} \cup RetryAfters :
           runs' = Append(runs, [item |-> Chosen, status |-> status, retry |-> retry,
                                 lap |-> lap, at |-> nightClock, named |-> NamedRevision(Chosen.work)])
  BY DEF LaunchWork
<1>7. PICK status \in {"completed", "failed", "blocked", "unknown"},
           retry \in {0} \cup RetryAfters :
        runs' = Append(runs, [item |-> Chosen, status |-> status, retry |-> retry,
                              lap |-> lap, at |-> nightClock, named |-> NamedRevision(Chosen.work)])
  BY <1>6
<1> DEFINE run == [item |-> Chosen, status |-> status, retry |-> retry,
                   lap |-> lap, at |-> nightClock, named |-> NamedRevision(Chosen.work)]
<1>8. retry \in Nat /\ lap \in Nat /\ nightClock \in Nat
  BY SchedulerAssumption DEF Clocked
<1>9. run \in Launches
  BY <1>2, <1>8 DEF Launches, NamedRevision
<1>10. run.status = status /\ run.retry = retry
  OBVIOUS
<1>11. run = [item |-> Chosen, status |-> run.status, retry |-> run.retry,
              lap |-> lap, at |-> nightClock, named |-> NamedRevision(Chosen.work)]
  OBVIOUS
<1> HIDE DEF run
<1>12. runs \in Seq(Launches)
  BY DEF Waited
<1>13. /\ runs' = Append(runs, run) /\ Len(runs') = Len(runs) + 1 /\ Len(runs) \in Nat
       /\ runs'[Len(runs) + 1] = run /\ \A i \in 1..Len(runs) : runs'[i] = runs[i]
  <2>1. runs' = Append(runs, run)
    BY <1>7 DEF run
  <2> QED
    BY <1>9, <1>12, <2>1, AppendProperties
<1>14. run = LaunchedRun
  BY <1>11, <1>13 DEF LaunchedRun
<1> QED
  BY <1>2, <1>3, <1>4, <1>5, <1>6, <1>9, <1>13, <1>14

\* Whoever was launched before waits with the one that is launched.
LEMMA LaunchWaits ==
  ASSUME Clocked, Queued, Decided, Waited, LaunchWork, runs' # runs
  PROVE  Waited'
<1> DEFINE p == Chosen.work.program
           n == Len(runs) + 1
<1>1. /\ p \in NightPrograms /\ EligibleWork(p) /\ Chosen \in Items
      /\ Chosen.work.attempt = Len(launchRow[p].done) + 1
      /\ Chosen.work \notin journal /\ journal' = journal \cup {Chosen.work}
      /\ LaunchedRun \in Launches /\ runs' = Append(runs, LaunchedRun)
      /\ Len(runs') = n /\ Len(runs) \in Nat /\ runs'[n] = LaunchedRun
      /\ \A i \in 1..Len(runs) : runs'[i] = runs[i]
  BY LaunchIsCurrent
<1>2. /\ LaunchedRun.item = Chosen /\ LaunchedRun.lap = lap /\ LaunchedRun.at = nightClock
  BY DEF LaunchedRun
<1>3. UNCHANGED <<launchRow, lap, nightClock>>
  BY DEF LaunchWork, file
<1>4. runs \in Seq(Launches)
  BY DEF Waited
<1>5. runs' \in Seq(Launches)
  BY <1>1, <1>4, AppendProperties
<1>6. launchRow[p] \in LaunchRows /\ Len(launchRow[p].done) \in Nat
  <2>1. launchRow[p] \in LaunchRows
    BY <1>1 DEF Queued
  <2> QED
    BY <2>1 DEF LaunchRows
<1>7. lap \in 1..lap /\ lap \in Nat /\ nightClock \in Nat /\ nightClock = Hours[lap]
  BY DEF Clocked, LaunchWork
<1>8. ASSUME NEW i \in 1..Len(runs)
      PROVE  /\ runs[i].item.work \in journal /\ runs[i].item.work # Chosen.work
             /\ runs[i] \in Launches /\ runs[i].item.work.program \in NightPrograms
             /\ runs[i].lap \in 1..lap /\ runs[i].at = Hours[runs[i].lap]
             /\ runs[i].item.work.attempt
                  <= Len(launchRow[runs[i].item.work.program].done) + 1
             /\ runs[i].retry # 0 /\ runs[i].item.work.attempt
                                       <= Len(launchRow[runs[i].item.work.program].done)
                  => launchRow[runs[i].item.work.program].until >= runs[i].at + runs[i].retry
  <2>1. runs[i] \in Launches
    BY <1>4, ElementOfSeq
  <2>2. runs[i].item.work.program \in NightPrograms
    BY <2>1 DEF Launches, Items, WorkIds
  <2>3. runs[i].item.work \in journal /\ runs[i].item.work # Chosen.work
    BY <1>1 DEF Waited
  <2> QED
    BY <2>1, <2>2, <2>3 DEF Waited
<1>9. ASSUME NEW i \in 1..Len(runs), runs[i].item.work.program = p, runs[i].retry # 0
      PROVE  lap > runs[i].lap /\ nightClock >= runs[i].at + runs[i].retry
  <2>1. runs[i].item.work \in WorkIds /\ Chosen.work \in WorkIds
    BY <1>1, <1>8 DEF Launches, Items
  <2>2. runs[i].item.work.attempt # Chosen.work.attempt
    BY <1>8, <1>9, <2>1 DEF WorkIds
  <2>3. runs[i].item.work.attempt \in Nat
    BY <2>1 DEF WorkIds
  <2>4. runs[i].item.work.attempt <= Len(launchRow[p].done)
    <3>1. runs[i].item.work.attempt <= Len(launchRow[p].done) + 1
      BY <1>8, <1>9
    <3>2. runs[i].item.work.attempt # Len(launchRow[p].done) + 1
      BY <1>1, <2>2
    <3>3. Len(launchRow[p].done) \in Nat
      BY <1>6
    <3> QED
      BY <2>3, <3>1, <3>2, <3>3
  <2>5. launchRow[p].until >= runs[i].at + runs[i].retry
    BY <1>8, <1>9, <2>4
  <2>6. nightClock >= launchRow[p].until /\ launchRow[p].until \in Nat
    BY <1>1, <1>6 DEF EligibleWork, LaunchRows
  <2>7. runs[i].at \in Nat /\ runs[i].retry \in Nat /\ runs[i].retry > 0
    BY <1>8, <1>9 DEF Launches
  <2>8. nightClock >= runs[i].at + runs[i].retry /\ nightClock # runs[i].at
    BY <1>7, <2>5, <2>6, <2>7
  <2>9. lap # runs[i].lap
    BY <1>7, <1>8, <2>8
  <2> QED
    BY <1>7, <1>8, <2>8, <2>9
<1>10. LaunchedOnce'
  <2>1. Journaled
    BY <1>4 DEF Waited, Journaled
  <2> QED
    BY <2>1, LaunchJournaled DEF Journaled
<1> HIDE DEF p, n
<1>11. RateLimitedWaits'
  <2> SUFFICES ASSUME NEW i \in DOMAIN runs', NEW j \in DOMAIN runs', i < j,
                      runs'[i].retry # 0,
                      runs'[i].item.work.program = runs'[j].item.work.program
               PROVE  runs'[j].lap > runs'[i].lap
                      /\ runs'[j].at >= runs'[i].at + runs'[i].retry
    BY DEF RateLimitedWaits
  <2>1. DOMAIN runs' = 1..n /\ n = Len(runs) + 1
    BY <1>1, <1>5 DEF n
  <2>2. i \in 1..Len(runs) /\ runs'[i] = runs[i] /\ DOMAIN runs = 1..Len(runs)
    BY <1>1, <1>4, <2>1
  <2>3. CASE j \in 1..Len(runs)
    <3>1. runs'[j] = runs[j]
      BY <1>1, <2>3
    <3>2. RateLimitedWaits
      BY DEF Waited
    <3> QED
      BY <2>2, <2>3, <3>1, <3>2 DEF RateLimitedWaits
  <2>4. CASE j = n
    BY <1>1, <1>2, <1>9, <2>2, <2>4 DEF p
  <2> QED
    BY <1>1, <2>1, <2>3, <2>4
<1>12. ASSUME NEW i \in 1..Len(runs')
       PROVE  /\ runs'[i].item.work \in journal'
              /\ runs'[i].lap \in 1..lap' /\ runs'[i].at = Hours[runs'[i].lap]
              /\ runs'[i].item.work.attempt
                   <= Len(launchRow'[runs'[i].item.work.program].done) + 1
              /\ runs'[i].retry # 0 /\ runs'[i].item.work.attempt
                                         <= Len(launchRow'[runs'[i].item.work.program].done)
                   => launchRow'[runs'[i].item.work.program].until
                        >= runs'[i].at + runs'[i].retry
  <2>1. CASE i \in 1..Len(runs)
    <3>1. runs'[i] = runs[i] /\ journal \subseteq journal'
      BY <1>1, <2>1
    <3> QED
      BY <1>3, <1>8, <2>1, <3>1
  <2>2. CASE i = n
    <3>1. runs'[i].item = Chosen /\ runs'[i].lap = lap /\ runs'[i].at = nightClock
      BY <1>1, <1>2, <2>2
    <3>2. runs'[i].item.work.program = p /\ runs'[i].item.work \in journal'
          /\ runs'[i].item.work.attempt = Len(launchRow[p].done) + 1
      BY <1>1, <3>1 DEF p
    <3> QED
      BY <1>3, <1>6, <1>7, <3>1, <3>2
  <2>3. n = Len(runs) + 1 /\ Len(runs) \in Nat /\ Len(runs') = n
    BY <1>1 DEF n
  <2> QED
    BY <2>1, <2>2, <2>3
<1> QED
  BY <1>5, <1>10, <1>11, <1>12 DEF Waited

\* After a launch the driver holds its outcome, or is dead.
LEMMA LaunchStays ==
  ASSUME Clocked, Queued, Decided, Waited, Clocked', LaunchWork
  PROVE  Queued' /\ Decided' /\ InHand' /\ Waited'
<1>1. UNCHANGED <<launchRow, lap, nightClock>> /\ phase = "launch" /\ decision # <<>>
  BY DEF LaunchWork, file
<1>2. Queued'
  BY <1>1 DEF Queued
<1>3. CASE phase' = "dead"
  <2>1. Decided' /\ InHand'
    BY <1>3 DEF Decided, InHand, Underway
  <2>2. CASE runs' = runs
    <3>1. journal' = journal
      <4>1. ASSUME journal' # journal PROVE FALSE
        <5>1. \E run : runs' = Append(runs, run)
          BY <4>1 DEF LaunchWork
        <5>2. PICK run : runs' = Append(runs, run)
          BY <5>1
        <5>3. runs \in Seq(Launches) /\ Len(runs) \in Nat
          BY DEF Waited
        <5> QED
          BY <2>2, <5>2, <5>3
      <4> QED
        BY <4>1
    <3> QED
      BY <1>1, <2>1, <2>2, <3>1, <1>2, WaitedStays DEF Clocked, SameWork
  <2>3. CASE runs' # runs
    BY <1>2, <2>1, <2>3, LaunchWaits
  <2> QED
    BY <2>2, <2>3
<1>4. CASE phase' # "dead"
  <2>1. /\ phase' = "log" /\ decision' = decision /\ launchOutcome' = runs'[Len(runs')]
        /\ runs' # runs
    <3>1. \E run : /\ runs' = Append(runs, run) /\ launchOutcome' = run
                   /\ phase' = "log" /\ decision' = decision
      BY <1>4 DEF LaunchWork, Dead
    <3>2. PICK run : /\ runs' = Append(runs, run) /\ launchOutcome' = run
                     /\ phase' = "log" /\ decision' = decision
      BY <3>1
    <3>3. runs \in Seq(Launches) /\ Len(runs) \in Nat
      BY DEF Waited
    <3> QED
      BY <3>2, <3>3
  <2> DEFINE p == Chosen.work.program
  <2>2. /\ p \in NightPrograms /\ EligibleWork(p) /\ LaunchedRun \in Launches
        /\ Len(runs') = Len(runs) + 1 /\ Len(runs) \in Nat /\ runs'[Len(runs')] = LaunchedRun
    BY <2>1, LaunchIsCurrent
  <2>3. Waited'
    BY <2>1, LaunchWaits
  <2>4. launchOutcome' = LaunchedRun /\ runs' # <<>>
    <3>1. runs' \in Seq(Launches)
      BY <2>3 DEF Waited
    <3> QED
      BY <2>1, <2>2, <3>1
  <2>5. LaunchedRun.item = Chosen /\ LaunchedRun.at = nightClock
    BY DEF LaunchedRun
  <2>6. launchRow[p].until <= nightClock
    <3>1. nightClock >= launchRow[p].until
      BY <2>2 DEF EligibleWork
    <3>2. launchRow[p] \in LaunchRows /\ nightClock \in Nat
      BY <2>2 DEF Queued, Clocked
    <3>3. launchRow[p].until \in Nat
      BY <3>2 DEF LaunchRows
    <3> QED
      BY <3>1, <3>2, <3>3
  <2>7. InHand'
    BY <1>1, <2>1, <2>4, <2>5, <2>6 DEF InHand, Chosen
  <2>8. decision \in Seq(Items) /\ Len(decision) \in Nat
        /\ \A i \in 1..Len(decision) : EligibleWork(decision[i].work.program)
    BY <1>1 DEF Decided, Underway
  <2>9. ASSUME NEW i \in 1..Len(decision) PROVE EligibleWork(decision[i].work.program)'
    BY <1>1, <2>1, <2>8, EligibleStays
  <2>10. Decided'
    BY <1>1, <2>1, <2>8, <2>9 DEF Decided, Underway
  <2> QED
    BY <1>2, <2>3, <2>7, <2>10
<1> QED
  BY <1>3, <1>4

\* What the driver holds in hand: the head of its decision, launched last.
LEMMA HandIsLast ==
  ASSUME Clocked, Queued, Decided, InHand, Waited, phase \in {"log", "limit", "complete"}
  PROVE  LET p == launchOutcome.item.work.program
         IN /\ p \in NightPrograms /\ launchRow[p] \in LaunchRows
            /\ launchOutcome = runs[Len(runs)] /\ Len(runs) \in 1..Len(runs)
            /\ launchOutcome \in Launches /\ launchOutcome.at = nightClock
            /\ launchOutcome.item = decision[1] /\ 1 \in 1..Len(decision)
            /\ launchRow[p].pending # <<>> /\ launchOutcome.item = Head(launchRow[p].pending)
            /\ launchOutcome.item.work.attempt = Len(launchRow[p].done) + 1
<1> DEFINE p == launchOutcome.item.work.program
<1>1. runs \in Seq(Launches) /\ decision \in Seq(Items) /\ decision # <<>> /\ runs # <<>>
      /\ launchOutcome = runs[Len(runs)] /\ launchOutcome.item = Head(decision)
      /\ launchOutcome.at = nightClock
  BY DEF Waited, Decided, InHand, Underway
<1>2. Len(runs) \in 1..Len(runs) /\ 1 \in 1..Len(decision) /\ Head(decision) = decision[1]
  BY <1>1, EmptySeq
<1>3. launchOutcome \in Launches
  BY <1>1, <1>2, ElementOfSeq
<1>4. p \in NightPrograms
  BY <1>3 DEF Launches, Items, WorkIds
<1>5. launchRow[p].pending # <<>> /\ launchOutcome.item = Head(launchRow[p].pending)
  BY <1>1, <1>2 DEF Decided, Underway
<1>6. Head(launchRow[p].pending).work = [program |-> p, attempt |-> Len(launchRow[p].done) + 1]
  BY <1>4, <1>5, HeadIsNext
<1>7. launchOutcome.item.work.attempt = Len(launchRow[p].done) + 1
  BY <1>5, <1>6
<1>8. launchRow[p] \in LaunchRows
  BY <1>4 DEF Queued
<1> QED
  BY <1>1, <1>2, <1>3, <1>4, <1>5, <1>7, <1>8

\* Logging an outcome changes nothing but the events.
LEMMA LogStays ==
  ASSUME Clocked, Queued, Decided, InHand, Waited, Clocked', LogAttempt
  PROVE  Queued' /\ Decided' /\ InHand' /\ Waited'
<1>1. UNCHANGED <<launchRow, lap, nightClock, runs, journal, decision, launchOutcome>>
      /\ phase = "log" /\ phase' = IF launchOutcome.retry = 0 THEN "complete" ELSE "limit"
  BY DEF LogAttempt
<1>2. Queued'
  BY <1>1 DEF Queued
<1>3. Waited'
  BY <1>1, WaitedStays DEF SameWork, Clocked
<1>4. Decided'
  BY <1>1 DEF Decided, EligibleWork, Underway
<1>5. InHand'
  BY <1>1 DEF InHand
<1> QED
  BY <1>2, <1>3, <1>4, <1>5

\* A 429 lets its program wait longer, and nobody else.
LEMMA LimitStays ==
  ASSUME Clocked, Queued, Decided, InHand, Waited, Clocked', RateLimit
  PROVE  Queued' /\ Decided' /\ InHand' /\ Waited'
<1> DEFINE p == launchOutcome.item.work.program
           r == launchRow[p]
<1>1. UNCHANGED <<lap, nightClock, runs, journal, decision, launchOutcome>>
      /\ phase = "limit" /\ phase' = "complete"
      /\ launchRow' = [launchRow EXCEPT ![p].until = nightClock + launchOutcome.retry]
  BY DEF RateLimit, WaitsUntil
<1>2. /\ p \in NightPrograms /\ r \in LaunchRows
      /\ launchOutcome = runs[Len(runs)] /\ Len(runs) \in 1..Len(runs)
      /\ launchOutcome \in Launches /\ launchOutcome.at = nightClock
      /\ launchOutcome.item = decision[1] /\ 1 \in 1..Len(decision)
  BY <1>1, HandIsLast
<1>3. nightClock \in Nat /\ launchOutcome.retry \in Nat /\ launchOutcome.retry # 0
      /\ r.until \in Nat /\ r.until <= nightClock
  BY <1>1, <1>2 DEF InHand, Clocked, Launches, LaunchRows
<1> HIDE DEF p, r
<1>4. /\ \A q \in NightPrograms : q # p => launchRow'[q] = launchRow[q]
      /\ launchRow'[p] = [r EXCEPT !.until = nightClock + launchOutcome.retry]
      /\ launchRow' = [q \in NightPrograms |-> launchRow'[q]]
  BY <1>1, <1>2 DEF p, r, Queued
<1>5. /\ launchRow'[p] \in LaunchRows /\ launchRow'[p].done = r.done
      /\ launchRow'[p].pending = r.pending
      /\ launchRow'[p].until = nightClock + launchOutcome.retry
      /\ launchRow'[p].until >= r.until
  <2>1. nightClock + launchOutcome.retry \in Nat /\ nightClock + launchOutcome.retry >= r.until
    BY <1>3
  <2>2. /\ launchRow'[p] \in LaunchRows /\ launchRow'[p].done = r.done
        /\ launchRow'[p].pending = r.pending
        /\ launchRow'[p].until = nightClock + launchOutcome.retry
    BY <1>2, <1>4, <2>1 DEF LaunchRows
  <2> QED
    BY <2>1, <2>2
<1>6. Queued'
  <2>1. \A q \in NightPrograms : launchRow'[q] \in LaunchRows
                                 /\ launchRow'[q].pending = launchRow[q].pending
                                 /\ launchRow'[q].done = launchRow[q].done
    BY <1>4, <1>5 DEF Queued, r
  <2>2. launchRow' \in [NightPrograms -> LaunchRows]
    BY <1>4, <2>1
  <2> QED
    BY <2>1, <2>2 DEF Queued
<1>7. Decided'
  <2>1. /\ decision \in Seq(Items)
        /\ \A i \in 1..Len(decision) :
             /\ launchRow[decision[i].work.program].pending # <<>>
             /\ decision[i] = Head(launchRow[decision[i].work.program].pending)
             /\ i > 1 => EligibleWork(decision[i].work.program)
        /\ \A i, j \in 1..Len(decision) :
             i # j => decision[i].work.program # decision[j].work.program
    BY <1>1 DEF Decided, Underway
  <2>2. ASSUME NEW i \in 1..Len(decision)
        PROVE  /\ launchRow'[decision[i].work.program].pending
                    = launchRow[decision[i].work.program].pending
               /\ i > 1 => EligibleWork(decision[i].work.program)'
    <3> DEFINE q == decision[i].work.program
    <3>1. decision[i] \in Items
      BY <2>1, ElementOfSeq
    <3>2. q \in NightPrograms
      BY <3>1 DEF Items, WorkIds
    <3>3. CASE q = p
      <4>1. i = 1
        BY <1>2, <2>1, <3>3 DEF p
      <4> QED
        BY <1>5, <3>3, <4>1 DEF r
    <3>4. CASE q # p
      <4>1. launchRow'[q] = launchRow[q]
        BY <1>4, <3>2, <3>4
      <4>2. i > 1 => EligibleWork(q)
        BY <2>1
      <4> QED
        BY <1>1, <4>1, <4>2, EligibleStays
    <3> QED
      BY <3>3, <3>4
  <2> QED
    BY <1>1, <2>1, <2>2 DEF Decided, Underway
<1>8. InHand'
  <2>1. /\ decision # <<>> /\ runs # <<>>
        /\ launchOutcome = runs[Len(runs)] /\ launchOutcome.item = Head(decision)
        /\ launchOutcome.at = nightClock
    BY <1>1 DEF InHand
  <2>2. launchRow'[p].until >= nightClock + launchOutcome.retry
    BY <1>3, <1>5
  <2> QED
    BY <1>1, <2>1, <2>2 DEF InHand, p
<1>9. \A q \in NightPrograms : /\ launchRow'[q].done = launchRow[q].done
                               /\ launchRow'[q].until >= launchRow[q].until
                               /\ launchRow[q].until \in Nat /\ launchRow'[q].until \in Nat
  <2> TAKE q \in NightPrograms
  <2>1. launchRow[q] \in LaunchRows
    BY DEF Queued
  <2>2. launchRow[q].until \in Nat
    BY <2>1 DEF LaunchRows
  <2>3. CASE q = p
    BY <1>3, <1>5, <2>3 DEF r
  <2>4. CASE q # p
    <3>1. launchRow'[q] = launchRow[q]
      BY <1>4, <2>4
    <3> QED
      BY <2>2, <3>1
  <2> QED
    BY <2>3, <2>4
<1>10. ASSUME NEW i \in 1..Len(runs')
       PROVE  /\ runs'[i].item.work \in journal'
              /\ runs'[i].lap \in 1..lap' /\ runs'[i].at = Hours[runs'[i].lap]
              /\ runs'[i].item.work.attempt
                   <= Len(launchRow'[runs'[i].item.work.program].done) + 1
              /\ runs'[i].retry # 0 /\ runs'[i].item.work.attempt
                                         <= Len(launchRow'[runs'[i].item.work.program].done)
                   => launchRow'[runs'[i].item.work.program].until
                        >= runs'[i].at + runs'[i].retry
  <2>1. i \in 1..Len(runs) /\ runs'[i] = runs[i] /\ runs \in Seq(Launches)
    BY <1>1, <1>10 DEF Waited
  <2>2. runs[i] \in Launches
    BY <2>1, ElementOfSeq
  <2>3. runs[i].item.work.program \in NightPrograms /\ runs[i].at + runs[i].retry \in Nat
    BY <2>2 DEF Launches, Items, WorkIds
  <2>4. /\ runs[i].item.work \in journal
        /\ runs[i].lap \in 1..lap /\ runs[i].at = Hours[runs[i].lap]
        /\ runs[i].item.work.attempt <= Len(launchRow[runs[i].item.work.program].done) + 1
        /\ runs[i].retry # 0 /\ runs[i].item.work.attempt
                                  <= Len(launchRow[runs[i].item.work.program].done)
             => launchRow[runs[i].item.work.program].until >= runs[i].at + runs[i].retry
    BY <2>1 DEF Waited
  <2> DEFINE q == runs[i].item.work.program
  <2>5. /\ launchRow'[q].done = launchRow[q].done /\ launchRow'[q].until >= launchRow[q].until
        /\ launchRow[q].until \in Nat /\ launchRow'[q].until \in Nat
    BY <1>9, <2>3
  <2> HIDE DEF q
  <2>6. runs[i].retry # 0 /\ runs[i].item.work.attempt <= Len(launchRow'[q].done)
          => launchRow'[q].until >= runs[i].at + runs[i].retry
    BY <2>3, <2>4, <2>5 DEF q
  <2> QED
    BY <1>1, <2>1, <2>4, <2>5, <2>6 DEF q
<1>11. Waited'
  <2>1. runs' \in Seq(Launches) /\ LaunchedOnce' /\ RateLimitedWaits'
    BY <1>1 DEF Waited, LaunchedOnce, RateLimitedWaits
  <2> QED
    BY <1>10, <2>1 DEF Waited
<1> QED
  BY <1>6, <1>7, <1>8, <1>11

\* Completing takes the work in hand out of its row; its 429 is in the row by then.
LEMMA CompleteStays ==
  ASSUME Clocked, Queued, Decided, InHand, Waited, Clocked', Complete
  PROVE  Queued' /\ Decided' /\ InHand' /\ Waited'
<1> DEFINE p == launchOutcome.item.work.program
           r == launchRow[p]
<1>1. /\ p \in NightPrograms /\ r \in LaunchRows
      /\ launchOutcome = runs[Len(runs)] /\ Len(runs) \in 1..Len(runs)
      /\ launchOutcome \in Launches /\ launchOutcome.at = nightClock
      /\ launchOutcome.item = decision[1] /\ 1 \in 1..Len(decision)
      /\ r.pending # <<>> /\ launchOutcome.item = Head(r.pending)
      /\ launchOutcome.item.work.attempt = Len(r.done) + 1
  BY HandIsLast DEF Complete
<1>2. phase = "complete" /\ UNCHANGED <<lap, nightClock, runs, journal>>
  BY DEF Complete
<1>3. /\ phase' = "launch" /\ decision' = Tail(decision)
      /\ \E idle, exhausted \in BOOLEAN :
           launchRow' = [launchRow EXCEPT ![p] =
                           [r EXCEPT !.pending = Tail(r.pending),
                                     !.done = Append(r.done, launchOutcome.item.work),
                                     !.idle = IF Progressed THEN 0 ELSE r.idle + 1,
                                     !.exhausted = exhausted]]
  <2>1. r.exhausted \in BOOLEAN
    BY <1>1 DEF LaunchRows
  <2> QED
    BY <1>1, <2>1 DEF Complete
<1>4. PICK exhausted \in BOOLEAN :
        launchRow' = [launchRow EXCEPT ![p] =
                        [r EXCEPT !.pending = Tail(r.pending),
                                  !.done = Append(r.done, launchOutcome.item.work),
                                  !.idle = IF Progressed THEN 0 ELSE r.idle + 1,
                                  !.exhausted = exhausted]]
  BY <1>3
<1>5. launchOutcome.item.work \in WorkIds /\ launchOutcome.retry \in Nat
  BY <1>1 DEF Launches, Items
<1> HIDE DEF p, r
<1>6. /\ \A q \in NightPrograms : q # p => launchRow'[q] = launchRow[q]
      /\ launchRow'[p] = [r EXCEPT !.pending = Tail(r.pending),
                                   !.done = Append(r.done, launchOutcome.item.work),
                                   !.idle = IF Progressed THEN 0 ELSE r.idle + 1,
                                   !.exhausted = exhausted]
      /\ launchRow' = [q \in NightPrograms |-> launchRow'[q]]
  BY <1>1, <1>4 DEF Queued
<1>7. r.pending \in Seq(Items) /\ r.done \in Seq(WorkIds) /\ r.until \in Nat /\ r.idle \in Nat
  BY <1>1 DEF LaunchRows
<1>8. /\ Tail(r.pending) \in Seq(Items) /\ Len(r.pending) \in Nat /\ Len(r.pending) > 0
      /\ Len(Tail(r.pending)) = Len(r.pending) - 1
      /\ \A i \in 1..(Len(r.pending) - 1) : Tail(r.pending)[i] = r.pending[i + 1]
  BY <1>1, <1>7, EmptySeq
<1>9. /\ Append(r.done, launchOutcome.item.work) \in Seq(WorkIds) /\ Len(r.done) \in Nat
      /\ Len(Append(r.done, launchOutcome.item.work)) = Len(r.done) + 1
  BY <1>5, <1>7
<1>10. (IF Progressed THEN 0 ELSE r.idle + 1) \in Nat
  BY <1>7
<1>11. /\ launchRow'[p] \in LaunchRows /\ launchRow'[p].pending = Tail(r.pending)
       /\ launchRow'[p].done = Append(r.done, launchOutcome.item.work)
       /\ launchRow'[p].until = r.until
  <2> HIDE DEF Progressed
  <2> QED
    BY <1>1, <1>4, <1>6, <1>8, <1>9, <1>10 DEF LaunchRows
<1>12. Queued'
  <2>1. \A q \in NightPrograms : launchRow'[q] \in LaunchRows
    BY <1>6, <1>11 DEF Queued
  <2>2. launchRow' \in [NightPrograms -> LaunchRows]
    BY <1>6, <2>1
  <2>3. ASSUME NEW q \in NightPrograms, NEW i \in 1..Len(launchRow'[q].pending)
        PROVE  launchRow'[q].pending[i].work
                 = [program |-> q, attempt |-> Len(launchRow'[q].done) + i]
    <3>1. CASE q # p
      <4>1. launchRow'[q] = launchRow[q]
        BY <1>6, <3>1
      <4> QED
        BY <2>3, <4>1 DEF Queued
    <3>2. CASE q = p
      <4>0. Len(launchRow'[q].pending) = Len(r.pending) - 1
        BY <1>8, <1>11, <3>2
      <4>1. /\ i \in Nat /\ i \in 1..(Len(r.pending) - 1) /\ i + 1 \in 1..Len(r.pending)
        BY <1>8, <2>3, <4>0
      <4>2. launchRow'[q].pending[i] = r.pending[i + 1]
        BY <1>8, <1>11, <3>2, <4>1
      <4>3. r.pending[i + 1].work = [program |-> p, attempt |-> Len(r.done) + (i + 1)]
        BY <1>1, <4>1 DEF Queued, r
      <4>4. Len(launchRow'[q].done) + i = Len(r.done) + (i + 1)
        <5>1. Len(launchRow'[q].done) = Len(r.done) + 1
          BY <1>9, <1>11, <3>2
        <5>2. Len(r.done) \in Nat /\ i \in Nat
          BY <1>9, <4>1
        <5>4. Len(launchRow'[q].done) \in Nat
          BY <5>1, <5>2
        <5>3. \A m, n, k \in Nat : k = m + 1 => k + n = m + (n + 1)
          OBVIOUS
        <5> QED
          BY <5>1, <5>2, <5>3, <5>4
      <4> QED
        BY <3>2, <4>2, <4>3, <4>4
    <3> QED
      BY <3>1, <3>2
  <2> QED
    BY <2>2, <2>3 DEF Queued
<1>13. Decided'
  <2>1. /\ decision \in Seq(Items) /\ Len(decision) \in Nat /\ decision # <<>>
        /\ \A i \in 1..Len(decision) :
             /\ launchRow[decision[i].work.program].pending # <<>>
             /\ decision[i] = Head(launchRow[decision[i].work.program].pending)
             /\ i > 1 => EligibleWork(decision[i].work.program)
        /\ \A i, j \in 1..Len(decision) :
             i # j => decision[i].work.program # decision[j].work.program
    BY <1>1, <1>2 DEF Decided, InHand, Underway
  <2>2. /\ decision' \in Seq(Items) /\ Len(decision') = Len(decision) - 1
        /\ \A i \in 1..Len(decision') :
             i + 1 \in 1..Len(decision) /\ i + 1 > 1 /\ decision'[i] = decision[i + 1]
    BY <1>3, <2>1
  <2>3. ASSUME NEW i \in 1..Len(decision')
        PROVE  /\ launchRow'[decision[i + 1].work.program]
                    = launchRow[decision[i + 1].work.program]
               /\ EligibleWork(decision[i + 1].work.program)
    <3>1. decision[i + 1] \in Items
      BY <2>1, <2>2, ElementOfSeq
    <3>2. decision[i + 1].work.program \in NightPrograms
      BY <3>1 DEF Items, WorkIds
    <3>3. decision[i + 1].work.program # p
      <4>1. i + 1 # 1
        OBVIOUS
      <4> QED
        BY <1>1, <2>1, <2>2, <4>1 DEF p
    <3> QED
      BY <1>6, <2>1, <2>2, <3>2, <3>3
  <2>4. ASSUME NEW i \in 1..Len(decision') PROVE EligibleWork(decision[i].work.program)'
    <3>1. launchRow'[decision[i + 1].work.program] = launchRow[decision[i + 1].work.program]
          /\ EligibleWork(decision[i + 1].work.program) /\ decision'[i] = decision[i + 1]
      BY <2>2, <2>3
    <3> QED
      BY <1>2, <3>1 DEF EligibleWork
  <2>5. ASSUME NEW i \in 1..Len(decision')
        PROVE  /\ launchRow'[decision'[i].work.program].pending # <<>>
               /\ decision'[i] = Head(launchRow'[decision'[i].work.program].pending)
    <3> DEFINE q == decision[i + 1].work.program
    <3>1. decision'[i] = decision[i + 1] /\ i + 1 \in 1..Len(decision)
      BY <2>2
    <3>2. launchRow'[q] = launchRow[q]
      BY <2>3
    <3>3. launchRow[q].pending # <<>> /\ decision[i + 1] = Head(launchRow[q].pending)
      BY <2>1, <3>1
    <3> QED
      BY <3>1, <3>2, <3>3
  <2>6. \A i, j \in 1..Len(decision') :
          i # j => decision'[i].work.program # decision'[j].work.program
    <3> TAKE i, j \in 1..Len(decision')
    <3> HAVE i # j
    <3>1. i + 1 # j + 1
      OBVIOUS
    <3> QED
      BY <2>1, <2>2, <3>1
  <2> QED
    BY <1>3, <2>2, <2>4, <2>5, <2>6 DEF Decided
<1>14. InHand'
  BY <1>3 DEF InHand
<1>15. ASSUME NEW i \in 1..Len(runs')
       PROVE  /\ runs'[i].item.work \in journal'
              /\ runs'[i].lap \in 1..lap' /\ runs'[i].at = Hours[runs'[i].lap]
              /\ runs'[i].item.work.attempt
                   <= Len(launchRow'[runs'[i].item.work.program].done) + 1
              /\ runs'[i].retry # 0 /\ runs'[i].item.work.attempt
                                         <= Len(launchRow'[runs'[i].item.work.program].done)
                   => launchRow'[runs'[i].item.work.program].until
                        >= runs'[i].at + runs'[i].retry
  <2>1. i \in 1..Len(runs) /\ runs'[i] = runs[i] /\ runs \in Seq(Launches)
    BY <1>2, <1>15 DEF Waited
  <2>2. runs[i] \in Launches
    BY <2>1, ElementOfSeq
  <2>3. runs[i].item.work \in WorkIds
    BY <2>2 DEF Launches, Items
  <2>4. runs[i].item.work.program \in NightPrograms /\ runs[i].item.work.attempt \in Nat
    BY <2>3 DEF WorkIds
  <2>5. /\ runs[i].item.work \in journal
        /\ runs[i].lap \in 1..lap /\ runs[i].at = Hours[runs[i].lap]
        /\ runs[i].item.work.attempt <= Len(launchRow[runs[i].item.work.program].done) + 1
        /\ runs[i].retry # 0 /\ runs[i].item.work.attempt
                                  <= Len(launchRow[runs[i].item.work.program].done)
             => launchRow[runs[i].item.work.program].until >= runs[i].at + runs[i].retry
    BY <2>1 DEF Waited
  <2>6. CASE runs[i].item.work.program # p
    <3>1. launchRow'[runs[i].item.work.program] = launchRow[runs[i].item.work.program]
      BY <1>6, <2>4, <2>6
    <3> QED
      BY <1>2, <2>1, <2>5, <3>1
  <2>7. CASE runs[i].item.work.program = p
    <3>1. Len(launchRow'[p].done) = Len(r.done) + 1 /\ Len(r.done) \in Nat
      BY <1>9, <1>11
    <3>2. runs[i].item.work.attempt <= Len(launchRow'[p].done)
      BY <2>4, <2>5, <2>7, <3>1 DEF r
    <3>3. CASE runs[i].item.work.attempt <= Len(r.done)
      BY <1>2, <1>11, <2>1, <2>4, <2>5, <2>7, <3>1, <3>2, <3>3 DEF r
    <3>4. CASE ~(runs[i].item.work.attempt <= Len(r.done))
      <4>1. runs[i].item.work.attempt = Len(r.done) + 1
        BY <2>4, <3>1, <3>2, <3>4
      <4>2. runs[i].item.work = launchOutcome.item.work
        <5>1. /\ launchOutcome.item.work \in WorkIds
              /\ launchOutcome.item.work.attempt = Len(r.done) + 1
          BY <1>1, <1>5
        <5>2. \A x, y \in WorkIds : x.program = y.program /\ x.attempt = y.attempt => x = y
          BY DEF WorkIds
        <5> QED
          BY <2>3, <2>7, <4>1, <5>1, <5>2 DEF p
      <4>3. runs[i] = launchOutcome
        <5>1. LaunchedOnce /\ DOMAIN runs = 1..Len(runs)
          BY <2>1 DEF Waited
        <5> QED
          BY <1>1, <2>1, <4>2, <5>1 DEF LaunchedOnce
      <4>4. runs[i].retry # 0 => r.until >= runs[i].at + runs[i].retry
        BY <1>1, <1>2, <4>3 DEF InHand, r, p
      <4> QED
        BY <1>2, <1>11, <2>1, <2>4, <2>5, <2>7, <3>1, <3>2, <4>4
    <3> QED
      BY <3>3, <3>4
  <2> QED
    BY <2>6, <2>7
<1>16. Waited'
  <2>1. runs' \in Seq(Launches) /\ LaunchedOnce' /\ RateLimitedWaits'
    BY <1>2 DEF Waited, LaunchedOnce, RateLimitedWaits
  <2> QED
    BY <1>15, <2>1 DEF Waited
<1> QED
  BY <1>12, <1>13, <1>14, <1>16

\* The night's invariant: rows, decision, hand and results tell the same story.
NightInv == Clocked /\ Queued /\ Decided /\ InHand /\ Waited

LEMMA NightStarts == SchedInit => NightInv
<1> SUFFICES ASSUME SchedInit PROVE NightInv
  OBVIOUS
<1>1. Clocked
  BY SchedulerAssumption DEF SchedInit, Clocked, Underway
<1>2. \A p \in NightPrograms : Attempts[p] \in Nat /\ FirstLease(p) \in Bindings
  BY SchedulerAssumption DEF FirstLease, Bindings, None
<1>3. ASSUME NEW p \in NightPrograms
      PROVE  /\ launchRow[p] \in LaunchRows /\ launchRow[p].done = <<>>
             /\ \A i \in 1..Len(launchRow[p].pending) :
                  launchRow[p].pending[i].work = [program |-> p, attempt |-> i]
  <2> DEFINE s == [n \in 1..Attempts[p] |-> Item(Works(p)[n], 1, FirstLease(p))]
  <2>1. /\ launchRow[p] = [ready |-> p \notin DeniedPrograms \cup Offline \cup Revised,
                           revision |-> 1, lease |-> FirstLease(p), pending |-> s,
                           done |-> <<>>, until |-> 0, idle |-> 0, exhausted |-> FALSE,
                           last |-> 0]
    BY DEF SchedInit
  <2>2. \A n \in 1..Attempts[p] : /\ Works(p)[n] = [program |-> p, attempt |-> n]
                                  /\ Works(p)[n] \in WorkIds
    BY <1>2 DEF Works, WorkIds
  <2>3. \A n \in 1..Attempts[p] : s[n] \in Items /\ s[n].work = [program |-> p, attempt |-> n]
    BY <1>2, <2>2 DEF Item, Items
  <2>4. s \in Seq(Items) /\ Len(s) = Attempts[p]
    <3>1. Attempts[p] \in Nat
      BY <1>2
    <3>2. s \in [1..Attempts[p] -> Items]
      BY <2>3
    <3> QED
      BY <3>1, <3>2
  <2> HIDE DEF s
  <2>5. launchRow[p] \in LaunchRows
    <3>1. <<>> \in Seq(WorkIds)
      OBVIOUS
    <3> QED
      BY <1>2, <2>1, <2>4, <3>1 DEF LaunchRows
  <2> QED
    BY <2>1, <2>3, <2>4, <2>5
<1>4. Queued
  <2>1. launchRow \in [NightPrograms -> LaunchRows]
    BY <1>3 DEF SchedInit
  <2>2. Len(<<>>) = 0
    OBVIOUS
  <2> QED
    BY <1>3, <2>1, <2>2 DEF Queued
<1>5. Decided /\ InHand
  BY DEF SchedInit, Decided, InHand, Underway
<1>6. Waited
  <2>1. runs = <<>>
    BY DEF SchedInit
  <2>2. runs \in Seq(Launches) /\ DOMAIN runs = {} /\ 1..Len(runs) = {}
    BY <2>1
  <2> QED
    BY <2>2 DEF Waited, LaunchedOnce, RateLimitedWaits
<1> QED
  BY <1>1, <1>4, <1>5, <1>6 DEF NightInv

LEMMA NightStep == NightInv /\ [SchedNext]_schedVars => NightInv'
<1> SUFFICES ASSUME NightInv, [SchedNext]_schedVars PROVE NightInv'
  OBVIOUS
<1> USE DEF NightInv
<1>1. Clocked'
  BY ClockedStays
<1>2. CASE Advance \/ EndRound \/ ReplaceLeases \/ ReopenDriver \/ Verify \/ DriverCrash
  <2>1. /\ lap' = lap \/ lap' = lap + 1
        /\ UNCHANGED <<launchRow, runs, journal>> /\ phase' \notin Underway
    BY <1>2 DEF Advance, EndRound, ReplaceLeases, ReopenDriver, Verify, DriverCrash, Dead, file,
                Underway
  <2>2. lap <= lap'
    BY <1>1, <2>1 DEF Clocked
  <2> QED
    BY <1>1, <2>1, <2>2, IdleStays
<1>3. CASE Select
  BY <1>1, <1>3, SelectDecides
<1>4. CASE Replan
  BY <1>1, <1>4, ReplanStays
<1>5. CASE LaunchWork
  BY <1>1, <1>5, LaunchStays
<1>6. CASE LogAttempt
  BY <1>1, <1>6, LogStays
<1>7. CASE RateLimit
  BY <1>1, <1>7, LimitStays
<1>8. CASE Complete
  BY <1>1, <1>8, CompleteStays
<1>9. CASE NightOver \/ UNCHANGED schedVars
  <2>1. UNCHANGED <<nightClock, lap, launchRow, leases, journal, runs, phase, decision,
                    launchOutcome>>
    BY <1>9 DEF NightOver, schedVars
  <2>2. Queued' /\ InHand'
    BY <2>1 DEF Queued, InHand
  <2>3. Decided'
    BY <2>1 DEF Decided, EligibleWork
  <2>4. Waited'
    BY <2>1, WaitedStays DEF Clocked, SameWork
  <2> QED
    BY <1>1, <2>2, <2>3, <2>4
<1> QED
  BY <1>2, <1>3, <1>4, <1>5, <1>6, <1>7, <1>8, <1>9 DEF SchedNext, DriverStep

\* After a 429 no work of the program is launched in the same round, nor before the time the
\* target asked for, whatever the driver dies in between: the wait is in the file before the
\* work leaves its queue, and a work that was launched and never completed stays in front.
THEOREM LimitsAreKept == SchedSpec => []RateLimitedWaits
<1>1. NightInv => RateLimitedWaits
  BY DEF NightInv, Waited
<1> QED
  BY <1>1, NightStarts, NightStep, PTL DEF SchedSpec

\* Whatever was revised, renewed or revoked, every launch is of a work planned for the
\* revision and bound to the lease that are its program's at that moment, in the order of its
\* works, within the deadline and never of an exhausted program.
THEOREM LaunchesAreCurrent == SchedSpec => LaunchesCurrent
<1> DEFINE Run == runs'[Len(runs')]
           Row == launchRow[Run.item.work.program]
           Current == /\ Run.item.revision = Row.revision /\ Run.item.lease = Row.lease
                      /\ leases[Row.lease] = "active"
                      /\ Row.ready /\ ~Row.exhausted
                      /\ Run.item.work.attempt = Len(Row.done) + 1
                      /\ nightClock + Duration <= Horizon
<1>1. NightInv /\ [SchedNext]_schedVars => (runs' # runs => Current)
  <2> SUFFICES ASSUME NightInv, [SchedNext]_schedVars, runs' # runs PROVE Current
    OBVIOUS
  <2>1. LaunchWork
    BY OthersKeepResults
  <2>2. LET p == Chosen.work.program
        IN /\ p \in NightPrograms /\ EligibleWork(p) /\ Chosen = Head(launchRow[p].pending)
           /\ Chosen.work.attempt = Len(launchRow[p].done) + 1
           /\ Recoverable(Chosen.lease)
           /\ Len(runs') = Len(runs) + 1 /\ runs'[Len(runs) + 1] = LaunchedRun
    BY <2>1, LaunchIsCurrent DEF NightInv
  <2>3. Run.item = Chosen
    BY <2>2 DEF LaunchedRun
  <2>4. leases[Chosen.lease] = "active"
    BY <2>2 DEF Recoverable, NightInv, Clocked
  <2> QED
    BY <2>2, <2>3, <2>4 DEF EligibleWork
<1>2. NightInv /\ [SchedNext]_schedVars => [runs' # runs => Current]_schedVars
  BY <1>1
<1> QED
  BY <1>2, NightStarts, NightStep, PTL DEF SchedSpec, LaunchesCurrent
-----------------------------------------------------------------------------
(***************************************************************************)
(* The report: every program whose rounds the script provides is served in *)
(* each of them, and what the driver remembers is what the trace says.     *)
(***************************************************************************)
NightEvents == [event : {"attempt.finished", "http.429", "work.completed"}, work : WorkIds,
                lap : Nat, retry : Nat]
Replanning == phase \in {"leases", "replan"}
Begun == lap > 2 \/ (lap = 2 /\ ~Replanning)  \* the second round, with its leases

\* The works of a row require its revision and its lease; who is not denied is ready from its
\* first round on.
Bound ==
  /\ draining = (lap > 0 /\ Hours[lap] >= Horizon)
  /\ Replanning => lap = 2
  /\ phase \in {"verify", "done"} => lap = Len(Hours)
  /\ \A p \in NightPrograms :
       LET r == launchRow[p]
       IN /\ \A i \in 1..Len(r.pending) :
               r.pending[i].revision = r.revision /\ r.pending[i].lease = r.lease
          /\ Len(r.done) + Len(r.pending) = Attempts[p]
          /\ p \notin DeniedPrograms /\ (FirstRound(p) = 1 \/ Begun)
               => r.ready /\ r.lease # None

\* The rounds that are over: all but the one at hand.
Past == IF phase \in {"advance", "verify", "done"} THEN lap ELSE lap - 1
Enough(p, n) ==
  LET r == launchRow[p]
  IN r.exhausted \/ r.pending = <<>> \/ Len(r.done) >= RoundsFor(p, n)

\* A program that meets no 429 was served in every round that is over; in the round at hand
\* it was served or is still to be.
Served ==
  \A p \in NightPrograms \ (DeniedPrograms \cup Limited) :
    /\ launchRow[p].until = 0
    /\ Enough(p, Past)
    /\ phase \in Underway =>
         Enough(p, lap) \/ \E i \in 1..Len(decision) : decision[i].work.program = p

\* A 429 is met by those who may; results in memory are durable, of works done or in hand,
\* in their order.
Remembered ==
  /\ \A i \in 1..Len(runs) : runs[i].retry # 0 => runs[i].item.work.program \in Limited
  /\ kept \in Seq(Launches)
  /\ \A i \in 1..Len(kept) :
       /\ \E n \in 1..Len(runs) : kept[i] = runs[n]
       /\ kept[i].item.work.attempt > 0
       /\ \/ kept[i].item.work.attempt <= Len(launchRow[kept[i].item.work.program].done)
          \/ phase \in {"log", "limit", "complete"} /\ kept[i] = launchOutcome
  /\ \A i, j \in 1..Len(kept) :
       i < j /\ kept[i].item.work.program = kept[j].item.work.program
         => kept[i].item.work.attempt < kept[j].item.work.attempt

\* A work that left its queue, or is about to, is in the trace.
Announced ==
  /\ nightEvents \in Seq(NightEvents)
  /\ phase \in {"limit", "complete"} =>
       \E i \in Finished : EventWork(i) = launchOutcome.item.work
  /\ \A p \in NightPrograms : \A n \in 1..Len(launchRow[p].done) :
       \E i \in Finished : EventWork(i) = [program |-> p, attempt |-> n]

\* A report is written of a trace that was verified.
Reported == verdict = "reported" => phase = "done" /\ TraceVerified
-----------------------------------------------------------------------------
\* One round more is one launch more of who is ready in it, if it is before the deadline.
LEMMA RoundsGrow ==
  ASSUME NEW p, NEW n \in Nat
  PROVE  /\ RoundsFor(p, n) \in Nat
         /\ n > 0 => RoundsFor(p, n) = RoundsFor(p, n - 1)
                       + (IF n >= FirstRound(p) /\ Hours[n] + Duration <= Horizon THEN 1 ELSE 0)
<1> DEFINE S(k) == {m \in FirstRound(p)..k : Hours[m] + Duration <= Horizon}
<1>1. ASSUME NEW k \in Int PROVE IsFiniteSet(S(k)) /\ Cardinality(S(k)) \in Nat
  <2>1. IsFiniteSet(FirstRound(p)..k)
    BY FS_Interval DEF FirstRound
  <2> QED
    BY <2>1, FS_Subset, FS_CardinalityType
<1>2. \A k : RoundsFor(p, k) = Cardinality(S(k))
  BY DEF RoundsFor, FirstRound
<1>3. ASSUME n > 0
      PROVE  Cardinality(S(n)) = Cardinality(S(n - 1))
               + (IF n >= FirstRound(p) /\ Hours[n] + Duration <= Horizon THEN 1 ELSE 0)
  <2>1. FirstRound(p) \in Nat /\ n - 1 \in Int
    BY DEF FirstRound
  <2>2. CASE n >= FirstRound(p) /\ Hours[n] + Duration <= Horizon
    <3>1. S(n) = S(n - 1) \cup {n} /\ n \notin S(n - 1)
      BY <1>3, <2>1, <2>2
    <3> QED
      BY <1>1, <2>1, <2>2, <3>1, FS_AddElement
  <2>3. CASE ~(n >= FirstRound(p) /\ Hours[n] + Duration <= Horizon)
    <3>1. S(n) = S(n - 1)
      BY <1>3, <2>1, <2>3
    <3>2. Cardinality(S(n - 1)) \in Nat
      BY <1>1, <2>1
    <3> HIDE DEF S
    <3>3. Cardinality(S(n)) = Cardinality(S(n - 1)) + 0
      BY <3>1, <3>2
    <3> QED
      BY <2>3, <3>3
  <2> QED
    BY <2>2, <2>3
<1>4. n - 1 \in Int
  OBVIOUS
<1> HIDE DEF S
<1> QED
  BY <1>1, <1>2, <1>3, <1>4

\* A row as far as selecting and launching look at it.
SameRow(p) ==
  /\ launchRow'[p].pending = launchRow[p].pending /\ launchRow'[p].done = launchRow[p].done
  /\ launchRow'[p].ready = launchRow[p].ready /\ launchRow'[p].lease = launchRow[p].lease
  /\ launchRow'[p].revision = launchRow[p].revision
  /\ launchRow'[p].exhausted = launchRow[p].exhausted

\* Only completing and replanning change it; only a 429 lets it wait.
LEMMA RowsStay ==
  ASSUME Queued, [SchedNext]_schedVars, ~Complete, ~Replan, NEW p \in NightPrograms
  PROVE  /\ SameRow(p)
         /\ \/ launchRow'[p].until = launchRow[p].until
            \/ RateLimit /\ p = launchOutcome.item.work.program
<1>0. launchRow[p] \in LaunchRows
  BY DEF Queued
<1>1. CASE launchRow'[p] = launchRow[p]
  BY <1>1 DEF SameRow
<1>2. CASE Select
  <2>1. launchRow'[p] = launchRow[p] \/ launchRow'[p] = [launchRow[p] EXCEPT !.last = lap]
    BY <1>2 DEF Select, Marked
  <2> QED
    BY <1>0, <2>1 DEF LaunchRows, SameRow
<1>3. CASE RateLimit
  <2>1. \/ launchRow'[p] = launchRow[p]
        \/ /\ p = launchOutcome.item.work.program
           /\ launchRow'[p] = [launchRow[p] EXCEPT !.until = WaitsUntil]
    BY <1>3 DEF RateLimit, Queued
  <2> QED
    BY <1>0, <1>3, <2>1 DEF LaunchRows, SameRow
<1>4. CASE ~Select /\ ~RateLimit
  <2>1. launchRow' = launchRow
    BY <1>4 DEF SchedNext, DriverStep, NightOver, schedVars, file, Advance, EndRound, LaunchWork,
                LogAttempt, ReplaceLeases, ReopenDriver, Verify, DriverCrash
  <2> QED
    BY <1>1, <2>1
<1> QED
  BY <1>2, <1>3, <1>4

\* Completing moves the work in hand from the queue of its row to what it has done.
LEMMA CompletedRow ==
  ASSUME NightInv, Complete
  PROVE  LET p == launchOutcome.item.work.program
             r == launchRow[p]
         IN /\ p \in NightPrograms /\ launchOutcome.item.work.attempt = Len(r.done) + 1
            /\ launchOutcome.item = decision[1] /\ 1 \in 1..Len(decision)
            /\ phase' = "launch" /\ decision' = Tail(decision)
            /\ r.pending \in Seq(Items) /\ r.pending # <<>> /\ r.done \in Seq(WorkIds)
            /\ launchOutcome.item.work \in WorkIds
            /\ \A q \in NightPrograms \ {p} : launchRow'[q] = launchRow[q]
            /\ launchRow'[p].pending = Tail(r.pending)
            /\ launchRow'[p].done = Append(r.done, launchOutcome.item.work)
            /\ launchRow'[p].ready = r.ready /\ launchRow'[p].lease = r.lease
            /\ launchRow'[p].revision = r.revision /\ launchRow'[p].until = r.until
            /\ r.exhausted => launchRow'[p].exhausted
<1> DEFINE p == launchOutcome.item.work.program
           r == launchRow[p]
<1>1. /\ p \in NightPrograms /\ r \in LaunchRows
      /\ launchOutcome \in Launches
      /\ launchOutcome.item = decision[1] /\ 1 \in 1..Len(decision)
      /\ r.pending # <<>> /\ launchOutcome.item = Head(r.pending)
      /\ launchOutcome.item.work.attempt = Len(r.done) + 1
  BY HandIsLast DEF Complete, NightInv
<1>2. /\ phase' = "launch" /\ decision' = Tail(decision)
      /\ \E idle, exhausted :
           /\ launchRow' = [launchRow EXCEPT ![p] =
                              [r EXCEPT !.pending = Tail(r.pending),
                                        !.done = Append(r.done, launchOutcome.item.work),
                                        !.idle = idle, !.exhausted = exhausted]]
           /\ r.exhausted => exhausted
  BY <1>1 DEF Complete
<1>3. PICK idle, exhausted :
        /\ launchRow' = [launchRow EXCEPT ![p] =
                           [r EXCEPT !.pending = Tail(r.pending),
                                     !.done = Append(r.done, launchOutcome.item.work),
                                     !.idle = idle, !.exhausted = exhausted]]
        /\ r.exhausted => exhausted
  BY <1>2
<1>4. r.pending \in Seq(Items) /\ r.done \in Seq(WorkIds) /\ launchOutcome.item.work \in WorkIds
  BY <1>1 DEF LaunchRows, Launches, Items
<1> HIDE DEF p, r
<1>5. launchRow \in [NightPrograms -> LaunchRows]
  BY DEF NightInv, Queued
<1>6. /\ \A q \in NightPrograms \ {p} : launchRow'[q] = launchRow[q]
      /\ launchRow'[p] = [r EXCEPT !.pending = Tail(r.pending),
                                   !.done = Append(r.done, launchOutcome.item.work),
                                   !.idle = idle, !.exhausted = exhausted]
  BY <1>1, <1>3, <1>5
<1>7. /\ launchRow'[p].pending = Tail(r.pending)
      /\ launchRow'[p].done = Append(r.done, launchOutcome.item.work)
      /\ launchRow'[p].ready = r.ready /\ launchRow'[p].lease = r.lease
      /\ launchRow'[p].revision = r.revision /\ launchRow'[p].until = r.until
      /\ launchRow'[p].exhausted = exhausted
  BY <1>1, <1>6 DEF LaunchRows
<1> QED
  BY <1>1, <1>2, <1>3, <1>4, <1>6, <1>7 DEF p, r

\* The attempt that is completed is the last of what its row has done.
LEMMA CompletedAttempt ==
  ASSUME NightInv, Complete
  PROVE  launchOutcome.item.work.attempt
           <= Len(launchRow'[launchOutcome.item.work.program].done)
<1> DEFINE work == launchOutcome.item.work
           done == launchRow[work.program].done
<1>1. work.attempt = Len(done) + 1
  BY CompletedRow
<1>2. done \in Seq(WorkIds)
  BY CompletedRow
<1>3. work \in WorkIds
  BY CompletedRow
<1>4. launchRow'[work.program].done = Append(done, work)
  BY CompletedRow
<1> HIDE DEF done, work
<1>5. Len(done) \in Nat /\ Len(Append(done, work)) = Len(done) + 1
  BY <1>2, <1>3
<1>6. work.attempt <= Len(launchRow'[work.program].done)
  BY <1>1, <1>4, <1>5
<1> QED
  BY <1>6 DEF work


\* Replanning binds the works of a row to its new revision and lease, and leaves the rest.
LEMMA ReplannedRow ==
  ASSUME Queued, Replan, NEW p \in NightPrograms
  PROVE  LET r == launchRow[p]
             s == launchRow'[p]
         IN /\ s.done = r.done /\ s.until = r.until /\ s.exhausted = r.exhausted
            /\ Len(s.pending) = Len(r.pending) /\ (r.pending = <<>> => s.pending = <<>>)
            /\ \/ s.revision = r.revision /\ s.lease = r.lease /\ s.pending = r.pending
               \/ \A i \in 1..Len(s.pending) :
                    s.pending[i].revision = s.revision /\ s.pending[i].lease = s.lease
            /\ p \in Offline \cup Revised => s.ready /\ s.lease # None
            /\ r.ready /\ r.lease # None => s.ready /\ s.lease # None
<1> DEFINE r == launchRow[p]
           s == launchRow'[p]
<1>1. r \in LaunchRows
  BY DEF Queued
<1>2. \A q, n : <<q, n>> # None
  BY DEF None
<1>3. \/ s = r /\ p \notin Offline \cup Revised
      \/ \E revision, lease, ready :
           /\ s = [r EXCEPT !.ready = ready, !.revision = revision, !.lease = lease,
                            !.pending = Replanned(r.pending, revision, lease)]
           /\ lease # None /\ (p \in Offline \cup Revised \/ r.ready => ready)
  <2>1. CASE p \in Offline
    <3>1. s = [r EXCEPT !.ready = TRUE, !.revision = r.revision, !.lease = <<p, 1>>,
                        !.pending = Replanned(r.pending, r.revision, <<p, 1>>)]
      BY <1>1, <2>1 DEF Replan, LaunchRows
    <3> QED
      BY <1>2, <3>1
  <2>2. CASE p \notin Offline /\ p \in Revised
    <3>1. s = [r EXCEPT !.ready = TRUE, !.revision = 2, !.lease = <<p, 2>>,
                        !.pending = Replanned(r.pending, 2, <<p, 2>>)]
      BY <1>1, <2>2 DEF Replan, LaunchRows
    <3> QED
      BY <1>2, <3>1
  <2>3. CASE p \notin Offline \cup Revised /\ p \in Renewed
    <3>1. s = [r EXCEPT !.ready = r.ready, !.revision = r.revision, !.lease = <<p, 2>>,
                        !.pending = Replanned(r.pending, r.revision, <<p, 2>>)]
      BY <1>1, <2>3 DEF Replan, LaunchRows
    <3> QED
      BY <1>2, <2>3, <3>1
  <2>4. CASE p \notin Offline \cup Revised \cup Renewed
    BY <2>4 DEF Replan
  <2> QED
    BY <2>1, <2>2, <2>3, <2>4
<1> HIDE DEF r, s
<1>4. ASSUME NEW revision, NEW lease
      PROVE  LET t == Replanned(r.pending, revision, lease)
             IN /\ Len(t) = Len(r.pending) /\ (r.pending = <<>> => t = <<>>)
                /\ \A i \in 1..Len(t) : t[i].revision = revision /\ t[i].lease = lease
  <2>1. r.pending \in Seq(Items) /\ Len(r.pending) \in Nat
        /\ DOMAIN r.pending = 1..Len(r.pending)
    BY <1>1 DEF LaunchRows
  <2> DEFINE t == Replanned(r.pending, revision, lease)
  <2>2. t = [i \in 1..Len(r.pending) |-> Item(r.pending[i].work, revision, lease)]
    BY <2>1 DEF Replanned
  <2>3. Len(t) = Len(r.pending) /\ (r.pending = <<>> => t = <<>>)
    BY <2>1, <2>2
  <2> HIDE DEF t
  <2>4. \A i \in 1..Len(t) : t[i].revision = revision /\ t[i].lease = lease
    BY <2>2, <2>3 DEF Item
  <2> QED
    BY <2>3, <2>4 DEF t
<1>5. CASE s = r /\ p \notin Offline \cup Revised
  BY <1>5 DEF r, s
<1>6. ASSUME NEW revision, NEW lease, NEW ready,
             s = [r EXCEPT !.ready = ready, !.revision = revision, !.lease = lease,
                           !.pending = Replanned(r.pending, revision, lease)],
             lease # None, p \in Offline \cup Revised \/ r.ready => ready
      PROVE  /\ s.done = r.done /\ s.until = r.until /\ s.exhausted = r.exhausted
             /\ Len(s.pending) = Len(r.pending) /\ (r.pending = <<>> => s.pending = <<>>)
             /\ \A i \in 1..Len(s.pending) :
                  s.pending[i].revision = s.revision /\ s.pending[i].lease = s.lease
             /\ s.lease # None /\ (p \in Offline \cup Revised \/ r.ready => s.ready)
  <2>1. /\ s.done = r.done /\ s.until = r.until /\ s.exhausted = r.exhausted
        /\ s.pending = Replanned(r.pending, revision, lease)
        /\ s.revision = revision /\ s.lease = lease /\ s.ready = ready
    BY <1>1, <1>6 DEF LaunchRows
  <2> QED
    BY <1>4, <1>6, <2>1
<1> QED
  BY <1>3, <1>5, <1>6 DEF r, s

\* The rows stay bound, and the file knows when the deadline has passed.
LEMMA BoundStays ==
  ASSUME NightInv, Bound, [SchedNext]_schedVars PROVE Bound'
<1>1. /\ Hours \in Seq(Nat) /\ Len(Hours) \in Nat /\ Len(Hours) > 1
      /\ lap \in Nat /\ lap <= Len(Hours)
  BY SchedulerAssumption DEF NightInv, Clocked
<1>2. draining' = (lap' > 0 /\ Hours[lap'] >= Horizon)
  <2>1. CASE Advance
    BY <1>1, <2>1 DEF Advance
  <2>2. CASE ~Advance
    <3>1. UNCHANGED <<lap, draining>>
      BY <2>2 DEF SchedNext, DriverStep, NightOver, schedVars, file, Select, EndRound, LaunchWork,
                  LogAttempt, RateLimit, Complete, ReplaceLeases, Replan, ReopenDriver, Verify,
                  DriverCrash
    <3> QED
      BY <3>1 DEF Bound
  <2> QED
    BY <2>1, <2>2
<1>3. /\ Replanning' => lap' = 2
      /\ phase' \in {"verify", "done"} => lap' = Len(Hours)
      /\ Begun' => Begun \/ Replan
  <2>1. CASE Advance
    BY <1>1, <2>1 DEF Advance, Bound, Begun, Replanning
  <2>2. CASE EndRound
    BY <1>1, <2>2 DEF EndRound, Bound, file, Begun, Replanning
  <2>3. CASE ~Advance /\ ~EndRound
    BY <1>1, <2>3 DEF SchedNext, DriverStep, NightOver, schedVars, file, Select, LaunchWork, Dead,
                      LogAttempt, RateLimit, Complete, ReplaceLeases, Replan, ReopenDriver, Verify,
                      DriverCrash, Bound, Begun, Replanning
  <2> QED
    BY <2>1, <2>2, <2>3
<1>4. ASSUME NEW p \in NightPrograms
      PROVE  LET r == launchRow[p]
                 s == launchRow'[p]
             IN /\ \A i \in 1..Len(s.pending) :
                     s.pending[i].revision = s.revision /\ s.pending[i].lease = s.lease
                /\ Len(s.done) + Len(s.pending) = Len(r.done) + Len(r.pending)
                /\ \/ s.ready = r.ready /\ s.lease = r.lease /\ ~Replan
                   \/ p \in Offline \cup Revised /\ s.ready /\ s.lease # None
                   \/ Replan /\ p \notin Offline \cup Revised
                      /\ (r.ready /\ r.lease # None => s.ready /\ s.lease # None)
  <2> DEFINE r == launchRow[p]
             s == launchRow'[p]
  <2>0. \A i \in 1..Len(r.pending) :
          r.pending[i].revision = r.revision /\ r.pending[i].lease = r.lease
    BY DEF Bound
  <2>1. CASE Complete /\ p = launchOutcome.item.work.program
    <3>1. /\ r.pending \in Seq(Items) /\ r.pending # <<>> /\ r.done \in Seq(WorkIds)
          /\ launchOutcome.item.work \in WorkIds
          /\ s.pending = Tail(r.pending)
          /\ s.done = Append(r.done, launchOutcome.item.work)
          /\ s.ready = r.ready /\ s.lease = r.lease
          /\ s.revision = r.revision
      BY <2>1, CompletedRow
    <3> HIDE DEF r, s
    <3>2. /\ Len(r.pending) \in Nat /\ Len(r.pending) > 0 /\ Len(r.done) \in Nat
          /\ Len(s.pending) = Len(r.pending) - 1
          /\ \A i \in 1..(Len(r.pending) - 1) : s.pending[i] = r.pending[i + 1]
          /\ Len(s.done) = Len(r.done) + 1
      BY <3>1, EmptySeq
    <3>3. \A i \in 1..(Len(r.pending) - 1) : i + 1 \in 1..Len(r.pending)
      BY <3>2
    <3>4. \A i \in 1..Len(s.pending) :
            s.pending[i].revision = s.revision /\ s.pending[i].lease = s.lease
      BY <2>0, <3>1, <3>2, <3>3
    <3>5. Len(s.done) + Len(s.pending) = Len(r.done) + Len(r.pending)
      <4>1. \A a, b \in Nat : (a + 1) + (b - 1) = a + b
        OBVIOUS
      <4> QED
        BY <3>2, <4>1, Zenon
    <3>6. ~Replan
      BY <2>1 DEF Complete, Replan
    <3> QED
      BY <3>1, <3>4, <3>5, <3>6 DEF r, s
  <2>2. CASE Complete /\ p # launchOutcome.item.work.program
    <3>1. s = r
      BY <2>2, CompletedRow
    <3>2. ~Replan
      BY <2>2 DEF Complete, Replan
    <3> QED
      BY <2>0, <3>1, <3>2
  <2>3. CASE Replan
    <3>1. /\ s.done = r.done /\ Len(s.pending) = Len(r.pending)
          /\ \/ s.revision = r.revision /\ s.lease = r.lease /\ s.pending = r.pending
             \/ \A i \in 1..Len(s.pending) :
                  s.pending[i].revision = s.revision /\ s.pending[i].lease = s.lease
          /\ p \in Offline \cup Revised => s.ready /\ s.lease # None
          /\ r.ready /\ r.lease # None => s.ready /\ s.lease # None
      BY <2>3, ReplannedRow DEF NightInv
    <3> QED
      BY <2>0, <2>3, <3>1
  <2>4. CASE ~Complete /\ ~Replan
    <3>1. SameRow(p)
      BY <2>4, RowsStay DEF NightInv
    <3> QED
      BY <2>0, <2>4, <3>1 DEF SameRow
  <2> QED
    BY <2>1, <2>2, <2>3, <2>4
<1>5. ASSUME NEW p \in NightPrograms
      PROVE  LET s == launchRow'[p]
             IN /\ \A i \in 1..Len(s.pending) :
                     s.pending[i].revision = s.revision /\ s.pending[i].lease = s.lease
                /\ Len(s.done) + Len(s.pending) = Attempts[p]
                /\ p \notin DeniedPrograms /\ (FirstRound(p) = 1 \/ Begun') => s.ready /\ s.lease # None
  <2> DEFINE r == launchRow[p]
             s == launchRow'[p]
  <2>1. /\ Len(r.done) + Len(r.pending) = Attempts[p]
        /\ p \notin DeniedPrograms /\ (FirstRound(p) = 1 \/ Begun) => r.ready /\ r.lease # None
    BY DEF Bound
  <2>2. ASSUME p \notin DeniedPrograms, FirstRound(p) = 1 \/ Begun'
        PROVE  s.ready /\ s.lease # None
    <3>1. FirstRound(p) = 1 <=> p \notin Offline \cup Revised
      BY DEF FirstRound
    <3>2. CASE p \in Offline \cup Revised /\ s.ready /\ s.lease # None
      BY <3>2
    <3>3. CASE s.ready = r.ready /\ s.lease = r.lease /\ ~Replan
      <4>1. FirstRound(p) = 1 \/ Begun
        BY <1>3, <2>2, <3>3
      <4> QED
        BY <2>1, <2>2, <3>3, <4>1
    <3>4. CASE p \notin Offline \cup Revised
                /\ (r.ready /\ r.lease # None => s.ready /\ s.lease # None)
      BY <2>1, <2>2, <3>1, <3>4
    <3> QED
      BY <1>4, <3>2, <3>3, <3>4
  <2> QED
    BY <1>4, <2>1, <2>2
<1> QED
  BY <1>2, <1>3, <1>5 DEF Bound

\* Results in memory stay those of runs, and forget everything when the driver dies.
LEMMA RememberedStays ==
  ASSUME NightInv, NightInv', Remembered, [SchedNext]_schedVars PROVE Remembered'
<1> DEFINE InHandNow == phase \in {"log", "limit", "complete"}
<1>1. /\ runs \in Seq(Launches) /\ runs' \in Seq(Launches) /\ kept \in Seq(Launches)
  BY DEF NightInv, Waited, Remembered
<1>2. ASSUME NEW p \in NightPrograms
      PROVE  Len(launchRow[p].done) \in Nat /\ Len(launchRow'[p].done) \in Nat /\ Len(launchRow[p].done) <= Len(launchRow'[p].done)
  <2>1. launchRow[p] \in LaunchRows /\ launchRow'[p] \in LaunchRows
    BY DEF NightInv, Queued
  <2>2. Len(launchRow[p].done) \in Nat /\ Len(launchRow'[p].done) \in Nat
    <3>1. \A row \in LaunchRows : Len(row.done) \in Nat
      BY DEF LaunchRows
    <3> QED
      BY <2>1, <3>1
  <2>3. CASE Complete
    <3>1. \/ launchRow'[p] = launchRow[p]
          \/ /\ launchRow[p].done \in Seq(WorkIds) /\ launchOutcome.item.work \in WorkIds
             /\ launchRow'[p].done = Append(launchRow[p].done, launchOutcome.item.work)
      BY <2>3, CompletedRow
    <3> QED
      BY <2>2, <3>1
  <2>4. CASE Replan
    BY <2>2, <2>4, ReplannedRow DEF NightInv
  <2>5. CASE ~Complete /\ ~Replan
    BY <2>2, <2>5, RowsStay DEF SameRow, NightInv
  <2> QED
    BY <2>2, <2>3, <2>4, <2>5
<1>3. CASE LaunchWork /\ runs' # runs
  <2> DEFINE p == Chosen.work.program
  <2>1. /\ p \in NightPrograms /\ Chosen.work.attempt = Len(launchRow[p].done) + 1
        /\ LaunchedRun \in Launches /\ Len(runs') = Len(runs) + 1 /\ Len(runs) \in Nat
        /\ runs'[Len(runs) + 1] = LaunchedRun
        /\ \A i \in 1..Len(runs) : runs'[i] = runs[i]
    BY <1>3, LaunchIsCurrent DEF NightInv
  <2>2. LaunchedRun.item = Chosen /\ (LaunchedRun.retry # 0 => p \in Limited)
    <3>1. \E run : /\ runs' = Append(runs, run)
                   /\ run.retry # 0 => p \in Limited
      <4>1. \E status \in {"completed", "failed", "blocked", "unknown"},
               retry \in {0} \cup RetryAfters :
              /\ retry # 0 => p \in Limited
              /\ runs' = Append(runs, [item |-> Chosen, status |-> status, retry |-> retry,
                                       lap |-> lap, at |-> nightClock,
                                       named |-> NamedRevision(Chosen.work)])
        BY <1>3 DEF LaunchWork
      <4> QED
        BY <4>1
    <3>2. PICK run : /\ runs' = Append(runs, run)
                     /\ run.retry # 0 => p \in Limited
      BY <3>1
    <3>3. runs'[Len(runs) + 1] = run
      BY <1>1, <2>1, <3>2
    <3> QED
      BY <2>1, <3>2, <3>3 DEF LaunchedRun
  <2>3. \A i \in 1..Len(runs') : runs'[i].retry # 0 => runs'[i].item.work.program \in Limited
    <3> TAKE i \in 1..Len(runs')
    <3>1. i \in 1..Len(runs) \/ i = Len(runs) + 1
      BY <2>1
    <3> QED
      BY <2>1, <2>2, <3>1 DEF Remembered
  <2>4. phase = "launch" /\ launchRow' = launchRow
    BY <1>3 DEF LaunchWork, file
  <2>5. CASE kept' = <<>>
    <3>1. kept' \in Seq(Launches) /\ 1..Len(kept') = {}
      BY <2>5
    <3> QED
      BY <2>3, <3>1 DEF Remembered
  <2>6. CASE kept' # <<>>
    <3>1. \E run : /\ runs' = Append(runs, run) /\ kept' = Append(kept, run)
                   /\ launchOutcome' = run /\ phase' = "log"
      BY <1>3, <2>6 DEF LaunchWork, Dead
    <3>2. PICK run : /\ runs' = Append(runs, run) /\ kept' = Append(kept, run)
                     /\ launchOutcome' = run /\ phase' = "log"
      BY <3>1
    <3>3. run = LaunchedRun
      BY <1>1, <2>1, <3>2
    <3>4. /\ kept' \in Seq(Launches) /\ Len(kept') = Len(kept) + 1 /\ Len(kept) \in Nat
          /\ kept'[Len(kept) + 1] = LaunchedRun /\ \A i \in 1..Len(kept) : kept'[i] = kept[i]
      BY <1>1, <2>1, <3>2, <3>3, AppendProperties
    <3>5. \A i \in 1..Len(kept) :
            /\ kept[i] \in Launches /\ kept[i].item.work.program \in NightPrograms
            /\ \E n \in 1..Len(runs) : kept[i] = runs[n]
            /\ kept[i].item.work.attempt > 0
            /\ kept[i].item.work.attempt <= Len(launchRow[kept[i].item.work.program].done)
      <4> TAKE i \in 1..Len(kept)
      <4>1. kept[i] \in Launches
        BY <1>1, ElementOfSeq
      <4>2. kept[i].item.work.program \in NightPrograms
        BY <4>1 DEF Launches, Items, WorkIds
      <4> QED
        BY <2>4, <4>1, <4>2 DEF Remembered
    <3>6. ASSUME NEW i \in 1..Len(kept')
          PROVE  /\ \E n \in 1..Len(runs') : kept'[i] = runs'[n]
                 /\ kept'[i].item.work.attempt > 0
                 /\ \/ kept'[i].item.work.attempt <= Len(launchRow'[kept'[i].item.work.program].done)
                    \/ phase' \in {"log", "limit", "complete"} /\ kept'[i] = launchOutcome'
      <4>1. CASE i \in 1..Len(kept)
        <5>1. PICK n \in 1..Len(runs) : kept[i] = runs[n]
          BY <3>5, <4>1
        <5>2. n \in 1..Len(runs') /\ kept'[i] = runs'[n]
          BY <2>1, <3>4, <4>1, <5>1
        <5> QED
          BY <2>4, <3>4, <3>5, <4>1, <5>2
      <4>2. CASE i = Len(kept) + 1
        <5>1. Len(runs) + 1 \in 1..Len(runs') /\ kept'[i] = runs'[Len(runs) + 1]
          BY <2>1, <3>4, <4>2
        <5>2. kept'[i].item.work.attempt > 0
          BY <1>2, <2>1, <2>2, <3>4, <4>2
        <5> QED
          BY <3>2, <3>3, <3>4, <4>2, <5>1, <5>2
      <4> QED
        BY <3>4, <4>1, <4>2
    <3>7. ASSUME NEW i \in 1..Len(kept'), NEW j \in 1..Len(kept'), i < j,
                 kept'[i].item.work.program = kept'[j].item.work.program
          PROVE  kept'[i].item.work.attempt < kept'[j].item.work.attempt
      <4>1. i \in 1..Len(kept) /\ kept'[i] = kept[i]
        BY <3>4, <3>7
      <4>2. CASE j \in 1..Len(kept)
        BY <3>4, <3>7, <4>1, <4>2 DEF Remembered
      <4>3. CASE j = Len(kept) + 1
        <5>1. kept'[j].item.work.attempt = Len(launchRow[p].done) + 1 /\ kept'[j].item.work.program = p
          BY <2>1, <2>2, <3>4, <4>3
        <5>2. kept[i].item.work.attempt <= Len(launchRow[p].done) /\ kept[i] \in Launches
          BY <3>5, <3>7, <4>1, <5>1
        <5>3. kept[i].item.work.attempt \in Nat
          BY <5>2 DEF Launches, Items, WorkIds
        <5>4. Len(launchRow[p].done) \in Nat
          BY <1>2, <2>1
        <5> HIDE DEF p
        <5> QED
          BY <4>1, <5>1, <5>2, <5>3, <5>4
      <4> QED
        BY <3>4, <4>2, <4>3
    <3> QED
      BY <2>3, <3>4, <3>6, <3>7 DEF Remembered
  <2> QED
    BY <2>5, <2>6
<1>4. CASE runs' = runs
  <2>1. CASE kept' = <<>>
    <3>1. kept' \in Seq(Launches) /\ 1..Len(kept') = {}
      BY <2>1
    <3> QED
      BY <1>4, <3>1 DEF Remembered
  <2>2. CASE kept' # <<>>
    <3>0. ~LaunchWork
      <4>1. ASSUME LaunchWork PROVE FALSE
        <5>1. \E run : runs' = Append(runs, run)
          BY <2>2, <4>1 DEF LaunchWork, Dead
        <5>2. PICK run : runs' = Append(runs, run)
          BY <5>1
        <5> QED
          BY <1>1, <1>4, <5>2
      <4> QED
        BY <4>1
    <3>1. /\ kept' = kept
          /\ (~Complete /\ InHandNow) => (InHandNow' /\ launchOutcome' = launchOutcome)
      BY <2>2, <3>0 DEF SchedNext, DriverStep, NightOver, schedVars, file, Advance, Select, EndRound,
                  Dead, LogAttempt, RateLimit, Complete, ReplaceLeases, Replan, ReopenDriver,
                  Verify, DriverCrash
    <3>2. ASSUME NEW i \in 1..Len(kept)
          PROVE  \/ kept[i].item.work.attempt <= Len(launchRow'[kept[i].item.work.program].done)
                 \/ InHandNow' /\ kept[i] = launchOutcome'
      <4>1. kept[i] \in Launches
        BY <1>1, ElementOfSeq
      <4>2. kept[i].item.work.program \in NightPrograms /\ kept[i].item.work.attempt \in Nat
        BY <4>1 DEF Launches, Items, WorkIds
      <4>3. CASE kept[i].item.work.attempt <= Len(launchRow[kept[i].item.work.program].done)
        <5>1. \A a, b, c \in Nat : a <= b /\ b <= c => a <= c
          OBVIOUS
        <5> QED
          BY <1>2, <4>2, <4>3, <5>1
      <4>4. CASE InHandNow /\ kept[i] = launchOutcome /\ ~Complete
        BY <3>1, <4>4
      <4>5. CASE InHandNow /\ kept[i] = launchOutcome /\ Complete
        <5>1. launchOutcome.item.work.attempt
                <= Len(launchRow'[launchOutcome.item.work.program].done)
          BY <4>5, CompletedAttempt
        <5> QED
          BY <4>5, <5>1
      <4> QED
        BY <4>3, <4>4, <4>5 DEF Remembered
    <3> QED
      BY <1>4, <3>1, <3>2 DEF Remembered
  <2> QED
    BY <2>1, <2>2
<1> QED
  BY <1>3, <1>4, OthersKeepResults

\* An event is added behind those of the file.
LEMMA EventsGrow ==
  ASSUME nightEvents \in Seq(NightEvents), NEW e \in NightEvents,
         nightEvents' = Append(nightEvents, e)
  PROVE  /\ nightEvents' \in Seq(NightEvents)
         /\ \A i \in Finished : i \in Finished' /\ EventWork(i)' = EventWork(i)
         /\ e.event = "attempt.finished" =>
              Len(nightEvents) + 1 \in Finished' /\ nightEvents'[Len(nightEvents) + 1].work = e.work
<1>1. /\ nightEvents' \in Seq(NightEvents) /\ Len(nightEvents) \in Nat
      /\ Len(nightEvents') = Len(nightEvents) + 1
      /\ nightEvents'[Len(nightEvents) + 1] = e
      /\ \A i \in 1..Len(nightEvents) : nightEvents'[i] = nightEvents[i]
      /\ DOMAIN nightEvents = 1..Len(nightEvents) /\ DOMAIN nightEvents' = 1..Len(nightEvents')
  BY AppendProperties
<1>2. \A i \in 1..Len(nightEvents) : i \in 1..Len(nightEvents')
  BY <1>1
<1>3. Len(nightEvents) + 1 \in 1..Len(nightEvents')
  BY <1>1
<1> QED
  BY <1>1, <1>2, <1>3 DEF Finished, EventsOf, EventWork

\* What left its queue stays in the trace.
LEMMA AnnouncedStays ==
  ASSUME NightInv, Announced, [SchedNext]_schedVars PROVE Announced'
<1> DEFINE Told(w) == \E i \in Finished : EventWork(i) = w
<1>1. CASE nightEvents' = nightEvents /\ ~LogAttempt /\ ~Complete
  <2>1. /\ Finished' = Finished /\ \A i : EventWork(i)' = EventWork(i)
        /\ nightEvents' \in Seq(NightEvents)
    BY <1>1 DEF Finished, EventsOf, EventWork, Announced
  <2>2. phase' \in {"limit", "complete"} => launchOutcome' = launchOutcome /\ phase' = phase
    <3>1. ~RateLimit
      <4>1. ASSUME RateLimit PROVE FALSE
        <5>1. \E e : nightEvents' = Append(nightEvents, e)
          BY <4>1 DEF RateLimit
        <5> QED
          BY <1>1, <5>1 DEF Announced
      <4> QED
        BY <4>1
    <3> QED
      BY <1>1, <3>1 DEF SchedNext, DriverStep, NightOver, schedVars, Advance, Select, EndRound,
                LaunchWork, Dead, ReplaceLeases, Replan, ReopenDriver, Verify, DriverCrash
  <2>3. ASSUME NEW p \in NightPrograms PROVE launchRow'[p].done = launchRow[p].done
    BY <1>1, RowsStay, ReplannedRow DEF SameRow, NightInv
  <2> QED
    BY <2>1, <2>2, <2>3 DEF Announced
<1>2. CASE LogAttempt \/ RateLimit
  <2>1. /\ launchOutcome \in Launches /\ phase \in {"log", "limit"}
        /\ lap \in Nat /\ launchOutcome.item.work \in WorkIds
        /\ launchOutcome.retry \in Nat
    <3>1. launchOutcome \in Launches /\ phase \in {"log", "limit"}
      BY <1>2, HandIsLast DEF LogAttempt, RateLimit, NightInv
    <3> QED
      BY <3>1 DEF Launches, Items, NightInv, Clocked
  <2>2. PICK e \in NightEvents : /\ nightEvents' = Append(nightEvents, e)
                                 /\ LogAttempt => /\ e.event = "attempt.finished"
                                                  /\ e.work = launchOutcome.item.work
    <3>1. CASE LogAttempt
      <4> DEFINE e == [event |-> "attempt.finished", work |-> launchOutcome.item.work,
                       lap |-> lap, retry |-> launchOutcome.retry]
      <4>1. e \in NightEvents /\ nightEvents' = Append(nightEvents, e)
        BY <2>1, <3>1 DEF LogAttempt, NightEvents
      <4> QED
        BY <4>1
    <3>2. CASE RateLimit
      <4> DEFINE e == [event |-> "http.429", work |-> launchOutcome.item.work,
                       lap |-> lap, retry |-> launchOutcome.retry]
      <4>1. e \in NightEvents /\ nightEvents' = Append(nightEvents, e) /\ ~LogAttempt
        BY <2>1, <3>2 DEF LogAttempt, RateLimit, NightEvents
      <4> QED
        BY <4>1
    <3> QED
      BY <1>2, <3>1, <3>2
  <2>3. /\ nightEvents' \in Seq(NightEvents)
        /\ \A w : Told(w) => Told(w)'
        /\ LogAttempt => Told(launchOutcome.item.work)'
    <3>1. /\ nightEvents' \in Seq(NightEvents)
          /\ \A i \in Finished : i \in Finished' /\ EventWork(i)' = EventWork(i)
          /\ e.event = "attempt.finished" =>
               Len(nightEvents) + 1 \in Finished'
               /\ nightEvents'[Len(nightEvents) + 1].work = e.work
      BY <2>2, EventsGrow DEF Announced
    <3>2. LogAttempt => \E i \in Finished' : nightEvents'[i].work = launchOutcome.item.work
      BY <2>2, <3>1
    <3>3. launchOutcome' = launchOutcome
      BY <1>2 DEF LogAttempt, RateLimit
    <3> QED
      BY <3>1, <3>2, <3>3 DEF EventWork
  <2>4. /\ launchOutcome' = launchOutcome /\ ~Complete /\ ~Replan
        /\ RateLimit => phase = "limit"
    BY <1>2 DEF LogAttempt, RateLimit, Complete, Replan
  <2>5. Told(launchOutcome.item.work)'
    <3>1. CASE LogAttempt
      BY <2>3, <3>1
    <3>2. CASE RateLimit
      <4>1. Told(launchOutcome.item.work)
        BY <2>4, <3>2 DEF Announced
      <4>2. \A w : Told(w) => Told(w)'
        BY <2>3
      <4> DEFINE w == launchOutcome.item.work
      <4>3. \E i \in Finished' : EventWork(i)' = w
        BY <4>1, <4>2
      <4> QED
        BY <2>4, <4>3
    <3> QED
      BY <1>2, <3>1, <3>2
  <2>6. ASSUME NEW p \in NightPrograms PROVE launchRow'[p].done = launchRow[p].done
    BY <2>4, RowsStay DEF SameRow, NightInv
  <2>7. \A p \in NightPrograms : \A n \in 1..Len(launchRow'[p].done) :
          Told([program |-> p, attempt |-> n])'
    BY <2>3, <2>6 DEF Announced
  <2> QED
    BY <2>3, <2>4, <2>5, <2>7 DEF Announced
<1>3. CASE Complete
  <2> DEFINE p == launchOutcome.item.work.program
             r == launchRow[p]
  <2>1. /\ p \in NightPrograms /\ launchOutcome.item.work.attempt = Len(r.done) + 1
        /\ r.done \in Seq(WorkIds) /\ launchOutcome.item.work \in WorkIds
        /\ phase' = "launch"
        /\ \A q \in NightPrograms \ {p} : launchRow'[q] = launchRow[q]
        /\ launchRow'[p].done = Append(r.done, launchOutcome.item.work)
        /\ r.pending # <<>> /\ launchOutcome.item = Head(r.pending)
    <3>1. phase \in {"log", "limit", "complete"}
      BY <1>3 DEF Complete
    <3> QED
      BY <1>3, <3>1, CompletedRow, HandIsLast DEF NightInv
  <2>2. PICK e \in NightEvents : nightEvents' = Append(nightEvents, e)
    <3> DEFINE e == [event |-> "work.completed", work |-> launchOutcome.item.work, lap |-> lap,
                     retry |-> 0]
    <3>1. nightEvents' = Append(nightEvents, e)
      BY <1>3, <2>1 DEF Complete
    <3>2. e \in NightEvents
      <4>1. lap \in Nat
        BY DEF NightInv, Clocked
      <4> QED
        BY <2>1, <4>1 DEF NightEvents
    <3> HIDE DEF e
    <3> QED
      BY <3>1, <3>2
  <2>3. /\ nightEvents' \in Seq(NightEvents)
        /\ \A w : Told(w) => Told(w)'
    BY <2>2, EventsGrow DEF Announced
  <2>4. Told(launchOutcome.item.work)
    BY <1>3 DEF Announced, Complete
  <2>5. launchOutcome.item.work = [program |-> p, attempt |-> Len(r.done) + 1]
    BY <2>1 DEF WorkIds
  <2> HIDE DEF r
  <2>6. Len(r.done) \in Nat /\ Len(launchRow'[p].done) = Len(r.done) + 1
    <3>1. r.done \in Seq(WorkIds) /\ launchOutcome.item.work \in WorkIds
      BY <2>1
    <3>2. launchRow'[p].done = Append(r.done, launchOutcome.item.work)
      BY <2>1
    <3> QED
      BY <3>1, <3>2
  <2>7. ASSUME NEW q \in NightPrograms, NEW n \in 1..Len(launchRow'[q].done)
        PROVE  Told([program |-> q, attempt |-> n])
    <3>1. CASE q # p
      BY <2>1, <2>7, <3>1 DEF Announced
    <3>2. CASE q = p /\ n \in 1..Len(r.done)
      BY <3>2 DEF Announced, r
    <3>3. CASE q = p /\ n = Len(r.done) + 1
      BY <2>4, <2>5, <3>3
    <3>4. q = p => n \in 1..Len(r.done) \/ n = Len(r.done) + 1
      BY <2>6, <2>7
    <3> QED
      BY <3>1, <3>2, <3>3, <3>4
  <2>8. \A q \in NightPrograms : \A n \in 1..Len(launchRow'[q].done) :
          Told([program |-> q, attempt |-> n])'
    BY <2>3, <2>7
  <2> QED
    BY <2>1, <2>3, <2>8 DEF Announced
<1>4. \/ nightEvents' = nightEvents /\ ~LogAttempt /\ ~Complete
      \/ LogAttempt \/ RateLimit \/ Complete
  BY DEF SchedNext, DriverStep, NightOver, schedVars, file, Advance, Select, EndRound, LaunchWork,
         ReplaceLeases, Replan, ReopenDriver, Verify, DriverCrash
<1> QED
  BY <1>1, <1>2, <1>3, <1>4

\* The verdict is on the trace as it stands.
LEMMA ReportedStays ==
  ASSUME Reported, [SchedNext]_schedVars PROVE Reported'
<1>1. CASE Verify
  <2>1. TraceVerified' = TraceVerified
    BY <1>1 DEF Verify, file, TraceVerified, Finished, EventsOf, EventWork
  <2> QED
    BY <1>1, <2>1 DEF Verify, Reported
<1>2. CASE NightOver \/ UNCHANGED schedVars
  <2>1. UNCHANGED <<phase, verdict, nightEvents, kept>>
    BY <1>2 DEF NightOver, schedVars
  <2>2. TraceVerified' = TraceVerified
    BY <2>1 DEF TraceVerified, Finished, EventsOf, EventWork
  <2> QED
    BY <2>1, <2>2 DEF Reported
<1>3. CASE ~Verify /\ ~(NightOver \/ UNCHANGED schedVars)
  <2>1. phase # "done" /\ verdict' = verdict
    BY <1>3 DEF SchedNext, DriverStep, Advance, Select, EndRound, LaunchWork, LogAttempt,
                RateLimit, Complete, ReplaceLeases, Replan, ReopenDriver, DriverCrash
  <2> QED
    BY <2>1 DEF Reported
<1> QED
  BY <1>1, <1>2, <1>3

\* Enough stays enough: no work returns to a queue.
LEMMA EnoughStays ==
  ASSUME NightInv, [SchedNext]_schedVars, NEW p \in NightPrograms, NEW n \in Nat, Enough(p, n)
  PROVE  Enough(p, n)'
<1>0. launchRow[p] \in LaunchRows /\ RoundsFor(p, n) \in Nat
  BY RoundsGrow DEF NightInv, Queued
<1>1. CASE Complete /\ p = launchOutcome.item.work.program
  <2> DEFINE r == launchRow[p]
  <2>1. /\ r.pending # <<>> /\ r.done \in Seq(WorkIds)
        /\ launchOutcome.item.work \in WorkIds
        /\ launchRow'[p].done = Append(r.done, launchOutcome.item.work)
        /\ r.exhausted => launchRow'[p].exhausted
    BY <1>1, CompletedRow
  <2>2. Len(r.done) \in Nat /\ Len(launchRow'[p].done) = Len(r.done) + 1
    BY <2>1
  <2>3. r.exhausted \/ Len(r.done) >= RoundsFor(p, n)
    BY <2>1 DEF Enough
  <2> HIDE DEF r
  <2>4. Len(r.done) >= RoundsFor(p, n) => Len(launchRow'[p].done) >= RoundsFor(p, n)
    BY <1>0, <2>2
  <2> QED
    BY <2>1, <2>3, <2>4 DEF Enough
<1>2. CASE Complete /\ p # launchOutcome.item.work.program
  <2>1. launchRow'[p] = launchRow[p]
    BY <1>2, CompletedRow
  <2> QED
    BY <2>1 DEF Enough
<1>3. CASE Replan
  BY <1>3, ReplannedRow DEF Enough, NightInv
<1>4. CASE ~Complete /\ ~Replan
  BY <1>4, RowsStay DEF SameRow, Enough, NightInv
<1> QED
  BY <1>1, <1>2, <1>3, <1>4

\* A round in which a program's share grows selects it.
LEMMA RoundServes ==
  ASSUME NightInv, Bound, Served, Select,
         NEW p \in NightPrograms \ (DeniedPrograms \cup Limited), ~Enough(p, lap)
  PROVE  \E i \in 1..Len(decision') : decision'[i].work.program = p
<1>1. /\ lap \in Nat /\ lap > 0 /\ nightClock = Hours[lap] /\ Duration \in Nat /\ Duration > 0
      /\ Horizon \in Nat /\ Hours[lap] \in Nat /\ lap - 1 \in Nat
  <2>1. Hours \in Seq(Nat) /\ lap \in 1..Len(Hours)
    BY SchedulerAssumption DEF NightInv, Clocked, Select
  <2> QED
    BY <2>1, SchedulerAssumption, ElementOfSeq DEF NightInv, Clocked, Select
<1> DEFINE r == launchRow[p]
<1>2. /\ ~r.exhausted /\ r.pending # <<>> /\ ~(Len(r.done) >= RoundsFor(p, lap))
      /\ Enough(p, lap - 1) /\ r.until = 0 /\ launchRow[p] \in LaunchRows
  BY DEF Enough, Served, Past, Select, NightInv, Queued
<1>3. lap >= FirstRound(p) /\ Hours[lap] + Duration <= Horizon
  <2>1. Len(r.done) >= RoundsFor(p, lap - 1)
    BY <1>2 DEF Enough
  <2>2. RoundsFor(p, lap) # RoundsFor(p, lap - 1)
    BY <1>2, <2>1
  <2>3. RoundsFor(p, lap - 1) \in Nat
    BY <1>1, RoundsGrow
  <2>4. RoundsFor(p, lap) = RoundsFor(p, lap - 1)
            + (IF lap >= FirstRound(p) /\ Hours[lap] + Duration <= Horizon THEN 1 ELSE 0)
    BY <1>1, RoundsGrow
  <2> QED
    BY <2>2, <2>3, <2>4
<1>4. ~draining
  <2>1. ~(lap > 0 /\ Hours[lap] >= Horizon)
    BY <1>1, <1>3
  <2>2. draining = (lap > 0 /\ Hours[lap] >= Horizon)
    BY DEF Bound
  <2> QED
    BY <2>1, <2>2
<1>5. r.ready /\ r.lease # None
  <2>1. FirstRound(p) = 1 \/ Begun
    BY <1>1, <1>3 DEF FirstRound, Begun, Replanning, Select
  <2> QED
    BY <2>1 DEF Bound
<1>6. /\ Head(r.pending) \in Items /\ Head(r.pending).work.program = p
      /\ Head(r.pending).revision = r.revision /\ Head(r.pending).lease = r.lease
  <2>1. /\ r.pending \in Seq(Items) /\ Len(r.pending) > 0 /\ Len(r.pending) \in Nat
        /\ Head(r.pending) \in Items /\ Head(r.pending).work.program = p
    <3>1. Queued /\ p \in NightPrograms /\ launchRow[p].pending # <<>>
      BY <1>2 DEF NightInv
    <3>2. /\ Head(launchRow[p].pending) \in Items
          /\ Head(launchRow[p].pending).work
               = [program |-> p, attempt |-> Len(launchRow[p].done) + 1]
          /\ Len(launchRow[p].pending) > 0 /\ Len(launchRow[p].pending) \in Nat
          /\ launchRow[p].pending \in Seq(Items)
      BY <3>1, HeadIsNext, Zenon
    <3>3. Head(launchRow[p].pending).work.program = p
      BY <3>2
    <3> QED
      BY <3>2, <3>3
  <2>2. 1 \in 1..Len(r.pending) /\ Head(r.pending) = r.pending[1]
    BY <2>1
  <2>3. r.pending[1].revision = r.revision /\ r.pending[1].lease = r.lease
    BY <2>2 DEF Bound
  <2> QED
    BY <2>1, <2>2, <2>3
<1>7. p \in Selected
  BY <1>1, <1>2, <1>3, <1>4, <1>5, <1>6 DEF Selected, EligibleWork
<1>8. PICK order \in Injection(1..Cardinality(Selected), Selected) :
        decision' = [i \in DOMAIN order |-> Head(launchRow[order[i]].pending)]
  BY DEF Select
<1>9. IsFiniteSet(Selected) /\ Cardinality(Selected) \in Nat
  <2>1. Selected \subseteq NightPrograms
    BY DEF Selected
  <2> QED
    BY <2>1, SchedulerAssumption, FS_Subset, FS_CardinalityType
<1> DEFINE n == Cardinality(Selected)
<1>10. order \in Surjection(1..n, Selected)
  <2>1. Cardinality(1..n) = n
    BY <1>9, FS_Interval
  <2> QED
    BY <1>8, <1>9, <2>1, FS_Injection
<1>11. PICK i \in 1..n : order[i] = p
  BY <1>7, <1>10 DEF Surjection
<1>12. DOMAIN order = 1..n
  BY <1>10 DEF Surjection
<1>13. Len(decision') = n /\ decision'[i] = Head(r.pending)
  <2> HIDE DEF n
  <2>1. decision'[i] = Head(r.pending)
    BY <1>8, <1>11, <1>12
  <2>2. n \in Nat
    BY <1>9 DEF n
  <2>3. Len(decision') = n
    BY <1>8, <1>12, <2>2
  <2> QED
    BY <2>1, <2>3
<1> QED
  BY <1>6, <1>11, <1>13

\* Every round serves whom it can, though the driver dies in it.
LEMMA ServedStays ==
  ASSUME NightInv, NightInv', Bound, Remembered, Served, [SchedNext]_schedVars
  PROVE  Served'
<1> SUFFICES ASSUME NEW p \in NightPrograms \ (DeniedPrograms \cup Limited)
             PROVE  /\ launchRow'[p].until = 0
                    /\ Enough(p, Past)'
                    /\ phase' \in Underway =>
                         \/ Enough(p, lap)'
                         \/ \E i \in 1..Len(decision') : decision'[i].work.program = p
  BY DEF Served
<1> DEFINE Decides == \E i \in 1..Len(decision) : decision[i].work.program = p
<1>1. /\ launchRow[p].until = 0 /\ Enough(p, Past)
      /\ phase \in Underway => Enough(p, lap) \/ Decides
  BY DEF Served
<1>2. lap \in Nat /\ lap' \in Nat /\ Past \in Nat /\ (phase # "advance" => lap > 0 /\ lap - 1 \in Nat)
  BY DEF NightInv, Clocked, Past
<1>3. launchRow'[p].until = 0
  <2>1. CASE Complete
    BY <1>1, <2>1, CompletedRow
  <2>2. CASE Replan
    BY <1>1, <2>2, ReplannedRow DEF NightInv
  <2>3. CASE ~Complete /\ ~Replan
    <3>1. ~(RateLimit /\ p = launchOutcome.item.work.program)
      <4>1. ASSUME RateLimit PROVE launchOutcome.item.work.program \in Limited
        <5>1. phase = "limit"
          BY <4>1 DEF RateLimit
        <5>2. launchOutcome.retry # 0 /\ launchOutcome = runs[Len(runs)]
          BY <5>1 DEF NightInv, InHand
        <5>3. Len(runs) \in 1..Len(runs)
          BY <5>1, HandIsLast DEF NightInv
        <5> QED
          BY <5>2, <5>3 DEF Remembered
      <4> QED
        BY <4>1
    <3> QED
      BY <1>1, <2>3, <3>1, RowsStay DEF NightInv
  <2> QED
    BY <2>1, <2>2, <2>3
<1>4. \A n \in Nat : Enough(p, n) => Enough(p, n)'
  BY EnoughStays
<1>5. CASE Advance
  <2>1. Past' = Past /\ phase' \notin Underway
    BY <1>2, <1>5 DEF Advance, Past, Underway
  <2> QED
    BY <1>1, <1>2, <1>3, <1>4, <2>1 DEF Enough
<1>6. CASE Select
  <2>1. Past' = Past /\ lap' = lap
    BY <1>6 DEF Select, Past
  <2>2. Enough(p, lap) \/ \E i \in 1..Len(decision') : decision'[i].work.program = p
    BY <1>6, RoundServes
  <2> QED
    BY <1>1, <1>2, <1>3, <1>4, <2>1, <2>2 DEF Enough
<1>7. CASE EndRound
  <2>1. Past' = lap /\ phase' \notin Underway /\ ~Decides /\ phase \in Underway
    BY <1>7 DEF EndRound, Past, file, Underway
  <2>2. Enough(p, lap)
    BY <1>1, <2>1
  <2> QED
    BY <1>2, <1>3, <1>4, <2>1, <2>2 DEF Enough
<1>8. CASE Complete
  <2> DEFINE q == launchOutcome.item.work.program
             r == launchRow[q]
  <2>1. /\ phase' = "launch" /\ lap' = lap /\ Past' = Past /\ Past = lap - 1
        /\ phase \in Underway /\ lap > 0
    BY <1>2, <1>8, CompletedRow DEF Complete, Past, Underway
  <2>2. /\ q \in NightPrograms /\ launchOutcome.item = decision[1] /\ 1 \in 1..Len(decision)
        /\ decision' = Tail(decision) /\ decision \in Seq(Items)
        /\ r.pending # <<>> /\ r.done \in Seq(WorkIds) /\ launchOutcome.item.work \in WorkIds
        /\ launchRow'[q].done = Append(r.done, launchOutcome.item.work)
        /\ r.exhausted => launchRow'[q].exhausted
    BY <1>8, <2>1, CompletedRow DEF NightInv, Decided
  <2>3. CASE p = q
    <3>1. r.exhausted \/ Len(r.done) >= RoundsFor(p, lap - 1)
      BY <1>1, <2>1, <2>2, <2>3 DEF Enough
    <3>2. /\ RoundsFor(p, lap - 1) \in Nat /\ RoundsFor(p, lap) \in Nat
          /\ RoundsFor(p, lap) <= RoundsFor(p, lap - 1) + 1
      <4>1. lap \in Nat /\ lap - 1 \in Nat /\ lap > 0
        BY <1>2, <2>1
      <4>2. RoundsFor(p, lap - 1) \in Nat /\ RoundsFor(p, lap) \in Nat
        BY <4>1, RoundsGrow
      <4>3. RoundsFor(p, lap) = RoundsFor(p, lap - 1)
              + (IF lap >= FirstRound(p) /\ Hours[lap] + Duration <= Horizon THEN 1 ELSE 0)
        BY <4>1, RoundsGrow
      <4> QED
        BY <4>2, <4>3
    <3> HIDE DEF q, r
    <3>3. Len(r.done) \in Nat /\ Len(launchRow'[q].done) = Len(r.done) + 1
      <4>1. r.done \in Seq(WorkIds) /\ launchOutcome.item.work \in WorkIds
        BY <2>2
      <4>2. launchRow'[q].done = Append(r.done, launchOutcome.item.work)
        BY <2>2
      <4> QED
        BY <4>1, <4>2
    <3>4. Len(r.done) >= RoundsFor(p, lap - 1) => Len(launchRow'[q].done) >= RoundsFor(p, lap)
      BY <3>2, <3>3
    <3>5. Enough(p, lap)'
      BY <2>1, <2>2, <2>3, <3>1, <3>4 DEF Enough
    <3> QED
      BY <1>1, <1>2, <1>3, <1>4, <2>1, <3>5 DEF Enough
  <2>4. CASE p # q
    <3>1. ASSUME Decides PROVE \E i \in 1..Len(decision') : decision'[i].work.program = p
      <4>1. PICK i \in 1..Len(decision) : decision[i].work.program = p
        BY <3>1
      <4>2. i # 1
        BY <2>2, <2>4, <4>1
      <4>3. decision' = Tail(decision) /\ decision \in Seq(Items)
        BY <2>2
      <4>4. i - 1 \in 1..Len(decision') /\ decision'[i - 1] = decision[i]
        BY <4>1, <4>2, <4>3
      <4> QED
        BY <4>1, <4>4
    <3> QED
      BY <1>1, <1>2, <1>3, <1>4, <2>1, <3>1 DEF Enough
  <2> QED
    BY <2>3, <2>4
<1>9. CASE ~Advance /\ ~Select /\ ~EndRound /\ ~Complete
  <2>1. /\ Past' = Past /\ lap' = lap
        /\ phase' \in Underway => phase \in Underway /\ decision' = decision
    BY <1>9 DEF SchedNext, DriverStep, NightOver, schedVars, file, LaunchWork, Dead, LogAttempt,
                RateLimit, ReplaceLeases, Replan, ReopenDriver, Verify, DriverCrash, Past, Underway
  <2> QED
    BY <1>1, <1>2, <1>3, <1>4, <2>1 DEF Enough
<1> QED
  BY <1>5, <1>6, <1>7, <1>8, <1>9

\* What is in memory, in the file and in the report tell the same story.
NightStory == NightInv /\ Bound /\ Served /\ Remembered /\ Announced /\ Reported

\* A night begins that way, and no step departs from it.
LEMMA StoryStarts == SchedInit => NightStory
<1> SUFFICES ASSUME SchedInit PROVE NightStory
  OBVIOUS
<1>1. NightInv
  BY NightStarts
<1>2. ASSUME NEW p \in NightPrograms
      PROVE  LET r == launchRow[p]
             IN /\ \A i \in 1..Len(r.pending) :
                     r.pending[i].revision = r.revision /\ r.pending[i].lease = r.lease
                /\ Len(r.pending) = Attempts[p] /\ Len(r.done) = 0 /\ Attempts[p] \in Nat
                /\ p \notin DeniedPrograms /\ FirstRound(p) = 1 => r.ready /\ r.lease # None
                /\ r.until = 0
  <2> DEFINE s == [n \in 1..Attempts[p] |-> Item(Works(p)[n], 1, FirstLease(p))]
         first == p \notin DeniedPrograms \cup Offline \cup Revised
  <2>1. launchRow[p] = [ready |-> first,
                        revision |-> 1, lease |-> FirstLease(p), pending |-> s,
                        done |-> <<>>, until |-> 0, idle |-> 0, exhausted |-> FALSE,
                        last |-> 0]
    BY DEF SchedInit
  <2>2. Attempts[p] \in Nat
    BY SchedulerAssumption
  <2>3. Len(s) = Attempts[p] /\ \A n \in 1..Attempts[p] : s[n].revision = 1 /\ s[n].lease = FirstLease(p)
    BY <2>2 DEF Item
  <2>4. p \notin DeniedPrograms /\ FirstRound(p) = 1
          => p \notin DeniedPrograms \cup Offline \cup Revised /\ FirstLease(p) # None
    BY DEF FirstRound, FirstLease, None
  <2> HIDE DEF s, first
  <2>5. Len(<<>>) = 0
    OBVIOUS
  <2>6. /\ launchRow[p].revision = 1 /\ launchRow[p].lease = FirstLease(p)
        /\ launchRow[p].pending = s /\ launchRow[p].done = <<>> /\ launchRow[p].until = 0
    BY <2>1
  <2>7. p \notin DeniedPrograms \cup Offline \cup Revised => launchRow[p].ready
    <3>1. launchRow[p].ready = first
      BY <2>1
    <3> QED
      BY <3>1, Zenon DEF first
  <2> QED
    BY <2>2, <2>3, <2>4, <2>5, <2>6, <2>7
<1>3. Bound
  <2>1. lap = 0 /\ phase = "advance" /\ draining = FALSE
    BY DEF SchedInit
  <2>2. draining = (lap > 0 /\ Hours[lap] >= Horizon)
    <3>1. ~(lap > 0)
      BY <2>1
    <3> QED
      BY <2>1, <3>1, Zenon
  <2>3. \A n \in Nat : 0 + n = n
    OBVIOUS
  <2>4. ~Begun /\ ~Replanning
    BY <2>1 DEF Begun, Replanning
  <2> QED
    BY <1>2, <2>1, <2>2, <2>3, <2>4 DEF Bound
<1>4. Served
  <2>1. Past = 0 /\ phase \notin Underway
    BY DEF SchedInit, Past, Underway
  <2>2. \A p : RoundsFor(p, 0) = 0
    <3> TAKE p
    <3>1. {m \in FirstRound(p)..0 : Hours[m] + Duration <= Horizon} = {}
      BY DEF FirstRound
    <3> QED
      BY <3>1, FS_EmptySet DEF RoundsFor
  <2> QED
    BY <1>2, <2>1, <2>2 DEF Served, Enough
<1>5. Remembered
  <2>1. runs = <<>> /\ kept = <<>>
    BY DEF SchedInit
  <2>2. kept \in Seq(Launches) /\ 1..Len(kept) = {} /\ 1..Len(runs) = {}
    BY <2>1
  <2> QED
    BY <2>2 DEF Remembered
<1>6. Announced
  <2>1. nightEvents = <<>> /\ phase = "advance"
    BY DEF SchedInit
  <2>2. nightEvents \in Seq(NightEvents)
    BY <2>1
  <2> QED
    BY <1>2, <2>1, <2>2 DEF Announced
<1>7. Reported
  BY DEF SchedInit, Reported
<1> QED
  BY <1>1, <1>3, <1>4, <1>5, <1>6, <1>7 DEF NightStory

LEMMA StoryStep == NightStory /\ [SchedNext]_schedVars => NightStory'
<1> SUFFICES ASSUME NightStory, [SchedNext]_schedVars PROVE NightStory'
  OBVIOUS
<1>1. NightInv'
  BY NightStep DEF NightStory
<1> QED
  BY <1>1, BoundStays, ServedStays, RememberedStays, AnnouncedStays, ReportedStays DEF NightStory

\* When the report is written, who is called completed has left nothing behind.
LEMMA NothingLeft ==
  ASSUME NightStory, verdict = "reported",
         NEW p \in NightPrograms \ DeniedPrograms, ~launchRow[p].exhausted
  PROVE  launchRow[p].pending = <<>> /\ Len(launchRow[p].done) = Attempts[p]
<1> DEFINE r == launchRow[p]
<1>1. /\ phase = "done" /\ TraceVerified /\ lap = Len(Hours) /\ lap \in Nat
      /\ Len(r.done) + Len(r.pending) = Attempts[p]
  BY DEF NightStory, Reported, Bound, NightInv, Clocked
<1>2. /\ r.pending \in Seq(Items) /\ r.done \in Seq(WorkIds)
      /\ Len(r.pending) \in Nat /\ Len(r.done) \in Nat /\ Attempts[p] \in Nat
  BY SchedulerAssumption DEF NightStory, NightInv, Queued, LaunchRows
<1>3. Len(r.pending) = 0 \/ r.pending = <<>>
  <2>1. CASE p \notin Limited
    <3>1. r.pending = <<>> \/ Len(r.done) >= RoundsFor(p, lap)
      BY <1>1, <2>1 DEF NightStory, Served, Past, Enough
    <3>2. Attempts[p] <= RoundsFor(p, lap) /\ RoundsFor(p, lap) \in Nat
      BY <1>1, <2>1, ScriptAssumption, RoundsGrow
    <3>3. \A a, b, c, d \in Nat : a + b = c /\ c <= d /\ a >= d => b = 0
      OBVIOUS
    <3> HIDE DEF r
    <3> QED
      BY <1>1, <1>2, <3>1, <3>2, <3>3
  <2>2. CASE p \in Limited
    <3>1. PICK i, j \in Finished : /\ {n \in Finished : EventWork(n).program = p} = {i, j}
                                   /\ i < j
      BY <1>1, <2>2 DEF TraceVerified
    <3>2. EventWork(i) # EventWork(j) /\ EventWork(i).program = p /\ EventWork(j).program = p
      <4>1. i # j
        <5>1. i \in Int
          BY DEF Finished, EventsOf, NightStory, Announced
        <5> QED
          BY <3>1, <5>1
      <4> QED
        BY <1>1, <3>1, <4>1 DEF TraceVerified
    <3>3. \A e \in Finished : /\ EventWork(e) \in WorkIds
                              /\ EventWork(e).program = p => EventWork(e).attempt \in 1..Len(r.done)
      <4> TAKE e \in Finished
      <4>1. PICK k \in DOMAIN kept : EventWork(e) = kept[k].item.work
        BY <1>1 DEF TraceVerified
      <4>2. kept \in Seq(Launches) /\ k \in 1..Len(kept)
        BY <4>1 DEF NightStory, Remembered
      <4>3. kept[k] \in Launches
        BY <4>2, ElementOfSeq
      <4>4. kept[k].item.work \in WorkIds
        BY <4>3 DEF Launches, Items
      <4>5. /\ kept[k].item.work.attempt > 0 /\ kept[k].item.work.attempt \in Nat
            /\ kept[k].item.work.attempt <= Len(launchRow[kept[k].item.work.program].done)
        BY <1>1, <4>2, <4>4 DEF NightStory, Remembered, WorkIds
      <4> QED
        BY <1>2, <4>1, <4>4, <4>5
    <3>4. EventWork(i).attempt # EventWork(j).attempt
      BY <3>2, <3>3 DEF WorkIds
    <3>5. EventWork(i).attempt \in 1..Len(r.done) /\ EventWork(j).attempt \in 1..Len(r.done)
      BY <3>2, <3>3
    <3>6. Attempts[p] <= 2
      BY <2>2, ScriptAssumption
    <3>7. \A a, b, c \in Nat : \A x, y \in 1..a : (x # y /\ a + b = c /\ c <= 2) => b = 0
      OBVIOUS
    <3> HIDE DEF r
    <3> QED
      BY <1>1, <1>2, <3>4, <3>5, <3>6, <3>7
  <2> QED
    BY <2>1, <2>2
<1>4. r.pending = <<>>
  BY <1>2, <1>3, EmptySeq
<1>5. Len(r.pending) = 0
  BY <1>4
<1> QED
  BY <1>1, <1>2, <1>4, <1>5

\* And its last work ended with success.
LEMMA LastSucceeded ==
  ASSUME NightStory, verdict = "reported", NEW p \in NightPrograms,
         Len(launchRow[p].done) = Attempts[p],
         \A k \in LastKept(p) : kept[k].status = "completed",
         NEW i \in DOMAIN runs, runs[i].item.work.program = p,
         runs[i].item.work.attempt = Attempts[p]
  PROVE  runs[i].status = "completed"
<1>1. /\ phase = "done" /\ TraceVerified /\ runs \in Seq(Launches) /\ LaunchedOnce
      /\ kept \in Seq(Launches) /\ DOMAIN kept = 1..Len(kept) /\ DOMAIN runs = 1..Len(runs)
      /\ Attempts[p] \in Nat \ {0} /\ Len(kept) \in Nat
  BY SchedulerAssumption DEF NightStory, Reported, NightInv, Waited, Remembered
<1> DEFINE w == [program |-> p, attempt |-> Attempts[p]]
<1>2. runs[i].item.work = w
  <2>1. runs[i] \in Launches
    BY <1>1, ElementOfSeq
  <2> QED
    BY <2>1 DEF Launches, Items, WorkIds
<1>3. PICK e \in Finished : EventWork(e) = w
  BY <1>1 DEF NightStory, Announced
<1>4. PICK k \in DOMAIN kept : kept[k].item.work = w
  <2>1. {EventWork(x) : x \in Finished} = {kept[x].item.work : x \in DOMAIN kept}
    BY <1>1 DEF TraceVerified
  <2>2. w \in {EventWork(x) : x \in Finished}
    BY <1>3
  <2> HIDE DEF w
  <2> QED
    BY <2>1, <2>2
<1>5. kept[k] = runs[i]
  <2>1. PICK n \in 1..Len(runs) : kept[k] = runs[n]
    BY <1>1 DEF NightStory, Remembered
  <2> QED
    BY <1>1, <1>2, <1>4, <2>1 DEF LaunchedOnce
<1>6. k \in LastKept(p)
  <2>1. k \in KeptOf(p)
    BY <1>4 DEF KeptOf
  <2>2. ASSUME NEW j \in KeptOf(p), k < j PROVE FALSE
    <3>1. j \in 1..Len(kept) /\ k \in 1..Len(kept) /\ kept[j].item.work.program = p
          /\ kept[k].item.work.program = p /\ kept[k].item.work.attempt = Attempts[p]
      BY <1>1, <1>4 DEF KeptOf
    <3>2. kept[k].item.work.attempt < kept[j].item.work.attempt
      BY <2>2, <3>1 DEF NightStory, Remembered
    <3>3. kept[j].item.work.attempt <= Len(launchRow[p].done)
      BY <1>1, <3>1 DEF NightStory, Remembered
    <3>4. kept[j] \in Launches
      BY <1>1, <3>1, ElementOfSeq
    <3>5. kept[j].item.work.attempt \in Nat
      BY <3>4 DEF Launches, Items, WorkIds
    <3> QED
      BY <1>1, <3>1, <3>2, <3>3, <3>5
  <2>3. \A j \in KeptOf(p) : j \in Int
    BY <1>1 DEF KeptOf
  <2> QED
    BY <1>1, <2>1, <2>2, <2>3 DEF LastKept
<1> QED
  BY <1>5, <1>6

\* A program the report calls completed was launched to its last work, and that one ended
\* with success; a program the night left behind, or whose last work failed, is not called so.
THEOREM ReportsAreTrue == SchedSpec => []ReportTruthful
<1>1. NightStory => ReportTruthful
  <2> SUFFICES ASSUME NightStory, verdict = "reported", NEW p \in NightPrograms,
                      ReportedState(p) = "COMPLETED"
               PROVE  /\ launchRow[p].pending = <<>> /\ Len(launchRow[p].done) = Attempts[p]
                      /\ \A i \in DOMAIN runs : (/\ runs[i].item.work.program = p
                                                 /\ runs[i].item.work.attempt = Attempts[p])
                                                  => runs[i].status = "completed"
    BY DEF ReportTruthful
  <2>1. /\ p \notin DeniedPrograms /\ ~launchRow[p].exhausted
        /\ \A i \in LastKept(p) : kept[i].status = "completed"
    BY DEF ReportedState
  <2> QED
    BY <2>1, NothingLeft, LastSucceeded
<1> QED
  BY <1>1, StoryStarts, StoryStep, PTL DEF SchedSpec

\* In whatever step the driver dies and is reopened, no work is launched twice, a target that
\* limits is left alone as long as it asked for, and the report says what was launched.
THEOREM SchedulesAreKept == SchedSpec => []ScheduleKept
<1>1. LaunchedOnce /\ RateLimitedWaits /\ ReportTruthful => ScheduleKept
  BY DEF ScheduleKept
<1> QED
  BY <1>1, LaunchesOnce, LimitsAreKept, ReportsAreTrue, PTL
-----------------------------------------------------------------------------
(***************************************************************************)
(* The observing workers: what they share.                                 *)
(***************************************************************************)
\* The steps after a permit was consumed.
Slotting == {"slot", "lock", "locked", "unlock", "limited"}
Committed == Slotting \cup {"start", "secrets", "resolve", "open", "body", "write", "register",
                            "report"}
Task == [at : Committed \cup {"called", "admit", "raised", "done", "dead"},
         request : WorkerRequests, instant : Nat, left : Nat,
         outcome : {"", "dns", "connection", "tls", "response"}]

Employed == task \in [Workers -> Task] /\ time \in Nat

\* Stamps in the file are spaced, and each slot handed out is still a stamp of the file or
\* followed by one at least an interval later.
Slotted ==
  /\ stamps \subseteq Nat /\ granted \subseteq Workers \X Nat
  /\ \A s \in stamps, t \in stamps : s # t => s >= t + SlotGap \/ t >= s + SlotGap
  /\ \A g \in granted : \E s \in stamps : s = g[2] \/ s >= g[2] + SlotGap
  /\ SlotSpacing

\* What a step does to the worker that takes it.
LEMMA Proceeds ==
  ASSUME Employed, NEW w \in Workers, NEW at, GoesTo(w, at),
         at \in Committed \cup {"called", "admit", "raised", "done", "dead"}, time' \in Nat
  PROVE  /\ Employed'
         /\ \A v \in Workers : /\ task'[v].at = IF v = w THEN at ELSE task[v].at
                               /\ task'[v].request = task[v].request
<1> DEFINE t == [task[w] EXCEPT !.at = at]
<1>1. task[w] \in Task
  BY DEF Employed
<1>2. t \in Task /\ t.at = at /\ t.request = task[w].request
  BY <1>1 DEF Task
<1>3. task' = [task EXCEPT ![w] = t]
  BY DEF GoesTo
<1> HIDE DEF t
<1>4. /\ task' \in [Workers -> Task]
      /\ \A v \in Workers : task'[v] = IF v = w THEN t ELSE task[v]
  BY <1>2, <1>3 DEF Employed
<1>5. \A v \in Workers : task'[v].at = IF v = w THEN at ELSE task[v].at
  <2>1. task'[w].at = at
    BY <1>2, <1>4
  <2>2. \A v \in Workers \ {w} : task'[v].at = task[v].at
    BY <1>4
  <2> QED
    BY <2>1, <2>2
<1>6. \A v \in Workers : task'[v].request = task[v].request
  BY <1>2, <1>4
<1> QED
  BY <1>4, <1>5, <1>6 DEF Employed

\* The steps that change more of a worker than where it is.
LEMMA WorksOn ==
  ASSUME Employed, NEW w \in Workers,
         ReadClock(w) \/ ResolveEndpoint(w) \/ OpenAddress(w) \/ ReadBounded(w)
  PROVE  /\ Employed'
         /\ \A v \in Workers : /\ v # w => task'[v] = task[v]
                               /\ task'[v].request = task[v].request
         /\ task[w].at \in Committed \ {"report"}
         /\ task'[w].at \in (Committed \ {"report"}) \cup {"raised"}
<1>1. task[w] \in Task /\ time \in Nat /\ time' = time /\ task \in [Workers -> Task]
  BY DEF Employed, ReadClock, ResolveEndpoint, OpenAddress, ReadBounded
<1>2. ASSUME NEW t \in Task, t.request = task[w].request, task' = [task EXCEPT ![w] = t],
             t.at \in (Committed \ {"report"}) \cup {"raised"},
             task[w].at \in Committed \ {"report"}
      PROVE  /\ Employed'
             /\ \A v \in Workers : /\ v # w => task'[v] = task[v]
                                   /\ task'[v].request = task[v].request
             /\ task[w].at \in Committed \ {"report"}
             /\ task'[w].at \in (Committed \ {"report"}) \cup {"raised"}
  BY <1>1, <1>2 DEF Employed
<1>3. task[w].at \in Committed \ {"report"}
  BY DEF ReadClock, ResolveEndpoint, OpenAddress, ReadBounded, Committed, Slotting
<1>4. CASE ReadClock(w)
  <2> DEFINE t == [task[w] EXCEPT !.at = "lock", !.instant = time]
  <2>1. /\ t \in Task /\ t.request = task[w].request
        /\ t.at \in (Committed \ {"report"}) \cup {"raised"}
    BY <1>1 DEF Task, Committed, Slotting
  <2>2. task' = [task EXCEPT ![w] = t]
    BY <1>1, <1>4 DEF ReadClock
  <2> QED
    BY <1>2, <1>3, <2>1, <2>2
<1>5. ASSUME NEW kind \in {"dns", "connection", "tls", "response"}, Failing(w, kind)
      PROVE  \E t \in Task : /\ t.request = task[w].request /\ task' = [task EXCEPT ![w] = t]
                             /\ t.at \in (Committed \ {"report"}) \cup {"raised"}
  <2> DEFINE t == [task[w] EXCEPT !.at = "write", !.outcome = kind]
  <2>1. /\ t \in Task /\ t.request = task[w].request
        /\ t.at \in (Committed \ {"report"}) \cup {"raised"}
    BY <1>1 DEF Task, Committed, Slotting
  <2>2. task' = [task EXCEPT ![w] = t]
    BY <1>1, <1>5 DEF Failing
  <2> QED
    BY <2>1, <2>2
<1>6. ASSUME NEW at \in {"body", "raised"}, GoesTo(w, at)
      PROVE  \E t \in Task : /\ t.request = task[w].request /\ task' = [task EXCEPT ![w] = t]
                             /\ t.at \in (Committed \ {"report"}) \cup {"raised"}
  <2> DEFINE t == [task[w] EXCEPT !.at = at]
  <2>1. /\ t \in Task /\ t.request = task[w].request
        /\ t.at \in (Committed \ {"report"}) \cup {"raised"}
    BY <1>1 DEF Task, Committed, Slotting
  <2>2. task' = [task EXCEPT ![w] = t]
    BY <1>6 DEF GoesTo
  <2> QED
    BY <2>1, <2>2
<1>7. CASE ResolveEndpoint(w)
  <2>1. CASE Failing(w, "dns")
    BY <1>2, <1>3, <1>5, <2>1
  <2>2. CASE task' = [task EXCEPT ![w].at = "open", ![w].left = Addresses]
    <3> DEFINE t == [task[w] EXCEPT !.at = "open", !.left = Addresses]
    <3>1. /\ t \in Task /\ t.request = task[w].request
          /\ t.at \in (Committed \ {"report"}) \cup {"raised"}
      BY <1>1, RateAssumption DEF Task, Committed, Slotting
    <3>2. task' = [task EXCEPT ![w] = t]
      BY <1>1, <2>2
    <3> QED
      BY <1>2, <1>3, <3>1, <3>2
  <2> QED
    BY <1>7, <2>1, <2>2 DEF ResolveEndpoint
<1>8. CASE OpenAddress(w)
  <2>1. CASE \E kind \in {"connection", "tls"} : Failing(w, kind)
    BY <1>2, <1>3, <1>5, <2>1
  <2>2. CASE task[w].left # 0 /\ task' = [task EXCEPT ![w].left = @ - 1]
    <3> DEFINE t == [task[w] EXCEPT !.left = @ - 1]
    <3>4. task[w].left \in Nat
      BY <1>1 DEF Task
    <3>0. task[w].left - 1 \in Nat
      BY <2>2, <3>4
    <3>1. /\ t \in Task /\ t.request = task[w].request /\ t.at = task[w].at
      BY <1>1, <3>0 DEF Task
    <3>2. task' = [task EXCEPT ![w] = t]
      BY <1>1, <2>2
    <3> QED
      BY <1>2, <1>3, <3>1, <3>2
  <2>3. CASE GoesTo(w, "body")
    BY <1>2, <1>3, <1>6, <2>3
  <2> QED
    BY <1>8, <2>1, <2>2, <2>3 DEF OpenAddress
<1>9. CASE ReadBounded(w)
  <2>1. CASE task' = [task EXCEPT ![w].at = "write", ![w].outcome = "response"]
    BY <1>2, <1>3, <1>5, <2>1 DEF Failing
  <2>2. CASE GoesTo(w, "raised")
    BY <1>2, <1>3, <1>6, <2>2
  <2> QED
    BY <1>9, <2>1, <2>2 DEF ReadBounded
<1> QED
  BY <1>4, <1>7, <1>8, <1>9

\* A slot: the recent stamps are at least an interval old, the others at least a second; and
\* those that leave the file are at least as much older than one that stays.
LEMMA SlotTaken ==
  ASSUME Employed, Slotted, NEW w \in Workers, AcquireRateSlot(w)
  PROVE  Slotted'
<1> DEFINE instant == task[w].instant
           recent == Recent(instant)
           free == RoomAfter(recent, instant)
<1>1. instant \in Nat
  BY DEF Employed, Task
<1>2. stamps' = IF free THEN recent \cup {instant} ELSE recent
  BY DEF AcquireRateSlot
<1>3. granted' = IF free THEN granted \cup {<<w, instant>>} ELSE granted
  BY DEF AcquireRateSlot
<1>4. /\ recent \subseteq stamps /\ recent \subseteq Nat
      /\ \A s \in stamps \ recent : s + Second <= instant
      /\ \A s \in recent : s + Second > instant
  <2>1. recent = {s \in stamps : s + Second > instant} /\ stamps \subseteq Nat
    BY DEF Recent, Slotted
  <2>2. Second \in Nat
    BY RateAssumption
  <2> HIDE DEF instant, recent, free
  <2>3. ASSUME NEW s \in stamps \ recent PROVE s + Second <= instant
    <3>1. s \in Nat /\ ~(s + Second > instant)
      BY <2>1
    <3> QED
      BY <1>1, <2>2, <3>1
  <2>4. recent \subseteq stamps /\ recent \subseteq Nat /\ \A s \in recent : s + Second > instant
    BY <2>1
  <2> QED
    BY <2>3, <2>4
<1>5. free <=> \A s \in recent : instant >= s + RateInterval
  BY DEF RoomAfter
<1> HIDE DEF instant, recent, free
<1>6. /\ RateInterval \in Nat \ {0} /\ Second \in Nat
      /\ SlotGap \in Nat \ {0} /\ SlotGap <= RateInterval /\ SlotGap <= Second
  BY RateAssumption DEF SlotGap
<1>7. CASE free
  <2>1. \A s \in stamps : instant >= s + SlotGap
    BY <1>1, <1>4, <1>5, <1>6, <1>7 DEF Slotted
  <2>2. \A g \in granted : instant >= g[2] + SlotGap
    BY <1>1, <1>6, <2>1 DEF Slotted
  <2>3. stamps' = recent \cup {instant} /\ granted' = granted \cup {<<w, instant>>}
    BY <1>2, <1>3, <1>7
  <2>4. stamps' \subseteq Nat /\ granted' \subseteq Workers \X Nat
    BY <1>1, <1>4, <2>3 DEF Slotted
  <2>5. \A s \in stamps', t \in stamps' : s # t => s >= t + SlotGap \/ t >= s + SlotGap
    BY <1>4, <2>1, <2>3 DEF Slotted
  <2>6. \A g \in granted' : \E s \in stamps' : s = g[2] \/ s >= g[2] + SlotGap
    BY <2>2, <2>3
  <2>7. SlotSpacing'
    BY <2>2, <2>3 DEF Slotted, SlotSpacing
  <2> QED
    BY <2>4, <2>5, <2>6, <2>7 DEF Slotted
<1>8. CASE ~free
  <2>1. PICK last \in recent : TRUE
    BY <1>5, <1>8
  <2>2. \A s \in stamps \ recent : last >= s + SlotGap
    <3>1. ASSUME NEW s \in stamps \ recent PROVE last >= s + SlotGap
      <4>1. s + Second <= instant /\ last + Second > instant /\ s \in Nat /\ last \in Nat
        BY <1>4, <2>1 DEF Slotted
      <4>2. s # last /\ (last >= s + SlotGap \/ s >= last + SlotGap)
        BY <1>4, <2>1, <3>1 DEF Slotted
      <4> QED
        BY <1>1, <1>6, <4>1, <4>2
    <3> QED
      BY <3>1
  <2>3. stamps' = recent /\ granted' = granted
    BY <1>2, <1>3, <1>8
  <2>4. ASSUME NEW g \in granted
        PROVE  \E s \in recent : s = g[2] \/ s >= g[2] + SlotGap
    <3>1. PICK s \in stamps : s = g[2] \/ s >= g[2] + SlotGap
      BY DEF Slotted
    <3>2. g[2] \in Nat /\ s \in Nat /\ last \in Nat
      BY <1>4, <2>1 DEF Slotted
    <3> QED
      BY <1>6, <2>1, <2>2, <3>1, <3>2
  <2> QED
    BY <1>4, <2>3, <2>4 DEF Slotted, SlotSpacing
<1> QED
  BY <1>7, <1>8
-----------------------------------------------------------------------------
\* Past the admission, where every step is taken with the permit that was spent there.
InWork(w) == task[w].at \in Committed
Holds(w) == InWork(w) \/ wire[w] > 0
Unfiled == {"register", "dead"}
Paths == {r.path : r \in WorkerRequests}

\* Who is past the admission, or was and sent a request, has a permit that is spent and that
\* nobody else like it has.
Admitted ==
  /\ \A w \in Workers : Holds(w) => Request(w).permit \in spent[Request(w).store]
  /\ \A w, v \in Workers : Holds(w) /\ Holds(v) /\ w # v =>
       Request(w).permit # Request(v).permit \/ Request(w).store # Request(v).store

\* An evidence file is what some process with that path wrote, and is registered as it is
\* unless that process has yet to do so, or died.
WrittenBy(v, path) ==
  /\ \E outcome : artifact[path] = <<v, outcome>>
  /\ Request(v).path = path
  /\ <<path, artifact[path]>> \in registered \/ task[v].at \in Unfiled
Filed == \A path \in Paths : artifact[path] = "absent" \/ \E v \in Workers : WrittenBy(v, path)

Stores ==
  /\ \E P : spent \in [{"db", "file"} -> SUBSET P]
  /\ \E S : artifact \in [Paths -> S]
  /\ wire \in [Workers -> Nat]
KeptApart == Employed /\ Stores /\ Admitted /\ Filed

\* Whoever goes on with what it was let through for, or ends, and writes no evidence.
LEMMA Continues ==
  ASSUME KeptApart, Employed', UNCHANGED <<spent, artifact, registered>>,
         wire' \in [Workers -> Nat],
         \A v \in Workers :
           /\ task'[v].request = task[v].request
           /\ Holds(v)' => Holds(v)
           /\ task[v].at \in Unfiled => task'[v].at \in Unfiled
  PROVE  KeptApart'
<1>1. Stores'
  BY DEF KeptApart, Stores
<1>2. \A v \in Workers : Request(v)' = Request(v)
  BY DEF Request
<1>3. Admitted'
  BY <1>2 DEF KeptApart, Admitted
<1>4. \A v \in Workers, path \in Paths : WrittenBy(v, path) => WrittenBy(v, path)'
  BY <1>2 DEF WrittenBy
<1>5. Filed'
  BY <1>4 DEF KeptApart, Filed
<1> QED
  BY <1>1, <1>3, <1>5 DEF KeptApart

\* A permit that was not spent: nobody at work has it, nor has anybody who was.
LEMMA Commits ==
  ASSUME KeptApart, NEW w \in Workers, NEW at \in Committed \ Unfiled, GoesTo(w, at),
         UNCHANGED <<time, artifact, registered, wire>>,
         task[w].at = "admit", Request(w).permit \notin spent[Request(w).store],
         Spend(Request(w)), Request(w).store \in {"db", "file"}
  PROVE  KeptApart'
<1>1. /\ Employed'
      /\ \A v \in Workers : /\ task'[v].at = IF v = w THEN at ELSE task[v].at
                            /\ task'[v].request = task[v].request
  BY Proceeds DEF KeptApart, Employed
<1> DEFINE permit == Request(w).permit
           store == Request(w).store
<1>2. /\ \A s \in {"db", "file"} : spent'[s] = IF s = store THEN spent[s] \cup {permit} ELSE spent[s]
      /\ \E P : spent' \in [{"db", "file"} -> SUBSET P]
  <2>1. PICK P : spent \in [{"db", "file"} -> SUBSET P]
    BY DEF KeptApart, Stores
  <2> DEFINE Q == P \cup {permit}
  <2>2. spent' = [spent EXCEPT ![store] = @ \cup {permit}]
    BY DEF Spend
  <2> HIDE DEF permit, store
  <2>3. store \in {"db", "file"}
    BY DEF store
  <2>4. /\ \A s \in {"db", "file"} : spent'[s] = IF s = store THEN spent[s] \cup {permit} ELSE spent[s]
        /\ spent' \in [{"db", "file"} -> SUBSET Q]
    BY <2>1, <2>2, <2>3
  <2> QED
    BY <2>4
<1>3. \A r \in WorkerRequests : r.store \in {"db", "file"}
  BY WorkerRequestsAssumption
<1>4. \A v \in Workers : /\ Request(v)' = Request(v) /\ Request(v) \in WorkerRequests
                         /\ v # w => (Holds(v)' <=> Holds(v)) /\ task'[v].at = task[v].at
  BY <1>1 DEF Request, InWork, Holds, KeptApart, Employed, Task
<1>5. \A r \in WorkerRequests : r.permit \in spent[r.store] => r.permit \in spent'[r.store]
  BY <1>2, <1>3
<1>6. permit \in spent'[store]
  BY <1>2
<1>7. Admitted'
  <2>1. \A v \in Workers : Holds(v)' => Request(v)'.permit \in spent'[Request(v)'.store]
    BY <1>4, <1>5, <1>6 DEF KeptApart, Admitted
  <2>2. \A v \in Workers : Holds(v) /\ v # w => Request(v).permit # permit \/ Request(v).store # store
    BY DEF KeptApart, Admitted
  <2>3. \A u, v \in Workers : Holds(u)' /\ Holds(v)' /\ u # v =>
          Request(u)'.permit # Request(v)'.permit \/ Request(u)'.store # Request(v)'.store
    BY <1>4, <2>2 DEF KeptApart, Admitted
  <2> QED
    BY <2>1, <2>3 DEF Admitted
<1>8. \A v \in Workers, path \in Paths : WrittenBy(v, path) => WrittenBy(v, path)'
  <2>1. task[w].at \notin Unfiled
    BY DEF Unfiled
  <2> QED
    BY <1>4, <2>1 DEF WrittenBy
<1>9. Filed'
  BY <1>8 DEF KeptApart, Filed
<1>10. Stores'
  BY <1>2 DEF KeptApart, Stores
<1> QED
  BY <1>1, <1>7, <1>9, <1>10 DEF KeptApart

\* Whoever writes a file has yet to register it; the other files are as they were.
LEMMA Writes ==
  ASSUME KeptApart, NEW w \in Workers, WriteArtifact(w)
  PROVE  KeptApart'
<1>1. /\ Employed'
      /\ \A v \in Workers : /\ task'[v].at = IF v = w THEN "register" ELSE task[v].at
                            /\ task'[v].request = task[v].request
  <2>1. GoesTo(w, "register") /\ time' = time
    BY DEF WriteArtifact
  <2>2. "register" \in Committed
    BY DEF Committed
  <2> QED
    BY <2>1, <2>2, Proceeds DEF KeptApart, Employed
<1>2. UNCHANGED <<spent, registered, wire>>
  BY DEF WriteArtifact
<1>3. \A v \in Workers : /\ Request(v)' = Request(v) /\ Request(v) \in WorkerRequests
                         /\ Holds(v)' => Holds(v)
                         /\ task[v].at \in Unfiled => task'[v].at \in Unfiled
  BY <1>1, <1>2 DEF Request, Holds, InWork, KeptApart, Employed, Task, WriteArtifact, Committed,
     Unfiled
<1> DEFINE own == Request(w).path
           content == <<w, task[w].outcome>>
<1>4. /\ own \in Paths /\ artifact'[own] = content
      /\ \A path \in Paths \ {own} : artifact'[path] = artifact[path]
      /\ \E S : artifact' \in [Paths -> S]
  <2>1. PICK S : artifact \in [Paths -> S]
    BY DEF KeptApart, Stores
  <2>2. own \in Paths
    BY <1>3 DEF Paths
  <2>3. artifact' = [artifact EXCEPT ![own] = content]
    BY DEF WriteArtifact
  <2> DEFINE T == S \cup {content}
  <2> HIDE DEF own, content
  <2>4. /\ artifact' \in [Paths -> T] /\ artifact'[own] = content
        /\ \A x \in Paths \ {own} : artifact'[x] = artifact[x]
    BY <2>1, <2>2, <2>3
  <2> QED
    BY <2>2, <2>4
<1>5. Admitted' /\ Stores'
  BY <1>2, <1>3, <1>4 DEF KeptApart, Admitted, Stores
<1>6. \A path \in Paths : path = own => WrittenBy(w, path)'
  BY <1>1, <1>3, <1>4 DEF WrittenBy, Unfiled
<1>7. \A v \in Workers : \A path \in Paths \ {own} : WrittenBy(v, path) => WrittenBy(v, path)'
  BY <1>2, <1>3, <1>4 DEF WrittenBy
<1> HIDE DEF own, content
<1>8. ASSUME NEW path \in Paths, artifact'[path] # "absent"
      PROVE  \E v \in Workers : WrittenBy(v, path)'
  <2>1. CASE path = own
    BY <1>6, <2>1
  <2>2. CASE path # own
    <3>1. PICK v \in Workers : WrittenBy(v, path)
      BY <1>4, <1>8, <2>2 DEF KeptApart, Filed
    <3> QED
      BY <1>7, <2>2, <3>1
  <2> QED
    BY <2>1, <2>2
<1>9. Filed'
  BY <1>8 DEF Filed
<1> QED
  BY <1>1, <1>5, <1>9 DEF KeptApart

\* What is registered is the file as it is by then, whoever wrote it.
LEMMA Registers ==
  ASSUME KeptApart, NEW w \in Workers, RegisterArtifact(w)
  PROVE  KeptApart'
<1>1. /\ Employed'
      /\ \A v \in Workers : /\ task'[v].at = IF v = w THEN "report" ELSE task[v].at
                            /\ task'[v].request = task[v].request
  <2>1. GoesTo(w, "report") /\ time' = time
    BY DEF RegisterArtifact
  <2>2. "report" \in Committed
    BY DEF Committed
  <2> QED
    BY <2>1, <2>2, Proceeds DEF KeptApart, Employed
<1> DEFINE own == Request(w).path
<1>2. /\ UNCHANGED <<spent, artifact, wire>>
      /\ registered' = registered \cup {<<own, artifact[own]>>}
  BY DEF RegisterArtifact
<1>3. \A v \in Workers : /\ Request(v)' = Request(v)
                         /\ Holds(v)' => Holds(v)
                         /\ v # w => task'[v].at = task[v].at
  BY <1>1, <1>2 DEF Request, Holds, InWork, RegisterArtifact, Committed
<1>4. Admitted' /\ Stores'
  BY <1>2, <1>3 DEF KeptApart, Admitted, Stores
<1>5. ASSUME NEW v \in Workers, NEW path \in Paths, WrittenBy(v, path)
      PROVE  WrittenBy(v, path)'
  <2>1. CASE path = own
    BY <1>2, <1>3, <1>5, <2>1 DEF WrittenBy
  <2>2. CASE path # own
    <3>1. v # w
      BY <1>5, <2>2 DEF WrittenBy
    <3> QED
      BY <1>2, <1>3, <1>5, <3>1 DEF WrittenBy
  <2> QED
    BY <2>1, <2>2
<1>6. Filed'
  BY <1>2, <1>5 DEF KeptApart, Filed
<1> QED
  BY <1>1, <1>4, <1>6 DEF KeptApart

\* A worker that only moves: on in its work, out of it, or up to the admission.
LEMMA MovesOn ==
  ASSUME KeptApart, NEW w \in Workers, NEW at, GoesTo(w, at),
         UNCHANGED <<time, spent, artifact, registered, wire>>,
         at \in Committed \cup {"called", "admit", "raised", "done", "dead"},
         at \in Committed => InWork(w),
         task[w].at \in Unfiled => at \in Unfiled
  PROVE  KeptApart'
<1>1. /\ Employed'
      /\ \A v \in Workers : /\ task'[v].at = IF v = w THEN at ELSE task[v].at
                            /\ task'[v].request = task[v].request
  BY Proceeds DEF KeptApart, Employed
<1>2. \A v \in Workers :
        /\ task'[v].request = task[v].request
        /\ Holds(v)' => Holds(v)
        /\ task[v].at \in Unfiled => task'[v].at \in Unfiled
  BY <1>1 DEF Holds, InWork
<1>3. wire' \in [Workers -> Nat]
  BY DEF KeptApart, Stores
<1> QED
  BY <1>1, <1>2, <1>3, Continues

\* The steps of a worker before and in the admission.
LEMMA Admits ==
  ASSUME KeptApart, NEW w \in Workers,
         \/ ObserveHttp(w) \/ ObserveAuthenticatedHttp(w) \/ CtfObserveHttp(w)
         \/ AdmitRuntime(w) \/ ConsumeFile(w)
  PROVE  KeptApart'
<1>1. {"start", "slot"} \subseteq Committed \ Unfiled
  BY DEF Committed, Slotting, Unfiled
<1>2. "raised" \notin Committed /\ "admit" \notin Committed /\ "called" \notin Unfiled
      /\ "admit" \notin Unfiled
  BY DEF Committed, Slotting, Unfiled
<1>3. ASSUME \E accepted : Called(w, accepted) PROVE KeptApart'
  <2>1. UNCHANGED <<time, spent, artifact, registered, wire>> /\ task[w].at = "called"
    BY <1>3 DEF Called
  <2>2. GoesTo(w, "admit") \/ GoesTo(w, "raised")
    BY <1>3 DEF Called
  <2> QED
    BY <1>2, <2>1, <2>2, MovesOn
<1>4. CASE ObserveHttp(w) \/ ObserveAuthenticatedHttp(w) \/ CtfObserveHttp(w)
  BY <1>3, <1>4 DEF ObserveHttp, ObserveAuthenticatedHttp, CtfObserveHttp
<1>5. ASSUME task[w].at = "admit", UNCHANGED <<time, artifact, registered, wire>>,
             Request(w).store \in {"db", "file"},
             \/ /\ Request(w).permit \notin spent[Request(w).store] /\ Spend(Request(w))
                /\ \E at \in {"start", "slot"} : GoesTo(w, at)
             \/ spent' = spent /\ GoesTo(w, "raised")
      PROVE  KeptApart'
  <2>1. CASE spent' = spent /\ GoesTo(w, "raised")
    BY <1>2, <1>5, <2>1, MovesOn
  <2>2. CASE /\ Request(w).permit \notin spent[Request(w).store] /\ Spend(Request(w))
             /\ \E at \in {"start", "slot"} : GoesTo(w, at)
    <3>1. PICK at \in {"start", "slot"} : GoesTo(w, at)
      BY <2>2
    <3> QED
      BY <1>1, <1>5, <2>2, <3>1, Commits
  <2> QED
    BY <1>5, <2>1, <2>2
<1>6. CASE AdmitRuntime(w)
  BY <1>5, <1>6 DEF AdmitRuntime
<1>7. CASE ConsumeFile(w)
  BY <1>5, <1>7 DEF ConsumeFile
<1> QED
  BY <1>4, <1>6, <1>7

\* The steps of a worker past the admission.
LEMMA GoesOn ==
  ASSUME KeptApart, NEW w \in Workers,
         \/ TakeLock(w) \/ AcquireRateSlot(w) \/ Unlock(w) \/ Start(w) \/ ResolveSecrets(w)
         \/ ReportObservation(w) \/ Die(w)
  PROVE  KeptApart'
<1>1. UNCHANGED <<time, spent, artifact, registered, wire>>
  BY DEF TakeLock, AcquireRateSlot, Unlock, Start, ResolveSecrets, ReportObservation, Die
<1> DEFINE Going == {"locked", "unlock", "limited", "start", "secrets", "resolve"}
<1>2. \A at \in {"raised", "done", "dead"} : at \notin Committed
  BY DEF Committed, Slotting
<1>3. Going \subseteq Committed
  BY DEF Committed, Slotting
<1>4. CASE Die(w)
  <2>1. GoesTo(w, "dead") /\ "dead" \in Unfiled
    BY <1>4 DEF Die, Unfiled
  <2> QED
    BY <1>1, <1>2, <2>1, MovesOn
<1>5. CASE task[w].at \notin Unfiled /\ \E at \in {"raised", "done"} : GoesTo(w, at)
  BY <1>1, <1>2, <1>5, MovesOn
<1>6. CASE InWork(w) /\ task[w].at \notin Unfiled /\ \E at \in Going : GoesTo(w, at)
  BY <1>1, <1>3, <1>6, MovesOn
<1>7. CASE TakeLock(w)
  BY <1>5, <1>6, <1>7 DEF TakeLock, InWork, Committed, Slotting, Unfiled
<1>8. CASE AcquireRateSlot(w)
  BY <1>6, <1>8 DEF AcquireRateSlot, InWork, Committed, Slotting, Unfiled
<1>9. CASE Unlock(w)
  BY <1>5, <1>6, <1>9 DEF Unlock, InWork, Committed, Slotting, Unfiled
<1>10. CASE Start(w)
  BY <1>6, <1>10 DEF Start, InWork, Committed, Unfiled
<1>11. CASE ResolveSecrets(w)
  BY <1>5, <1>6, <1>11 DEF ResolveSecrets, InWork, Committed, Unfiled
<1>12. CASE ReportObservation(w)
  BY <1>5, <1>12 DEF ReportObservation, Unfiled
<1> QED
  BY <1>4, <1>7, <1>8, <1>9, <1>10, <1>11, <1>12

\* The steps that change more of a worker than where it is move it the same way.
LEMMA WorksApart ==
  ASSUME KeptApart, NEW w \in Workers,
         ReadClock(w) \/ ResolveEndpoint(w) \/ OpenAddress(w) \/ ReadBounded(w)
  PROVE  KeptApart'
<1>1. UNCHANGED <<spent, artifact, registered>>
  BY DEF ReadClock, ResolveEndpoint, OpenAddress, ReadBounded
<1>2. /\ Employed'
      /\ \A v \in Workers : /\ v # w => task'[v] = task[v]
                            /\ task'[v].request = task[v].request
      /\ task[w].at \in Committed \ {"report"}
      /\ task'[w].at \in (Committed \ {"report"}) \cup {"raised"}
  BY WorksOn DEF KeptApart
<1>3. task[w].at \notin Unfiled
  BY DEF ReadClock, ResolveEndpoint, OpenAddress, ReadBounded, Unfiled
<1>4. wire' \in [Workers -> Nat] /\ \A v \in Workers \ {w} : wire'[v] = wire[v]
  <2>1. wire' \in {wire, [wire EXCEPT ![w] = @ + 1]}
    BY DEF ReadClock, ResolveEndpoint, OpenAddress, ReadBounded
  <2>2. wire \in [Workers -> Nat]
    BY DEF KeptApart, Stores
  <2>3. wire[w] + 1 \in Nat
    BY <2>2
  <2> QED
    BY <2>1, <2>2, <2>3
<1>5. \A v \in Workers :
        /\ task'[v].request = task[v].request
        /\ Holds(v)' => Holds(v)
        /\ task[v].at \in Unfiled => task'[v].at \in Unfiled
  BY <1>2, <1>3, <1>4 DEF Holds, InWork
<1> QED
  BY <1>1, <1>2, <1>4, <1>5, Continues

LEMMA WorkersStart == WorkersInit => KeptApart /\ Slotted
<1> SUFFICES ASSUME WorkersInit PROVE KeptApart /\ Slotted
  OBVIOUS
<1>1. Employed
  <2>1. task \in [Workers -> [at : {"called"}, request : WorkerRequests, instant : {0},
                              left : {0}, outcome : {""}]]
    BY DEF WorkersInit
  <2>2. time = 0
    BY DEF WorkersInit
  <2> DEFINE called == "called"
             none == ""
             Places == Committed \cup {"called", "admit", "raised", "done", "dead"}
             Outcomes == {"", "dns", "connection", "tls", "response"}
  <2>3. called \in Places /\ none \in Outcomes
    OBVIOUS
  <2>4. Task = [at : Places, request : WorkerRequests, instant : Nat, left : Nat,
                outcome : Outcomes]
    BY DEF Task
  <2>5. ASSUME NEW w \in Workers PROVE task[w] \in Task
    <3>1. PICK r \in WorkerRequests :
            task[w] = [at |-> called, request |-> r, instant |-> 0, left |-> 0, outcome |-> none]
      BY <2>1
    <3> HIDE DEF called, none, Places, Outcomes
    <3> QED
      BY <2>3, <2>4, <3>1
  <2>6. task \in [Workers -> Task]
    BY <2>1, <2>5
  <2> QED
    BY <2>2, <2>6 DEF Employed
<1>2. \A w \in Workers : task[w].at = "called"
  BY DEF WorkersInit
<1>3. Stores
  <2>1. spent = [s \in {"db", "file"} |-> {}]
    BY DEF WorkersInit
  <2>2. spent \in [{"db", "file"} -> SUBSET {}]
    BY <2>1
  <2>3. artifact = [path \in Paths |-> "absent"]
    BY DEF WorkersInit, Paths
  <2>4. artifact \in [Paths -> {"absent"}]
    BY <2>3
  <2>5. wire = [w \in Workers |-> 0]
    BY DEF WorkersInit
  <2> QED
    BY <2>2, <2>4, <2>5 DEF Stores
<1>4. Admitted
  <2>1. \A w \in Workers : wire[w] = 0
    BY DEF WorkersInit
  <2> QED
    BY <1>2, <2>1 DEF Admitted, Holds, InWork, Committed, Slotting
<1>5. Filed
  BY DEF WorkersInit, Filed, Paths
<1>6. Slotted
  BY DEF WorkersInit, Slotted, SlotSpacing
<1> QED
  BY <1>1, <1>3, <1>4, <1>5, <1>6 DEF KeptApart

LEMMA ApartStep ==
  ASSUME KeptApart, [WorkersNext]_observationVars
  PROVE  KeptApart'
<1>1. CASE Tock \/ UNCHANGED observationVars
  <2>1. UNCHANGED <<task, spent, artifact, registered, wire>> /\ time' \in Nat
    BY <1>1 DEF Tock, observationVars, KeptApart, Employed
  <2>2. Employed' /\ wire' \in [Workers -> Nat]
    BY <2>1 DEF KeptApart, Employed, Stores
  <2>3. \A v \in Workers :
          /\ task'[v].request = task[v].request
          /\ Holds(v)' => Holds(v)
          /\ task[v].at \in Unfiled => task'[v].at \in Unfiled
    BY <2>1 DEF Holds, InWork
  <2> QED
    BY <2>1, <2>2, <2>3, Continues
<1>2. ASSUME NEW w \in Workers, Observing(w) \/ Die(w) PROVE KeptApart'
  BY <1>2, Admits, GoesOn, WorksApart, Writes, Registers DEF Observing
<1> QED
  BY <1>1, <1>2 DEF WorkersNext

LEMMA SlottedStep ==
  ASSUME Employed, Slotted, [WorkersNext]_observationVars
  PROVE  Slotted'
<1>1. CASE \E w \in Workers : AcquireRateSlot(w)
  BY <1>1, SlotTaken
<1>2. CASE UNCHANGED <<stamps, granted>>
  BY <1>2 DEF Slotted, SlotSpacing
<1>3. ASSUME NEW w \in Workers, Observing(w), ~AcquireRateSlot(w)
      PROVE  UNCHANGED <<stamps, granted>>
  BY <1>3 DEF Observing, ObserveHttp, ObserveAuthenticatedHttp, CtfObserveHttp, Called,
     AdmitRuntime, ConsumeFile, ReadClock, TakeLock, Unlock, Start, ResolveSecrets,
     ResolveEndpoint, OpenAddress, ReadBounded, WriteArtifact, RegisterArtifact,
     ReportObservation
<1> QED
  BY <1>1, <1>2, <1>3 DEF WorkersNext, Tock, Die, observationVars

\* Whichever processes observe next to each other, wait for the lock or die holding it, and
\* whichever files they share: two slots of the rate-state file are the interval apart, or
\* the second the file looks back; a permit puts one process on the wire; and an evidence
\* file is registered as it is, unless who wrote it last has yet to do so or died.
THEOREM SharedFilesAreSafe == WorkersSpec => []SharedFilesHold
<1> DEFINE Shared == KeptApart /\ Slotted
<1>1. WorkersInit => Shared
  BY WorkersStart
<1>2. Shared /\ [WorkersNext]_observationVars => Shared'
  BY ApartStep, SlottedStep DEF KeptApart
<1>3. KeptApart => OneProcessPerPermit
  BY DEF KeptApart, Admitted, Holds, OneProcessPerPermit
<1>4. KeptApart => EvidenceRegistered
  <2> SUFFICES ASSUME KeptApart, NEW path \in DOMAIN artifact, artifact[path] # "absent"
               PROVE  \/ <<path, artifact[path]>> \in registered
                      \/ task[artifact[path][1]].at \in {"register", "dead"}
    BY DEF EvidenceRegistered
  <2>1. path \in Paths
    BY DEF KeptApart, Stores
  <2>2. PICK v \in Workers : WrittenBy(v, path)
    BY <2>1 DEF KeptApart, Filed
  <2> QED
    BY <2>2 DEF WrittenBy, Unfiled
<1>5. Shared => SharedFilesHold
  BY <1>3, <1>4 DEF Slotted, SharedFilesHold
<1> HIDE DEF Shared
<1> QED
  BY <1>1, <1>2, <1>5, PTL DEF WorkersSpec
-----------------------------------------------------------------------------
(* The reviews of a program: what the policy of a program, on file or in   *)
(* the memory of a command, knows as reviewed has been reviewed.           *)

\* Issues are records of a code, a text and what resolves them.
Plain(issues) ==
  \A i \in DOMAIN issues :
    issues[i] = [code |-> issues[i].code, text |-> issues[i].text,
                 resolution |-> issues[i].resolution]

\* What a policy is made of, as a record.
Shaped(q) ==
  /\ q = [scope |-> q.scope, rules |-> q.rules, issues |-> q.issues, rate |-> q.rate,
          exclusions |-> q.exclusions, source |-> q.source, url |-> q.url]
  /\ \E n \in Nat : DOMAIN q.issues = 1..n
  /\ \A i \in DOMAIN q.issues :
       q.issues[i] = [code |-> q.issues[i].code, text |-> q.issues[i].text,
                      resolution |-> q.issues[i].resolution]

\* Every issue the text raises is in the policy.
Covered(q) ==
  \A l \in Range(q.source) : \A c \in l.issues :
    \E i \in DOMAIN q.issues : q.issues[i].code = c /\ q.issues[i].text = l.text

\* Every resolution is a review of that issue of that program.
Backed(id, q, known) ==
  \A i \in DOMAIN q.issues :
    q.issues[i].resolution # {} => <<id, q.issues[i].code, q.issues[i].text>> \in known

\* A resolved rate issue comes with a rate.
Rated(q) ==
  \A i \in DOMAIN q.issues :
    q.issues[i].resolution # {} /\ q.issues[i].code = "qualitative_rate_limit" => q.rate # NoRate

Kept(id, q, known) == Shaped(q) /\ Covered(q) /\ Backed(id, q, known) /\ Rated(q)

LEMMA KeptGrows ==
  ASSUME NEW id, NEW q, NEW known, NEW more, known \subseteq more, Kept(id, q, known)
  PROVE  Kept(id, q, more)
BY DEF Kept, Backed

-----------------------------------------------------------------------------
\* The importer.
LEMMA MarksFinite ==
  ASSUME NEW lines \in Pages
  PROVE  /\ IsFiniteSet(Marks(lines)) /\ Cardinality(Marks(lines)) \in Nat
         /\ \A m \in Marks(lines) : m[1] \in Nat /\ m[2] \in Nat /\ m = <<m[1], m[2]>>
<1>1. lines \in Seq(Range(lines)) /\ DOMAIN lines = 1..Len(lines) /\ Len(lines) \in Nat
  BY CatalogAssumption
<1>2. DOMAIN IssueOrder = 1..3
  BY DEF IssueOrder
<1>3. IsFiniteSet(DOMAIN lines) /\ IsFiniteSet(DOMAIN IssueOrder)
  <2>1. IsFiniteSet(1..Len(lines)) /\ IsFiniteSet(1..3)
    <3>1. 1 \in Int /\ 3 \in Int /\ Len(lines) \in Int
      BY <1>1
    <3> QED BY <3>1, FS_Interval
  <2> QED BY <1>1, <1>2, <2>1
<1>4. IsFiniteSet((DOMAIN lines) \X (DOMAIN IssueOrder))
  BY <1>3, FS_Product
<1>5. Marks(lines) \subseteq (DOMAIN lines) \X (DOMAIN IssueOrder)
  BY DEF Marks
<1>6. IsFiniteSet(Marks(lines))
  BY <1>4, <1>5, FS_Subset
<1>7. Cardinality(Marks(lines)) \in Nat
  BY <1>6, FS_CardinalityType
<1>8. \A m \in (1..Len(lines)) \X (1..3) : m[1] \in Nat /\ m[2] \in Nat /\ m = <<m[1], m[2]>>
  BY <1>1
<1> QED BY <1>1, <1>2, <1>5, <1>6, <1>7, <1>8

\* Two marks are never numbered alike.
LEMMA MarksApart ==
  ASSUME NEW lines \in Pages, NEW m \in Marks(lines), NEW o \in Marks(lines),
         Cardinality({x \in Marks(lines) : Before(x, m)})
           = Cardinality({x \in Marks(lines) : Before(x, o)})
  PROVE  m = o
<1> DEFINE below(y) == {x \in Marks(lines) : Before(x, y)}
<1>1. \A y : below(y) \subseteq Marks(lines)
  OBVIOUS
<1>2. \A y : IsFiniteSet(below(y))
  BY <1>1, MarksFinite, FS_Subset
<1>3. ASSUME NEW a \in Marks(lines), NEW b \in Marks(lines), Before(a, b)
      PROVE  Cardinality(below(a)) # Cardinality(below(b))
  <2>1. \A x \in Marks(lines) : Before(x, a) => Before(x, b)
    BY <1>3, MarksFinite DEF Before
  <2>2. below(a) \subseteq below(b)
    BY <2>1
  <2>3. ~ Before(a, a)
    BY MarksFinite DEF Before
  <2>4. a \in below(b) /\ a \notin below(a)
    BY <1>3, <2>3
  <2>5. below(a) # below(b)
    BY <2>4
  <2> HIDE DEF below
  <2> QED BY <1>2, <2>2, <2>5, FS_Subset
<1>4. m = o \/ Before(m, o) \/ Before(o, m)
  <2>1. /\ m = <<m[1], m[2]>> /\ o = <<o[1], o[2]>>
        /\ m[1] \in Nat /\ m[2] \in Nat /\ o[1] \in Nat /\ o[2] \in Nat
    BY MarksFinite
  <2> QED BY <2>1 DEF Before
<1> QED BY <1>3, <1>4

LEMMA RaisesAll ==
  ASSUME NEW lines \in Pages
  PROVE  /\ \E n \in Nat : DOMAIN Raised(lines) = 1..n
         /\ \A i \in DOMAIN Raised(lines) :
              /\ Raised(lines)[i] = [code |-> Raised(lines)[i].code, text |-> Raised(lines)[i].text,
                                     resolution |-> Raised(lines)[i].resolution]
              /\ Raised(lines)[i].resolution = {}
         /\ \A l \in Range(lines) : \A c \in l.issues :
              \E i \in DOMAIN Raised(lines) :
                Raised(lines)[i].code = c /\ Raised(lines)[i].text = l.text
<1> DEFINE marks == Marks(lines)
           below(y) == {x \in marks : Before(x, y)}
           nth(i) == CHOOSE m \in marks : Cardinality(below(m)) = i - 1
<1>1. /\ DOMAIN Raised(lines) = 1..Cardinality(marks)
      /\ \A i \in 1..Cardinality(marks) :
           Raised(lines)[i] = [code |-> IssueOrder[nth(i)[2]], text |-> lines[nth(i)[1]].text,
                               resolution |-> {}]
  BY DEF Raised
<1>2. Cardinality(marks) \in Nat /\ IsFiniteSet(marks)
  BY MarksFinite
<1>3. ASSUME NEW l \in Range(lines), NEW c \in l.issues
      PROVE  \E i \in DOMAIN Raised(lines) :
               Raised(lines)[i].code = c /\ Raised(lines)[i].text = l.text
  <2>1. PICK n \in DOMAIN lines : lines[n] = l
    BY DEF Range
  <2>2. PICK k \in DOMAIN IssueOrder : IssueOrder[k] = c
    BY CatalogAssumption DEF Range
  <2> DEFINE m == <<n, k>>
  <2>3. m \in marks
    BY <2>1, <2>2 DEF Marks
  <2>4. below(m) \subseteq marks /\ below(m) # marks
    <3>1. ~ Before(m, m)
      BY <2>3, MarksFinite DEF Before
    <3> QED BY <2>3, <3>1
  <2>5. Cardinality(below(m)) \in Nat /\ Cardinality(below(m)) < Cardinality(marks)
    <3> DEFINE b == below(m)
    <3>1. b \in SUBSET marks /\ b # marks
      BY <2>4
    <3> HIDE DEF b
    <3>2. IsFiniteSet(b) /\ Cardinality(b) <= Cardinality(marks) /\ Cardinality(b) # Cardinality(marks)
      BY <1>2, <3>1, FS_Subset
    <3>3. Cardinality(b) \in Nat
      BY <3>2, FS_CardinalityType
    <3> QED BY <1>2, <3>2, <3>3 DEF b
  <2> DEFINE i == Cardinality(below(m)) + 1
  <2>6. i \in 1..Cardinality(marks) /\ Cardinality(below(m)) = i - 1
    BY <1>2, <2>5
  <2>7. nth(i) \in marks /\ Cardinality(below(nth(i))) = i - 1
    <3> HIDE DEF i, below, m, marks
    <3> QED BY <2>3, <2>6
  <2>8. nth(i) = m
    BY <2>3, <2>6, <2>7, MarksApart
  <2>9. Raised(lines)[i] = [code |-> c, text |-> l.text, resolution |-> {}]
    <3>1. m[1] = n /\ m[2] = k
      OBVIOUS
    <3>2. Raised(lines)[i] = [code |-> IssueOrder[nth(i)[2]], text |-> lines[nth(i)[1]].text,
                              resolution |-> {}]
      BY <1>1, <2>6
    <3> HIDE DEF m, nth, i
    <3> QED BY <2>1, <2>2, <2>8, <3>1, <3>2
  <2> QED BY <1>1, <2>6, <2>9
<1> HIDE DEF nth
<1>4. \A i \in DOMAIN Raised(lines) :
        /\ Raised(lines)[i] = [code |-> Raised(lines)[i].code, text |-> Raised(lines)[i].text,
                               resolution |-> Raised(lines)[i].resolution]
        /\ Raised(lines)[i].resolution = {}
  BY <1>1
<1> QED BY <1>1, <1>2, <1>3, <1>4

LEMMA GreatestIsThere ==
  ASSUME NEW n \in Nat, NEW S \in SUBSET (1..n), S # {}
  PROVE  Max(S) \in S
<1> DEFINE D == {d \in Nat : n - d \in S}
<1>1. D # {}
  <2>1. PICK x \in S : TRUE
    OBVIOUS
  <2>2. n - x \in Nat /\ n - (n - x) = x
    BY <2>1
  <2> QED BY <2>1, <2>2
<1>2. PICK d \in D : \A e \in D : ~ (<<e, d>> \in OpToRel(<, Nat))
  BY <1>1, WFMin, NatLessThanWellFounded
<1>3. \A e \in D : d <= e
  <2> TAKE e \in D
  <2>1. ~ (e < d)
    BY <1>2 DEF OpToRel
  <2> QED BY <2>1
<1>4. \A y \in S : n - d >= y
  <2> TAKE y \in S
  <2>1. n - y \in Nat /\ n - (n - y) = y
    OBVIOUS
  <2>2. d <= n - y
    BY <1>3, <2>1
  <2> QED BY <2>2
<1>5. \E x \in S : \A y \in S : x >= y
  BY <1>4
<1> QED BY <1>5 DEF Max

LEMMA ResolvingKeeps ==
  ASSUME NEW issues, NEW which, NEW resolution, Plain(issues)
  PROVE  /\ DOMAIN ResolvedAt(issues, which, resolution) = DOMAIN issues
         /\ \A i \in DOMAIN issues :
              ResolvedAt(issues, which, resolution)[i]
                = [code |-> issues[i].code, text |-> issues[i].text,
                   resolution |-> IF i \in which THEN resolution ELSE issues[i].resolution]
<1>1. \A i \in DOMAIN issues :
        [issues[i] EXCEPT !.resolution = resolution]
          = [code |-> issues[i].code, text |-> issues[i].text, resolution |-> resolution]
  BY DEF Plain
<1>2. \A i \in DOMAIN issues :
        issues[i] = [code |-> issues[i].code, text |-> issues[i].text,
                     resolution |-> issues[i].resolution]
  BY DEF Plain
<1> QED BY <1>1, <1>2 DEF ResolvedAt

\* What an imported policy is: covered, and nothing reviewed.
LEMMA ImportCovers ==
  ASSUME NEW url, NEW lines \in Pages
  PROVE  /\ Shaped(ImportText(url, lines)) /\ Covered(ImportText(url, lines))
         /\ \A i \in DOMAIN ImportText(url, lines).issues :
              ImportText(url, lines).issues[i].resolution = {}
<1> DEFINE q == ImportText(url, lines)
           missing == [code |-> "no_allowed_scope_extracted", text |-> NoText, resolution |-> {}]
<1>1. /\ q = [scope |-> q.scope, rules |-> q.rules, issues |-> q.issues, rate |-> q.rate,
              exclusions |-> q.exclusions, source |-> q.source, url |-> q.url]
      /\ q.source = lines
      /\ q.issues = Raised(lines) \/ q.issues = Append(Raised(lines), missing)
  BY DEF ImportText
<1>2. PICK n \in Nat : DOMAIN Raised(lines) = 1..n
  BY RaisesAll
<1>3. /\ \E k \in Nat : DOMAIN q.issues = 1..k /\ k >= n
      /\ \A i \in 1..n : q.issues[i] = Raised(lines)[i]
      /\ \A i \in DOMAIN q.issues : i \in 1..n \/ q.issues[i] = missing
  <2>1. CASE q.issues = Raised(lines)
    BY <1>2, <2>1
  <2>2. CASE q.issues = Append(Raised(lines), missing)
    <3> DEFINE r == Raised(lines)
    <3>1. r = [i \in 1..n |-> r[i]]
      BY <1>2 DEF Raised
    <3>2. r \in Seq(Range(r)) /\ Len(r) = n
      BY <1>2, <3>1 DEF Range
    <3> HIDE DEF r
    <3>3. /\ DOMAIN Append(r, missing) = 1..(n + 1)
          /\ Append(r, missing)[n + 1] = missing
          /\ \A i \in 1..n : Append(r, missing)[i] = r[i]
      BY <3>2
    <3>4. n + 1 \in Nat /\ n + 1 >= n /\ \A i \in 1..(n + 1) : i \in 1..n \/ i = n + 1
      OBVIOUS
    <3> QED BY <2>2, <3>3, <3>4 DEF r
  <2> QED BY <1>1, <2>1, <2>2
<1> HIDE DEF q
<1>4. /\ \A i \in 1..n : Raised(lines)[i] = [code |-> Raised(lines)[i].code, text |-> Raised(lines)[i].text,
                               resolution |-> Raised(lines)[i].resolution]
      /\ \A i \in 1..n : Raised(lines)[i].resolution = {}
      /\ missing = [code |-> missing.code, text |-> missing.text, resolution |-> missing.resolution]
      /\ missing.resolution = {}
  BY <1>2, RaisesAll
<1> HIDE DEF missing
<1>5. Shaped(q) /\ \A i \in DOMAIN q.issues : q.issues[i].resolution = {}
  <2>1. \A i \in DOMAIN q.issues :
          /\ q.issues[i] = [code |-> q.issues[i].code, text |-> q.issues[i].text,
                            resolution |-> q.issues[i].resolution]
          /\ q.issues[i].resolution = {}
    <3> TAKE i \in DOMAIN q.issues
    <3>1. q.issues[i] = missing \/ (i \in 1..n /\ q.issues[i] = Raised(lines)[i])
      BY <1>3
    <3> QED BY <1>4, <3>1
  <2> QED BY <1>1, <1>3, <2>1 DEF Shaped
<1>6. Covered(q)
  BY <1>1, <1>2, <1>3, RaisesAll DEF Covered
<1> QED BY <1>5, <1>6 DEF q

\* What carrying the reviews forward adds is reviewed, and comes with its rate.
LEMMA CarryingKeeps ==
  ASSUME NEW id, NEW known, NEW previous, NEW current, Kept(id, previous, known),
         Shaped(current), Covered(current),
         \A i \in DOMAIN current.issues : current.issues[i].resolution = {}
  PROVE  Kept(id, CarryForward(previous, current), known)
<1> DEFINE carried == Carried(previous, current.issues)
           issues == WithReviews(previous, current.issues)
           q == CarryForward(previous, current)
           source(i) == Max(Reviewed(previous, current.issues[i]))
<1>1. \A i \in carried :
        /\ i \in DOMAIN current.issues
        /\ source(i) \in DOMAIN previous.issues
        /\ previous.issues[source(i)].resolution # {}
        /\ previous.issues[source(i)].code = current.issues[i].code
        /\ previous.issues[source(i)].text = current.issues[i].text
  <2> TAKE i \in carried
  <2> DEFINE R == Reviewed(previous, current.issues[i])
  <2>1. PICK n \in Nat : DOMAIN previous.issues = 1..n
    BY DEF Kept, Shaped
  <2>2. R \in SUBSET (1..n) /\ R # {} /\ i \in DOMAIN current.issues
    BY <2>1 DEF Reviewed, Carried
  <2>3. Max(R) \in R
    BY <2>1, <2>2, GreatestIsThere
  <2>4. \A x \in R : /\ x \in DOMAIN previous.issues /\ previous.issues[x].resolution # {}
                    /\ Key(previous.issues[x]) = Key(current.issues[i])
    BY DEF Reviewed, Unresolved
  <2>5. Key(previous.issues[Max(R)]) = Key(current.issues[i])
    BY <2>3, <2>4
  <2> QED BY <2>2, <2>3, <2>4, <2>5 DEF Key
<1>2. /\ DOMAIN issues = DOMAIN current.issues
      /\ \A i \in DOMAIN current.issues :
           issues[i] = [code |-> current.issues[i].code, text |-> current.issues[i].text,
                        resolution |-> IF i \in carried THEN previous.issues[source(i)].resolution
                                       ELSE {}]
  <2>1. \A i \in DOMAIN current.issues : \A r :
          [current.issues[i] EXCEPT !.resolution = r]
            = [code |-> current.issues[i].code, text |-> current.issues[i].text, resolution |-> r]
    <3> TAKE i \in DOMAIN current.issues
    <3> TAKE r
    <3> DEFINE x == current.issues[i]
    <3>1. x = [code |-> x.code, text |-> x.text, resolution |-> x.resolution]
      BY DEF Shaped
    <3> HIDE DEF x
    <3>2. [x EXCEPT !.resolution = r] = [code |-> x.code, text |-> x.text, resolution |-> r]
      BY <3>1
    <3> QED BY <3>2 DEF x
  <2>2. \A i \in DOMAIN current.issues :
          current.issues[i] = [code |-> current.issues[i].code, text |-> current.issues[i].text,
                               resolution |-> {}]
    BY DEF Shaped
  <2> HIDE DEF carried, source
  <2> QED BY <2>1, <2>2 DEF WithReviews, carried, source
<1> DEFINE rate == IF \E i \in carried : current.issues[i].code = "qualitative_rate_limit"
                   THEN previous.rate ELSE current.rate
<1>3. /\ q = [scope |-> q.scope, rules |-> q.rules, issues |-> q.issues, rate |-> q.rate,
              exclusions |-> q.exclusions, source |-> q.source, url |-> q.url]
      /\ q.issues = issues /\ q.rate = rate /\ q.source = current.source
  <2> DEFINE rest == {r \in previous.exclusions : \E i \in carried : r.text = current.issues[i].text}
  <2>1. q = [current EXCEPT !.issues = issues, !.rate = rate, !.exclusions = rest]
    BY DEF CarryForward
  <2> HIDE DEF q, issues, rate, rest
  <2>2. current = [scope |-> current.scope, rules |-> current.rules, issues |-> current.issues,
                   rate |-> current.rate, exclusions |-> current.exclusions,
                   source |-> current.source, url |-> current.url]
    BY DEF Shaped
  <2>3. q = [scope |-> current.scope, rules |-> current.rules, issues |-> issues, rate |-> rate,
             exclusions |-> rest, source |-> current.source, url |-> current.url]
    BY <2>1, <2>2
  <2> QED BY <2>3
<1> HIDE DEF q, issues, source, carried
<1>0. /\ DOMAIN q.issues = DOMAIN current.issues
      /\ \A i \in DOMAIN q.issues :
           /\ q.issues[i] = [code |-> q.issues[i].code, text |-> q.issues[i].text,
                             resolution |-> q.issues[i].resolution]
           /\ q.issues[i].code = current.issues[i].code
           /\ q.issues[i].text = current.issues[i].text
           /\ i \in carried => q.issues[i].resolution = previous.issues[source(i)].resolution
           /\ i \notin carried => q.issues[i].resolution = {}
  <2>1. DOMAIN q.issues = DOMAIN current.issues
    BY <1>2, <1>3
  <2>2. ASSUME NEW i \in DOMAIN q.issues
        PROVE  q.issues[i] = [code |-> current.issues[i].code, text |-> current.issues[i].text,
                              resolution |-> IF i \in carried
                                             THEN previous.issues[source(i)].resolution ELSE {}]
    BY <1>2, <1>3, <2>1
  <2>3. ASSUME NEW i \in DOMAIN q.issues
        PROVE  /\ q.issues[i] = [code |-> q.issues[i].code, text |-> q.issues[i].text,
                                 resolution |-> q.issues[i].resolution]
               /\ q.issues[i].code = current.issues[i].code
               /\ q.issues[i].text = current.issues[i].text
               /\ i \in carried => q.issues[i].resolution = previous.issues[source(i)].resolution
               /\ i \notin carried => q.issues[i].resolution = {}
    <3> DEFINE x == q.issues[i]
    <3>1. x = [code |-> current.issues[i].code, text |-> current.issues[i].text,
               resolution |-> IF i \in carried
                              THEN previous.issues[source(i)].resolution ELSE {}]
      BY <2>2
    <3> HIDE DEF x
    <3>2. /\ x = [code |-> x.code, text |-> x.text, resolution |-> x.resolution]
          /\ x.code = current.issues[i].code /\ x.text = current.issues[i].text
          /\ i \in carried => x.resolution = previous.issues[source(i)].resolution
          /\ i \notin carried => x.resolution = {}
      BY <3>1
    <3> QED BY <3>2 DEF x
  <2> QED BY <2>1, <2>3
<1>4. Shaped(q)
  BY <1>0, <1>3 DEF Shaped
<1>5. Covered(q)
  <2> SUFFICES ASSUME NEW l \in Range(current.source), NEW c \in l.issues
               PROVE  \E i \in DOMAIN q.issues : q.issues[i].code = c /\ q.issues[i].text = l.text
    BY <1>3 DEF Covered
  <2>1. PICK i \in DOMAIN current.issues :
          current.issues[i].code = c /\ current.issues[i].text = l.text
    BY DEF Covered
  <2> QED BY <1>0, <2>1
<1>6. Backed(id, q, known)
  <2> SUFFICES ASSUME NEW i \in DOMAIN q.issues, q.issues[i].resolution # {}
               PROVE  <<id, q.issues[i].code, q.issues[i].text>> \in known
    BY DEF Backed
  <2>1. i \in carried
    BY <1>0
  <2> DEFINE s == source(i)
  <2>2. <<id, previous.issues[s].code, previous.issues[s].text>> \in known
    BY <1>1, <2>1 DEF Backed, Kept
  <2>3. /\ previous.issues[s].code = q.issues[i].code
        /\ previous.issues[s].text = q.issues[i].text
    BY <1>0, <1>1, <2>1
  <2> QED BY <2>2, <2>3
<1>7. Rated(q)
  <2> SUFFICES ASSUME NEW i \in DOMAIN q.issues, q.issues[i].resolution # {},
                      q.issues[i].code = "qualitative_rate_limit"
               PROVE  q.rate # NoRate
    BY DEF Rated
  <2>1. i \in carried /\ current.issues[i].code = "qualitative_rate_limit"
    BY <1>0
  <2>2. previous.rate # NoRate
    BY <1>1, <2>1 DEF Kept, Rated
  <2> QED BY <1>3, <2>1, <2>2
<1> QED BY <1>4, <1>5, <1>6, <1>7 DEF Kept, q

\* What a review makes of a policy.
Reshaped(q, rate, exclusions, which, resolution) ==
  [q EXCEPT !.rate = rate, !.exclusions = exclusions,
            !.issues = ResolvedAt(q.issues, which, resolution)]

LEMMA ReviewedPolicy ==
  ASSUME NEW q, Shaped(q), NEW rate, NEW exclusions, NEW which, NEW resolution
  PROVE  LET p == Reshaped(q, rate, exclusions, which, resolution)
         IN /\ Shaped(p) /\ p.rate = rate /\ DOMAIN p.issues = DOMAIN q.issues
            /\ \A i \in DOMAIN q.issues :
                 /\ p.issues[i].code = q.issues[i].code /\ p.issues[i].text = q.issues[i].text
                 /\ i \notin which => p.issues[i].resolution = q.issues[i].resolution
            /\ Covered(q) => Covered(p)
<1> DEFINE p == Reshaped(q, rate, exclusions, which, resolution)
           old == q.issues
           new == ResolvedAt(old, which, resolution)
<1>1. p = [scope |-> q.scope, rules |-> q.rules, issues |-> new, rate |-> rate,
           exclusions |-> exclusions, source |-> q.source, url |-> q.url]
  <2>1. q = [scope |-> q.scope, rules |-> q.rules, issues |-> q.issues, rate |-> q.rate,
             exclusions |-> q.exclusions, source |-> q.source, url |-> q.url]
    BY DEF Shaped
  <2>2. p = [q EXCEPT !.rate = rate, !.exclusions = exclusions, !.issues = new]
    BY DEF Reshaped
  <2> HIDE DEF p, new
  <2> QED BY <2>1, <2>2
<1>2. Plain(old) /\ \E n \in Nat : DOMAIN old = 1..n
  BY DEF Shaped, Plain
<1> HIDE DEF old
<1>3. /\ DOMAIN new = DOMAIN old
      /\ \A i \in DOMAIN old :
           new[i] = [code |-> old[i].code, text |-> old[i].text,
                     resolution |-> IF i \in which THEN resolution ELSE old[i].resolution]
  BY <1>2, ResolvingKeeps
<1> HIDE DEF new
<1>4. /\ Plain(new)
      /\ \A i \in DOMAIN old :
           /\ new[i].code = old[i].code /\ new[i].text = old[i].text
           /\ i \notin which => new[i].resolution = old[i].resolution
  <2> SUFFICES ASSUME NEW i \in DOMAIN old
               PROVE  /\ new[i] = [code |-> new[i].code, text |-> new[i].text,
                                   resolution |-> new[i].resolution]
                      /\ new[i].code = old[i].code /\ new[i].text = old[i].text
                      /\ i \notin which => new[i].resolution = old[i].resolution
    BY <1>3 DEF Plain
  <2> QED BY <1>3
<1> HIDE DEF p
<1>5. /\ p = [scope |-> p.scope, rules |-> p.rules, issues |-> p.issues, rate |-> p.rate,
              exclusions |-> p.exclusions, source |-> p.source, url |-> p.url]
      /\ p.issues = new /\ p.source = q.source /\ p.rate = rate
  BY <1>1
<1>6. Shaped(p)
  BY <1>2, <1>3, <1>4, <1>5 DEF Shaped, Plain
<1>7. ASSUME Covered(q) PROVE Covered(p)
  <2> SUFFICES ASSUME NEW l \in Range(q.source), NEW c \in l.issues
               PROVE  \E i \in DOMAIN new : new[i].code = c /\ new[i].text = l.text
    BY <1>5 DEF Covered
  <2>1. PICK i \in DOMAIN old : old[i].code = c /\ old[i].text = l.text
    BY <1>7 DEF Covered, old
  <2> QED BY <1>3, <1>4, <2>1
<1> QED BY <1>3, <1>4, <1>5, <1>6, <1>7 DEF old, p

\* A review of a policy resolves some of its issues, the rate issues only with a rate.
LEMMA RatingKeeps ==
  ASSUME NEW q, Shaped(q), Covered(q), NEW rps, rps # NoRate
  PROVE  LET p == ResolveRate(q, rps)
         IN /\ Shaped(p) /\ Covered(p) /\ Rated(p) /\ p.rate # NoRate
            /\ DOMAIN p.issues = DOMAIN q.issues
            /\ \A i \in DOMAIN q.issues :
                 p.issues[i].code = q.issues[i].code /\ p.issues[i].text = q.issues[i].text
<1> DEFINE p == ResolveRate(q, rps)
<1>1. p = Reshaped(q, rps, q.exclusions, RateIssues(q), ByRate)
  BY DEF ResolveRate, Shaped, Reshaped
<1> HIDE DEF p
<1>2. /\ Shaped(p) /\ p.rate = rps /\ DOMAIN p.issues = DOMAIN q.issues /\ Covered(p)
      /\ \A i \in DOMAIN q.issues :
           p.issues[i].code = q.issues[i].code /\ p.issues[i].text = q.issues[i].text
  BY <1>1, ReviewedPolicy
<1> QED BY <1>2 DEF Rated, p

LEMMA GuardingKeeps ==
  ASSUME NEW q, Shaped(q), Covered(q), Rated(q), NEW index, NEW kind, NEW value,
         CanGuard(q, index, kind)
  PROVE  LET p == ResolveGuardrail(q, index, kind, value)
         IN /\ Shaped(p) /\ Covered(p) /\ Rated(p)
            /\ DOMAIN p.issues = DOMAIN q.issues
            /\ \A i \in DOMAIN q.issues :
                 p.issues[i].code = q.issues[i].code /\ p.issues[i].text = q.issues[i].text
<1> DEFINE p == ResolveGuardrail(q, index, kind, value)
<1>1. PICK exclusions : p = Reshaped(q, q.rate, exclusions, {index}, {<<kind, value>>})
  BY DEF ResolveGuardrail, Shaped, Reshaped
<1> HIDE DEF p
<1>3. /\ Shaped(p) /\ p.rate = q.rate /\ DOMAIN p.issues = DOMAIN q.issues /\ Covered(p)
      /\ \A i \in DOMAIN q.issues :
           /\ p.issues[i].code = q.issues[i].code /\ p.issues[i].text = q.issues[i].text
           /\ i \notin {index} => p.issues[i].resolution = q.issues[i].resolution
  BY <1>1, ReviewedPolicy
<1>4. q.issues[index].code # "qualitative_rate_limit"
  BY DEF CanGuard, GuardrailKinds
<1>5. Rated(p)
  BY <1>3, <1>4 DEF Rated
<1> QED BY <1>3, <1>5 DEF p
-----------------------------------------------------------------------------
\* A command in the middle of its work holds a policy of its program.
MemoryKept(m, known) ==
  /\ m = [at |-> m.at, ws |-> m.ws, id |-> m.id, program |-> m.program, previous |-> m.previous,
          capture |-> m.capture, seen |-> m.seen, live |-> m.live]
  /\ \A q \in m.program : Kept(m.id, q, known)
  /\ \A s \in m.capture : s.lines \in Pages
  /\ m.at \in {"dump", "judge"} => m.program # {}
  /\ m.at = "capture" => m.capture # {}
  /\ m.seen \in Nat
  /\ m.id \in Programs \/ (m.at \in {"idle", "save"} /\ m.live = FALSE)

Commands == \A w \in CatalogWorkers : MemoryKept(worker[w], reviewed)
Policies == \A id \in Programs : \A q \in policy[id] : Kept(id, q, reviewed)
Captured == \A l \in latest : l.shot.lines \in Pages \cup {NoLines} /\ l.stamp \in Nat
Judged ==
  \E R : /\ reports \in Seq(R)
         /\ \A r \in R : r.eligible => /\ Kept(r.id, r.program, reviewed)
                                      /\ Ready(r.program)
Tables ==
  /\ DOMAIN worker = CatalogWorkers /\ worker = [w \in CatalogWorkers |-> worker[w]]
  /\ DOMAIN policy = Programs /\ policy = [id \in Programs |-> policy[id]]

CatalogInv == Tables /\ Commands /\ Policies /\ Captured /\ Judged

LEMMA CatalogBegins == CatInit => CatalogInv
<1> SUFFICES ASSUME CatInit PROVE CatalogInv
  OBVIOUS
<1>1. MemoryKept(Idle, reviewed)
  BY DEF MemoryKept, Idle
<1>2. Judged
  <2>1. reports \in Seq({}) /\ \A r \in {} : r.eligible => Kept(r.id, r.program, reviewed) /\ Ready(r.program)
    BY DEF CatInit
  <2> QED BY <2>1 DEF Judged
<1> QED BY <1>1, <1>2 DEF CatInit, CatalogInv, Tables, Commands, Policies, Captured

\* A command moves on, and the others stay where they are.
LEMMA CommandGoes ==
  ASSUME CatalogInv, NEW w \in CatalogWorkers, NEW m, Goes(w, m),
         reviewed \subseteq reviewed', MemoryKept(m, reviewed')
  PROVE  Commands' /\ DOMAIN worker' = CatalogWorkers
         /\ worker' = [v \in CatalogWorkers |-> worker'[v]]
<1>1. \A v \in CatalogWorkers : worker'[v] = IF v = w THEN m ELSE worker[v]
  BY DEF Goes, CatalogInv, Tables
<1>2. \A v \in CatalogWorkers : MemoryKept(worker[v], reviewed')
  <2> TAKE v \in CatalogWorkers
  <2>1. MemoryKept(worker[v], reviewed)
    BY DEF CatalogInv, Commands
  <2>2. \A q \in worker[v].program : Kept(worker[v].id, q, reviewed')
    BY <2>1, KeptGrows DEF MemoryKept
  <2> QED BY <2>1, <2>2 DEF MemoryKept
<1> QED BY <1>1, <1>2 DEF Goes, Commands, CatalogInv, Tables

LEMMA ReviewsGrow ==
  ASSUME CatalogInv, reviewed \subseteq reviewed'
  PROVE  /\ \A id \in Programs : \A q \in policy[id] : Kept(id, q, reviewed')
         /\ reports' = reports => Judged'
<1>1. \A id \in Programs : \A q \in policy[id] : Kept(id, q, reviewed')
  BY KeptGrows DEF CatalogInv, Policies
<1>2. ASSUME reports' = reports PROVE Judged'
  <2>1. PICK R : /\ reports \in Seq(R)
                 /\ \A r \in R : r.eligible => /\ Kept(r.id, r.program, reviewed)
                                              /\ Ready(r.program)
    BY DEF CatalogInv, Judged
  <2>2. \A r \in R : r.eligible => Kept(r.id, r.program, reviewed') /\ Ready(r.program)
    BY <2>1, KeptGrows
  <2> QED BY <1>2, <2>1, <2>2 DEF Judged
<1> QED BY <1>1, <1>2

LEMMA StampsAreNumbers == Captured => CatalogStamp(latest) \in Nat
<1> SUFFICES ASSUME Captured, latest # {} PROVE Only(latest).stamp \in Nat
  BY DEF CatalogStamp
<1>1. Only(latest) \in latest
  BY DEF Only
<1> QED BY <1>1 DEF Captured

\* The latest capture is replaced by one of a page.
LEMMA CaptureReplaced ==
  ASSUME Captured, NEW shot, shot.lines \in Pages \cup {NoLines}, latest' = {Stamped(shot)}
  PROVE  Captured'
<1> DEFINE times == {l.stamp : l \in latest}
<1>1. latest # {} => (CHOOSE s \in times : TRUE) \in times
  OBVIOUS
<1>2. times \subseteq Nat
  BY DEF Captured
<1>3. Stamped(shot).shot = shot
  BY DEF Stamped
<1>4. Stamped(shot).stamp = IF latest = {} THEN 1 ELSE 1 + CHOOSE s \in times : TRUE
  BY DEF Stamped
<1> HIDE DEF times
<1>5. Stamped(shot).stamp \in Nat
  <2>1. CASE latest = {}
    BY <1>4, <2>1
  <2>2. CASE latest # {}
    <3> DEFINE stamp == CHOOSE s \in times : TRUE
    <3>1. stamp \in Nat
      BY <1>1, <1>2, <2>2
    <3>2. Stamped(shot).stamp = 1 + stamp
      BY <1>4, <2>2
    <3> HIDE DEF stamp
    <3> QED BY <3>1, <3>2
  <2> QED BY <2>1, <2>2
<1> QED BY <1>3, <1>5 DEF Captured

LEMMA CommandStep ==
  ASSUME CatalogInv, UNCHANGED <<policy, reports, reviewed>>, Captured',
         NEW w \in CatalogWorkers, NEW m, Goes(w, m), MemoryKept(m, reviewed)
  PROVE  CatalogInv'
<1>1. reviewed' = reviewed /\ reviewed \subseteq reviewed'
  OBVIOUS
<1>2. Commands' /\ Tables'
  BY <1>1, CommandGoes DEF CatalogInv, Tables
<1>3. Judged' /\ Policies'
  BY <1>1, ReviewsGrow DEF CatalogInv, Policies
<1> QED BY <1>2, <1>3 DEF CatalogInv

LEMMA IdleKept == MemoryKept(Idle, reviewed)
BY DEF MemoryKept, Idle

LEMMA SyncingKept ==
  ASSUME NEW memory, MemoryKept(memory, reviewed), NEW ws, NEW id \in Programs,
         memory.id = id \/ memory.program = {}, NEW shot, shot.lines \in Pages \cup {NoLines}
  PROVE  MemoryKept(Syncing(memory, ws, id, shot), reviewed)
<1> DEFINE m == Syncing(memory, ws, id, shot)
<1>1. memory.capture \in {memory.capture} /\ \A s \in memory.capture : s.lines \in Pages
  BY DEF MemoryKept
<1>2. memory = [at |-> memory.at, ws |-> memory.ws, id |-> memory.id, program |-> memory.program,
                previous |-> memory.previous, capture |-> memory.capture, seen |-> memory.seen,
                live |-> memory.live]
  BY DEF MemoryKept
<1>3. CASE shot.lines = NoLines
  <2>1. m = [memory EXCEPT !.at = "save", !.ws = [ws EXCEPT ![id].sync = "failed"], !.live = FALSE]
    BY <1>3 DEF Syncing
  <2> DEFINE failed == [ws EXCEPT ![id].sync = "failed"]
  <2> HIDE DEF failed, m
  <2>2. m = [at |-> "save", ws |-> failed, id |-> memory.id, program |-> memory.program,
             previous |-> memory.previous, capture |-> memory.capture, seen |-> memory.seen,
             live |-> FALSE]
    BY <1>2, <2>1 DEF failed
  <2> QED BY <1>1, <2>2 DEF MemoryKept, m
<1>4. CASE shot.lines # NoLines
  <2>1. m = [memory EXCEPT !.at = "capture", !.ws = ws, !.id = id, !.capture = {shot}]
    BY <1>4 DEF Syncing
  <2> HIDE DEF m
  <2>2. m = [at |-> "capture", ws |-> ws, id |-> id, program |-> memory.program,
             previous |-> memory.previous, capture |-> {shot}, seen |-> memory.seen,
             live |-> memory.live]
    BY <1>2, <2>1
  <2>3. shot.lines \in Pages
    BY <1>4
  <2> QED BY <2>2, <2>3 DEF MemoryKept, m
<1> QED BY <1>3, <1>4

LEMMA StartsStep ==
  ASSUME CatalogInv, NEW w \in CatalogWorkers, NEW listed, NEW chosen, NEW id,
         \/ BeginDiscover(w, listed)
         \/ BeginSelect(w, chosen)
         \/ id \in Programs /\ (BeginLive(w, id) \/ BeginCached(w, id))
  PROVE  CatalogInv'
<1>1. UNCHANGED <<policy, reports, reviewed>> /\ Captured'
  <2>1. CASE BeginDiscover(w, listed)
    <3>1. Shot(Listing, NoLines, {}).lines \in Pages \cup {NoLines}
      BY DEF Shot
    <3> QED BY <2>1, <3>1, CaptureReplaced DEF BeginDiscover, history, CatalogInv
  <2>2. CASE BeginSelect(w, chosen) \/ BeginLive(w, id) \/ BeginCached(w, id)
    BY <2>2 DEF BeginSelect, BeginLive, BeginCached, files, history, CatalogInv, Captured
  <2> QED BY <2>1, <2>2
<1>2. PICK m : Goes(w, m) /\ MemoryKept(m, reviewed)
  <2>0. Idle = [at |-> "idle", ws |-> <<>>, id |-> Listing, program |-> {}, previous |-> {},
                capture |-> {}, seen |-> 0, live |-> FALSE]
    BY DEF Idle
  <2>1. ASSUME NEW ws PROVE MemoryKept([Idle EXCEPT !.at = "save", !.ws = ws], reviewed)
    <3> DEFINE m == [Idle EXCEPT !.at = "save", !.ws = ws]
    <3>0. m = [Idle EXCEPT !.at = "save", !.ws = ws]
      OBVIOUS
    <3> HIDE DEF m
    <3>1. m = [at |-> "save", ws |-> ws, id |-> Listing, program |-> {}, previous |-> {},
               capture |-> {}, seen |-> 0, live |-> FALSE]
      BY <2>0, <3>0
    <3>2. m.seen \in Nat
      BY <3>1
    <3> QED BY <3>1, <3>2 DEF MemoryKept, m
  <2>2. ASSUME NEW since, NEW old
        PROVE  since \in Nat /\ id \in Programs =>
                 MemoryKept([Idle EXCEPT !.at = "wait", !.id = id, !.seen = since, !.live = TRUE,
                                         !.previous = old], reviewed)
    <3> DEFINE m == [Idle EXCEPT !.at = "wait", !.id = id, !.seen = since, !.live = TRUE,
                                 !.previous = old]
    <3>0. m = [Idle EXCEPT !.at = "wait", !.id = id, !.seen = since, !.live = TRUE,
                                 !.previous = old]
      OBVIOUS
    <3> HIDE DEF m
    <3>1. m = [at |-> "wait", ws |-> <<>>, id |-> id, program |-> {}, previous |-> old,
               capture |-> {}, seen |-> since, live |-> TRUE]
      BY <2>0, <3>0
    <3> QED BY <3>1 DEF MemoryKept, m
  <2>3. ASSUME NEW old
        PROVE  id \in Programs =>
                 MemoryKept([Idle EXCEPT !.at = "evaluate", !.id = id, !.previous = old], reviewed)
    <3> DEFINE m == [Idle EXCEPT !.at = "evaluate", !.id = id, !.previous = old]
    <3>0. m = [Idle EXCEPT !.at = "evaluate", !.id = id, !.previous = old]
      OBVIOUS
    <3> HIDE DEF m
    <3>1. m = [at |-> "evaluate", ws |-> <<>>, id |-> id, program |-> {}, previous |-> old,
               capture |-> {}, seen |-> 0, live |-> FALSE]
      BY <2>0, <3>0
    <3>2. /\ m.at = "evaluate" /\ m.id = id /\ m.program = {} /\ m.capture = {} /\ m.seen \in Nat
          /\ m = [at |-> m.at, ws |-> m.ws, id |-> m.id, program |-> m.program,
                  previous |-> m.previous, capture |-> m.capture, seen |-> m.seen, live |-> m.live]
      BY <3>1
    <3> QED BY <3>0, <3>2 DEF MemoryKept
  <2>4. CASE BeginDiscover(w, listed)
    BY <2>1, <2>4 DEF BeginDiscover
  <2>5. CASE BeginSelect(w, chosen)
    BY <2>1, <2>5 DEF BeginSelect
  <2>6. CASE id \in Programs /\ BeginLive(w, id)
    BY <2>2, <2>6, StampsAreNumbers DEF BeginLive, CatalogInv
  <2>7. CASE id \in Programs /\ BeginCached(w, id)
    BY <2>3, <2>7 DEF BeginCached
  <2> QED BY <2>4, <2>5, <2>6, <2>7
<1> QED BY <1>1, <1>2, CommandStep

LEMMA DetailStep ==
  ASSUME CatalogInv, NEW w \in CatalogWorkers, NEW id \in Programs, NEW shot,
         shot.lines \in Pages \cup {NoLines}, BeginDetail(w, id, shot)
  PROVE  CatalogInv'
<1>1. UNCHANGED <<policy, reports, reviewed>> /\ Captured'
  BY DEF BeginDetail, files, history, CatalogInv, Captured
<1>2. Idle.program = {}
  BY DEF Idle
<1>3. MemoryKept(Syncing(Idle, catalog, id, shot), reviewed)
  BY <1>2, IdleKept, SyncingKept
<1>4. Goes(w, Syncing(Idle, catalog, id, shot))
  BY DEF BeginDetail
<1> QED BY <1>1, <1>3, <1>4, CommandStep

\* Steps that read, or write what no policy is made of.
LEMMA ReadingStep ==
  ASSUME CatalogInv, NEW w \in CatalogWorkers,
         SaveWorkspace(w) \/ Poll(w) \/ Restat(w) \/ ReadPolicy(w) \/ Abandon(w)
  PROVE  CatalogInv'
<1> DEFINE o == worker[w]
<1>1. UNCHANGED <<policy, reports, reviewed>> /\ Captured'
  BY DEF SaveWorkspace, Poll, Restat, ReadPolicy, Abandon, files, history, CatalogInv, Captured
<1>2. /\ MemoryKept(o, reviewed)
      /\ o = [at |-> o.at, ws |-> o.ws, id |-> o.id, program |-> o.program, previous |-> o.previous,
              capture |-> o.capture, seen |-> o.seen, live |-> o.live]
      /\ o.id \in Programs \/ (o.at \in {"idle", "save"} /\ o.live = FALSE)
  BY DEF CatalogInv, Commands, MemoryKept
<1>3. PICK m : Goes(w, m) /\ MemoryKept(m, reviewed)
  <2>1. CASE SaveWorkspace(w)
    <3>1. CASE ~ worker[w].live
      BY <2>1, <3>1, IdleKept DEF SaveWorkspace
    <3>2. CASE worker[w].live
      <4> DEFINE m == [worker[w] EXCEPT !.at = "evaluate"]
      <4>1. Goes(w, m) /\ o.id \in Programs
        BY <1>2, <2>1, <3>2 DEF SaveWorkspace
      <4>2. m = [o EXCEPT !.at = "evaluate"]
        OBVIOUS
      <4> HIDE DEF m, o
      <4>3. m = [at |-> "evaluate", ws |-> o.ws, id |-> o.id, program |-> o.program,
                 previous |-> o.previous, capture |-> o.capture, seen |-> o.seen, live |-> o.live]
        BY <1>2, <4>2
      <4>4. MemoryKept(m, reviewed)
        BY <1>2, <4>1, <4>3 DEF MemoryKept
      <4> QED BY <4>1, <4>4
    <3> QED BY <3>1, <3>2
  <2>2. CASE Poll(w)
    <3> DEFINE shot == Only(latest).shot
    <3>1. o.id \in Programs /\ o.seen \in Nat
      BY <1>2, <2>2 DEF Poll, MemoryKept
    <3>2. latest # {}
      BY <2>2, <3>1 DEF Poll, CatalogStamp
    <3>3. shot.lines \in Pages \cup {NoLines}
      BY <3>2 DEF Only, CatalogInv, Captured
    <3>4. CASE shot.url = o.id
      <4>1. Goes(w, Syncing(o, catalog, o.id, shot)) \/ Goes(w, Idle)
        BY <2>2, <3>4 DEF Poll
      <4>2. MemoryKept(Syncing(o, catalog, o.id, shot), reviewed)
        <5> HIDE DEF o, shot
        <5> QED BY <1>2, <3>1, <3>3, SyncingKept
      <4> QED BY <4>1, <4>2, IdleKept
    <3>5. CASE shot.url # o.id
      <4> DEFINE m == [worker[w] EXCEPT !.at = "restat"]
      <4>1. Goes(w, m)
        BY <2>2, <3>5 DEF Poll
      <4>2. m = [o EXCEPT !.at = "restat"]
        OBVIOUS
      <4> HIDE DEF m, o
      <4>3. m = [at |-> "restat", ws |-> o.ws, id |-> o.id, program |-> o.program,
                 previous |-> o.previous, capture |-> o.capture, seen |-> o.seen, live |-> o.live]
        BY <1>2, <4>2
      <4>4. MemoryKept(m, reviewed)
        BY <1>2, <3>1, <4>3 DEF MemoryKept
      <4> QED BY <4>1, <4>4
    <3> QED BY <3>4, <3>5
  <2>3. CASE Restat(w)
    <3> DEFINE m == [worker[w] EXCEPT !.at = "wait", !.seen = CatalogStamp(latest)]
    <3>1. Goes(w, m) /\ o.id \in Programs /\ CatalogStamp(latest) \in Nat
      BY <1>2, <2>3, StampsAreNumbers DEF Restat, CatalogInv
    <3>2. m = [o EXCEPT !.at = "wait", !.seen = CatalogStamp(latest)]
      OBVIOUS
    <3> HIDE DEF m, o
    <3>3. m = [at |-> "wait", ws |-> o.ws, id |-> o.id, program |-> o.program,
               previous |-> o.previous, capture |-> o.capture, seen |-> CatalogStamp(latest),
               live |-> o.live]
      BY <1>2, <3>2
    <3>4. MemoryKept(m, reviewed)
      BY <1>2, <3>1, <3>3 DEF MemoryKept
    <3> QED BY <3>1, <3>4
  <2>4. CASE ReadPolicy(w)
    <3>1. CASE Goes(w, Idle)
      BY <3>1, IdleKept
    <3>2. CASE ~ Goes(w, Idle)
      <4> DEFINE m == [worker[w] EXCEPT !.at = "judge", !.program = policy[worker[w].id]]
      <4>1. Goes(w, m) /\ o.id \in Programs /\ policy[o.id] # {}
        BY <1>2, <2>4, <3>2 DEF ReadPolicy
      <4>2. m = [o EXCEPT !.at = "judge", !.program = policy[o.id]]
        OBVIOUS
      <4>3. \A q \in policy[o.id] : Kept(o.id, q, reviewed)
        BY <4>1 DEF CatalogInv, Policies
      <4> HIDE DEF m, o
      <4>4. m = [at |-> "judge", ws |-> o.ws, id |-> o.id, program |-> policy[o.id],
                 previous |-> o.previous, capture |-> o.capture, seen |-> o.seen, live |-> o.live]
        BY <1>2, <4>2
      <4>5. MemoryKept(m, reviewed)
        BY <1>2, <4>1, <4>3, <4>4 DEF MemoryKept
      <4> QED BY <4>1, <4>5
    <3> QED BY <3>1, <3>2
  <2>5. CASE Abandon(w)
    BY <2>5, IdleKept DEF Abandon
  <2> QED BY <2>1, <2>2, <2>3, <2>4, <2>5
<1> QED BY <1>1, <1>3, CommandStep

\* The captured page is imported, and the reviews of the policy on file carried over to it.
LEMMA ImportStep ==
  ASSUME CatalogInv, NEW w \in CatalogWorkers, WriteCapture(w)
  PROVE  CatalogInv'
<1> DEFINE o == worker[w]
           current == ImportText(Only(o.capture).url, Only(o.capture).lines)
           program == IF policy[o.id] = {} THEN current
                      ELSE CarryForward(Only(policy[o.id]), current)
           entry == [o.ws[o.id] EXCEPT !.path = TRUE, !.capture = TRUE,
                       !.sync = IF Ready(program) THEN "ready" ELSE "needs_review"]
           ws == [o.ws EXCEPT ![o.id] = entry]
           m == [worker[w] EXCEPT !.at = "dump", !.capture = {}, !.program = {program},
                                  !.ws = [@ EXCEPT ![o.id] = entry]]
<1>1. UNCHANGED <<policy, reports, reviewed>> /\ Captured'
  BY DEF WriteCapture, history, CatalogInv, Captured
<1>2. /\ MemoryKept(o, reviewed) /\ o.id \in Programs
      /\ o = [at |-> o.at, ws |-> o.ws, id |-> o.id, program |-> o.program, previous |-> o.previous,
              capture |-> o.capture, seen |-> o.seen, live |-> o.live]
      /\ o.at = "capture" /\ o.capture # {}
  BY DEF CatalogInv, Commands, MemoryKept, WriteCapture
<1>3. Only(o.capture).lines \in Pages
  BY <1>2 DEF MemoryKept, Only
<1>4. /\ Shaped(current) /\ Covered(current)
      /\ \A i \in DOMAIN current.issues : current.issues[i].resolution = {}
  <2> DEFINE url == Only(o.capture).url
             lines == Only(o.capture).lines
  <2> HIDE DEF url, lines
  <2>1. /\ Shaped(ImportText(url, lines)) /\ Covered(ImportText(url, lines))
        /\ \A i \in DOMAIN ImportText(url, lines).issues :
             ImportText(url, lines).issues[i].resolution = {}
    BY <1>3, ImportCovers DEF lines
  <2> QED BY <2>1 DEF url, lines
<1> HIDE DEF current
<1>5. Kept(o.id, program, reviewed)
  <2>1. CASE policy[o.id] = {}
    BY <1>4, <2>1 DEF Kept, Backed, Rated
  <2>2. CASE policy[o.id] # {}
    <3> DEFINE previous == Only(policy[o.id])
    <3>1. previous \in policy[o.id]
      BY <2>2 DEF Only
    <3>2. Kept(o.id, previous, reviewed)
      BY <1>2, <3>1 DEF CatalogInv, Policies
    <3>3. program = CarryForward(previous, current)
      BY <2>2
    <3> HIDE DEF previous, program
    <3> QED BY <1>4, <3>2, <3>3, CarryingKeeps
  <2> QED BY <2>1, <2>2
<1>6. Goes(w, m)
  BY DEF WriteCapture, current
<1>7. m = [o EXCEPT !.at = "dump", !.capture = {}, !.program = {program}, !.ws = ws]
  <2>1. [o EXCEPT !.ws = [@ EXCEPT ![o.id] = entry]] = [o EXCEPT !.ws = ws]
    OBVIOUS
  <2> QED OBVIOUS
<1> HIDE DEF m, program, entry, ws, o
<1>8. m = [at |-> "dump", ws |-> ws, id |-> o.id, program |-> {program}, previous |-> o.previous,
           capture |-> {}, seen |-> o.seen, live |-> o.live]
  BY <1>2, <1>7
<1>9. MemoryKept(m, reviewed)
  BY <1>2, <1>5, <1>8 DEF MemoryKept
<1> QED BY <1>1, <1>6, <1>9, CommandStep

\* The policy file is replaced by the policy the command holds.
LEMMA DumpStep ==
  ASSUME CatalogInv, NEW w \in CatalogWorkers, DumpProgram(w)
  PROVE  CatalogInv'
<1> DEFINE o == worker[w]
           m == [worker[w] EXCEPT !.at = "save", !.program = {}]
<1>1. reports' = reports /\ reviewed' = reviewed /\ reviewed \subseteq reviewed' /\ Captured'
  BY DEF DumpProgram, history, CatalogInv, Captured
<1>2. /\ MemoryKept(o, reviewed) /\ o.id \in Programs /\ o.at = "dump" /\ Goes(w, m)
      /\ o = [at |-> o.at, ws |-> o.ws, id |-> o.id, program |-> o.program, previous |-> o.previous,
              capture |-> o.capture, seen |-> o.seen, live |-> o.live]
      /\ policy' = [policy EXCEPT ![o.id] = o.program]
  BY DEF CatalogInv, Commands, MemoryKept, DumpProgram
<1>3. \A id \in Programs : policy'[id] = IF id = o.id THEN o.program ELSE policy[id]
  BY <1>2 DEF CatalogInv, Tables
<1>4. Policies'
  BY <1>1, <1>2, <1>3 DEF MemoryKept, CatalogInv, Policies
<1>5. m = [o EXCEPT !.at = "save", !.program = {}]
  OBVIOUS
<1>6. DOMAIN policy' = Programs /\ policy' = [id \in Programs |-> policy'[id]]
  BY <1>2 DEF CatalogInv, Tables
<1> HIDE DEF m, o
<1>7. m = [at |-> "save", ws |-> o.ws, id |-> o.id, program |-> {}, previous |-> o.previous,
           capture |-> o.capture, seen |-> o.seen, live |-> o.live]
  BY <1>2, <1>5
<1>8. MemoryKept(m, reviewed)
  BY <1>2, <1>7 DEF MemoryKept
<1>9. Commands' /\ DOMAIN worker' = CatalogWorkers /\ worker' = [v \in CatalogWorkers |-> worker'[v]]
  BY <1>1, <1>2, <1>8, CommandGoes
<1>10. Judged'
  BY <1>1, ReviewsGrow
<1> QED BY <1>1, <1>4, <1>6, <1>9, <1>10 DEF CatalogInv, Tables

\* What an operator reviews is recorded with the resolutions that follow from it.
LEMMA ReviewStep ==
  ASSUME CatalogInv, NEW w \in CatalogWorkers, NEW id \in Programs, NEW rps, NEW index, NEW kind,
         NEW value, Review(w, id, rps, index, kind, value)
  PROVE  CatalogInv'
<1> DEFINE loaded   == Only(policy[id])
           rated    == IF rps = NoRate THEN loaded ELSE ResolveRate(loaded, rps)
           program  == IF index = 0 THEN rated ELSE ResolveGuardrail(rated, index, kind, value)
           resolved == {loaded.issues[i] : i \in Unresolved(loaded) \ Unresolved(program)}
           ws       == [catalog EXCEPT ![id].sync = IF Ready(program) THEN "ready" ELSE "needs_review"]
           m        == [Idle EXCEPT !.at = "dump", !.id = id, !.program = {program}, !.ws = ws]
<1>1. /\ UNCHANGED <<policy, reports>> /\ Captured' /\ policy[id] # {} /\ Goes(w, m)
      /\ reviewed' = reviewed \cup {<<id, i.code, i.text>> : i \in resolved}
      /\ index # 0 => CanGuard(rated, index, kind)
  BY DEF Review, files, CatalogInv, Captured
<1>2. Kept(id, loaded, reviewed)
  BY <1>1 DEF CatalogInv, Policies, Only
<1>3. Shaped(loaded) /\ Covered(loaded) /\ Rated(loaded)
  BY <1>2 DEF Kept
<1> HIDE DEF loaded
<1>4. /\ Shaped(rated) /\ Covered(rated) /\ Rated(rated)
      /\ DOMAIN rated.issues = DOMAIN loaded.issues
      /\ \A i \in DOMAIN loaded.issues : /\ rated.issues[i].code = loaded.issues[i].code
                                         /\ rated.issues[i].text = loaded.issues[i].text
  <2>1. CASE rps = NoRate
    BY <1>3, <2>1
  <2>2. CASE rps # NoRate
    <3> DEFINE p == ResolveRate(loaded, rps)
    <3>1. rated = p
      BY <2>2
    <3> HIDE DEF rated
    <3>2. /\ Shaped(p) /\ Covered(p) /\ Rated(p) /\ DOMAIN p.issues = DOMAIN loaded.issues
          /\ \A i \in DOMAIN loaded.issues : /\ p.issues[i].code = loaded.issues[i].code
                                             /\ p.issues[i].text = loaded.issues[i].text
      BY <1>3, <2>2, RatingKeeps
    <3> HIDE DEF p
    <3> QED BY <3>1, <3>2
  <2> QED BY <2>1, <2>2
<1> HIDE DEF rated
<1>5. /\ Shaped(program) /\ Covered(program) /\ Rated(program)
      /\ DOMAIN program.issues = DOMAIN loaded.issues
      /\ \A i \in DOMAIN loaded.issues : /\ program.issues[i].code = loaded.issues[i].code
                                         /\ program.issues[i].text = loaded.issues[i].text
  <2>1. CASE index = 0
    BY <1>4, <2>1
  <2>2. CASE index # 0
    <3> DEFINE p == ResolveGuardrail(rated, index, kind, value)
    <3>1. program = p
      BY <2>2
    <3> HIDE DEF program
    <3>2. /\ Shaped(p) /\ Covered(p) /\ Rated(p) /\ DOMAIN p.issues = DOMAIN rated.issues
          /\ \A i \in DOMAIN rated.issues : /\ p.issues[i].code = rated.issues[i].code
                                            /\ p.issues[i].text = rated.issues[i].text
      BY <1>1, <1>4, <2>2, GuardingKeeps
    <3> HIDE DEF p
    <3> QED BY <1>4, <3>1, <3>2
  <2> QED BY <2>1, <2>2
<1> HIDE DEF program
<1>6. Backed(id, program, reviewed')
  <2> SUFFICES ASSUME NEW i \in DOMAIN program.issues, program.issues[i].resolution # {}
               PROVE  <<id, program.issues[i].code, program.issues[i].text>> \in reviewed'
    BY DEF Backed
  <2>1. i \in DOMAIN loaded.issues /\ program.issues[i].code = loaded.issues[i].code
        /\ program.issues[i].text = loaded.issues[i].text
    BY <1>5
  <2>2. CASE loaded.issues[i].resolution # {}
    BY <1>1, <1>2, <2>1, <2>2 DEF Kept, Backed
  <2>3. CASE loaded.issues[i].resolution = {}
    <3>1. i \in Unresolved(loaded) \ Unresolved(program)
      BY <2>1, <2>3 DEF Unresolved
    <3>2. loaded.issues[i] \in resolved
      BY <3>1
    <3> HIDE DEF resolved
    <3> QED BY <1>1, <2>1, <3>2
  <2> QED BY <2>2, <2>3
<1> HIDE DEF resolved
<1>7. reviewed \subseteq reviewed' /\ Kept(id, program, reviewed')
  BY <1>1, <1>5, <1>6 DEF Kept
<1>8. m = [Idle EXCEPT !.at = "dump", !.id = id, !.program = {program}, !.ws = ws]
  OBVIOUS
<1> HIDE DEF m, ws
<1>9. m = [at |-> "dump", ws |-> ws, id |-> id, program |-> {program}, previous |-> {},
           capture |-> {}, seen |-> 0, live |-> FALSE]
  <2>1. Idle = [at |-> "idle", ws |-> <<>>, id |-> Listing, program |-> {}, previous |-> {},
                capture |-> {}, seen |-> 0, live |-> FALSE]
    BY DEF Idle
  <2> QED BY <1>8, <2>1
<1>10. MemoryKept(m, reviewed')
  <2>1. m.seen \in Nat
    BY <1>9
  <2> QED BY <1>7, <1>9, <2>1 DEF MemoryKept
<1>11. Commands' /\ DOMAIN worker' = CatalogWorkers /\ worker' = [v \in CatalogWorkers |-> worker'[v]]
  BY <1>1, <1>7, <1>10, CommandGoes
<1>12. Policies' /\ Judged'
  BY <1>1, <1>7, ReviewsGrow DEF Policies
<1>13. Tables'
  BY <1>1, <1>11 DEF CatalogInv, Tables
<1> QED BY <1>1, <1>11, <1>12, <1>13 DEF CatalogInv

\* A report is about the policy the command read.
LEMMA JudgeStep ==
  ASSUME CatalogInv, NEW w \in CatalogWorkers, NEW ready, Judge(w, ready)
  PROVE  CatalogInv'
<1> DEFINE o       == worker[w]
           program == Only(o.program)
           shot    == Only(captures[o.id])
           drift   == Drift(o.previous, program)
           report  == [id |-> o.id, program |-> program, shot |-> shot, drift |-> drift,
                       eligible |-> Eligible(program, shot, drift, ready),
                       reviews |-> reviews[o.id], live |-> o.live]
<1>1. /\ UNCHANGED <<policy, reviewed>> /\ Captured' /\ o.at = "judge" /\ Goes(w, Idle)
      /\ reports' = reports \/ reports' = Append(reports, report)
  BY DEF Judge, files, CatalogInv, Captured
<1>2. Kept(o.id, program, reviewed)
  <2>1. MemoryKept(o, reviewed)
    BY DEF CatalogInv, Commands
  <2> QED BY <1>1, <2>1 DEF MemoryKept, Only
<1>3. /\ report.id = o.id /\ report.program = program
      /\ report.eligible => Ready(program)
  BY DEF Eligible
<1> HIDE DEF report, o, program
<1>4. Judged'
  <2>1. PICK R : /\ reports \in Seq(R)
                 /\ \A r \in R : r.eligible => /\ Kept(r.id, r.program, reviewed)
                                              /\ Ready(r.program)
    BY DEF CatalogInv, Judged
  <2> DEFINE Q == R \cup {report}
  <2>2. reports' \in Seq(Q)
    <3>1. reports \in Seq(Q) /\ report \in Q
      BY <2>1
    <3> HIDE DEF Q
    <3> QED BY <1>1, <3>1
  <2>3. \A r \in Q : r.eligible => Kept(r.id, r.program, reviewed') /\ Ready(r.program)
    BY <1>1, <1>2, <1>3, <2>1
  <2> HIDE DEF Q
  <2> QED BY <2>2, <2>3 DEF Judged
<1>5. reviewed \subseteq reviewed' /\ MemoryKept(Idle, reviewed')
  BY <1>1, IdleKept
<1>6. Commands' /\ DOMAIN worker' = CatalogWorkers /\ worker' = [v \in CatalogWorkers |-> worker'[v]]
  BY <1>1, <1>5, CommandGoes
<1> QED BY <1>1, <1>4, <1>6 DEF CatalogInv, Tables, Policies

LEMMA CatalogSteps == CatalogInv /\ [CatNext]_catVars => CatalogInv'
<1> SUFFICES ASSUME CatalogInv, [CatNext]_catVars PROVE CatalogInv'
  OBVIOUS
<1>1. ASSUME UNCHANGED <<policy, worker, reports, reviewed>>, Captured' PROVE CatalogInv'
  BY <1>1 DEF CatalogInv, Tables, Commands, Policies, Judged
<1>2. CASE UNCHANGED catVars
  BY <1>1, <1>2 DEF catVars, CatalogInv, Captured
<1>3. CASE CatalogTick
  BY <1>1, <1>3 DEF CatalogTick, files, history, CatalogInv, Captured
<1>4. ASSUME NEW w \in CatalogWorkers, Operator(w) PROVE CatalogInv'
  <2>1. ASSUME NEW u, NEW lines \in Pages \cup {NoLines}, NEW s, CaptureLatest(w, Shot(u, lines, s))
        PROVE  CatalogInv'
    <3>1. Shot(u, lines, s).lines \in Pages \cup {NoLines}
      BY DEF Shot
    <3>2. Captured'
      BY <2>1, <3>1, CaptureReplaced DEF CaptureLatest, CatalogInv
    <3> QED BY <1>1, <2>1, <3>2 DEF CaptureLatest, history
  <2>2. ASSUME NEW id \in Programs, NEW u, NEW lines \in Pages \cup {NoLines}, NEW s,
               BeginDetail(w, id, Shot(u, lines, s))
        PROVE  CatalogInv'
    <3>1. Shot(u, lines, s).lines \in Pages \cup {NoLines}
      BY DEF Shot
    <3> QED BY <2>2, <3>1, DetailStep
  <2>3. ASSUME NEW listed, BeginDiscover(w, listed) PROVE CatalogInv'
    BY <2>3, StartsStep
  <2>4. ASSUME NEW chosen, BeginSelect(w, chosen) PROVE CatalogInv'
    BY <2>4, StartsStep
  <2>5. ASSUME NEW id \in Programs, BeginLive(w, id) \/ BeginCached(w, id) PROVE CatalogInv'
    BY <2>5, StartsStep
  <2> QED BY <1>4, <2>1, <2>2, <2>3, <2>4, <2>5, ReviewStep DEF Operator
<1>5. ASSUME NEW w \in CatalogWorkers, Proceed(w) \/ Abandon(w) PROVE CatalogInv'
  BY <1>5, ReadingStep, ImportStep, DumpStep, JudgeStep DEF Proceed
<1> QED BY <1>2, <1>3, <1>4, <1>5 DEF CatNext

\* Neither a missing review nor a lost one lets a program through.
THEOREM ReviewsAreHeld == CatSpec => []ReviewsHold
<1>1. CatalogInv => ReviewsHold
  <2> SUFFICES ASSUME CatalogInv PROVE ReviewsHold
    OBVIOUS
  <2>1. EligibleReviewed
    <3>1. PICK R : /\ reports \in Seq(R)
                   /\ \A r \in R : r.eligible => /\ Kept(r.id, r.program, reviewed)
                                                /\ Ready(r.program)
      BY DEF CatalogInv, Judged
    <3> SUFFICES ASSUME NEW n \in DOMAIN reports, reports[n].eligible,
                        NEW l \in Range(reports[n].program.source), NEW c \in l.issues
                 PROVE  <<reports[n].id, c, l.text>> \in reviewed
      BY DEF EligibleReviewed
    <3> DEFINE r == reports[n]
               q == r.program
    <3>2. r \in R
      BY <3>1
    <3>3. Kept(r.id, q, reviewed) /\ Ready(q)
      BY <3>1, <3>2
    <3> HIDE DEF r, q
    <3>4. l \in Range(q.source)
      BY DEF q, r
    <3>5. PICK i \in DOMAIN q.issues : q.issues[i].code = c /\ q.issues[i].text = l.text
      BY <3>3, <3>4 DEF Kept, Covered
    <3>6. q.issues[i].resolution # {}
      BY <3>3, <3>5 DEF Ready, Unresolved
    <3>7. <<r.id, c, l.text>> \in reviewed
      BY <3>3, <3>5, <3>6 DEF Kept, Backed
    <3> QED BY <3>7 DEF r
  <2>2. ReviewedRateKept
    BY DEF ReviewedRateKept, CatalogInv, Policies, Kept, Rated
  <2> QED BY <2>1, <2>2 DEF ReviewsHold
<1> QED BY <1>1, CatalogBegins, CatalogSteps, PTL DEF CatSpec
=============================================================================
