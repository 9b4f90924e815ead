------------------------ MODULE WorkerObservation ------------------------
(***************************************************************************)
(* One observation by the HTTP worker, and the observations that run next  *)
(* to it.  Processes (observe-http, observe-authenticated-http and         *)
(* ctf-observe-http) present a permit to the runtime database or to the    *)
(* permit store, the latter followed by a slot of the rate-state file;     *)
(* they send the request to the addresses of the host, one after the       *)
(* other, and keep what they saw as evidence.                              *)
(*                                                                         *)
(* The rate-state file is locked by a file created with O_EXCL, which      *)
(* outlives a process that dies in the middle.  A slot is stamped with a   *)
(* time read before the lock is taken.                                     *)
(***************************************************************************)
EXTENDS Naturals, Sequences, FiniteSets

CONSTANTS
  Workers,      \* processes, one observation each
  WorkerRequests,     \* what a process may be started with
  Origins,      \* the origins of the session, the declared endpoints
  Addresses,    \* how many addresses the host has
  Second,       \* ticks of the clock per second
  RateInterval,     \* ticks between two requests at the permitted rate
  Patience,     \* ticks a process waits for the lock
  MaxTime, MaxCrashes \* bounds

Nobody == "nobody"

ASSUME WorkersAssumption == Nobody \notin Workers
ASSUME RateAssumption == {Second, RateInterval, Patience} \subseteq Nat \ {0} /\ Addresses \in Nat
ASSUME WorkerRequestsAssumption ==
  \A r \in WorkerRequests : /\ r.command \in {"observe", "authenticated", "ctf"}
                      /\ r.store \in {"db", "file"}

VARIABLES
  time,
  spent,     \* the permits consumed, in each store
  nextSlot,  \* when the runtime database admits the next request
  stamps,    \* rate-state.json
  lockfile,  \* rate-state.json.lock
  task,       \* the processes
  events,    \* the events each process appended to the audit log
  artifact,  \* the evidence files
  registered,\* the evidence manifest
  wire,      \* history: requests each process has put on the wire
  granted,   \* history: stamps handed out by the rate-state file
  deaths

observationVars == <<time, spent, nextSlot, stamps, lockfile, task, events,
                     artifact, registered, wire, granted, deaths>>

Request(w) == task[w].request
GoesTo(w, at) == task' = [task EXCEPT ![w].at = at]
Log(w, event) == events' = [events EXCEPT ![w] = Append(@, event)]
Running(w) == task[w].at \notin {"raised", "done", "dead"}

WorkersInit ==
  /\ time = 0 /\ nextSlot = 0 /\ deaths = 0
  /\ spent = [s \in {"db", "file"} |-> {}]
  /\ stamps = {} /\ lockfile = Nobody
  /\ task \in [Workers -> [at : {"called"}, request : WorkerRequests, instant : {0},
                          left : {0}, outcome : {""}]]
  /\ events = [w \in Workers |-> <<>>]
  /\ artifact = [path \in {r.path : r \in WorkerRequests} |-> "absent"]
  /\ registered = {}
  /\ wire = [w \in Workers |-> 0]
  /\ granted = {}
-----------------------------------------------------------------------------
(***************************************************************************)
(* Before anything is consumed.                                            *)
(***************************************************************************)
\* What the session profile and the challenge allow.
TargetAllowed(r) == r.origin \in Origins
EndpointDeclared(r) == r.automation /\ r.origin \in Origins
WithinCapability(r) == r.method \in {"GET", "HEAD"} /\ r.bounded

\* The call of the worker: nothing is consumed by one that is refused.
Called(w, accepted) ==
  /\ task[w].at = "called"
  /\ GoesTo(w, IF accepted /\ WithinCapability(Request(w)) THEN "admit" ELSE "raised")
  /\ UNCHANGED <<time, spent, nextSlot, stamps, lockfile, events, artifact, registered,
                 wire, granted, deaths>>

ObserveHttp(w) == Request(w).command = "observe" /\ Called(w, TRUE)
ObserveAuthenticatedHttp(w) ==
  Request(w).command = "authenticated" /\ Called(w, TargetAllowed(Request(w)))
CtfObserveHttp(w) ==
  Request(w).command = "ctf" /\ Called(w, EndpointDeclared(Request(w)))

Spend(r) == spent' = [spent EXCEPT ![r.store] = @ \cup {r.permit}]

\* Permit and slot in one transaction of the runtime database.
AdmitRuntime(w) ==
  LET r == Request(w) IN
  /\ task[w].at = "admit" /\ r.store = "db"
  /\ IF r.permit \notin spent["db"] /\ time >= nextSlot
     THEN Spend(r) /\ nextSlot' = time + RateInterval /\ GoesTo(w, "start") /\ UNCHANGED events
     ELSE /\ GoesTo(w, "raised") /\ UNCHANGED <<spent, nextSlot>>
          /\ Log(w, IF r.permit \in spent["db"] THEN "rejected" ELSE "rate_limited")
  /\ UNCHANGED <<time, stamps, lockfile, artifact, registered, wire, granted, deaths>>

\* The permit first, the slot after it.
ConsumeFile(w) ==
  LET r == Request(w) IN
  /\ task[w].at = "admit" /\ r.store = "file"
  /\ IF r.permit \notin spent["file"]
     THEN Spend(r) /\ GoesTo(w, "slot") /\ UNCHANGED events
     ELSE Log(w, "rejected") /\ GoesTo(w, "raised") /\ UNCHANGED spent
  /\ UNCHANGED <<time, nextSlot, stamps, lockfile, artifact, registered, wire, granted,
                 deaths>>
-----------------------------------------------------------------------------
(***************************************************************************)
(* The rate-state file.                                                    *)
(***************************************************************************)
ReadClock(w) ==
  /\ task[w].at = "slot"
  /\ task' = [task EXCEPT ![w].at = "lock", ![w].instant = time]
  /\ UNCHANGED <<time, spent, nextSlot, stamps, lockfile, events, artifact, registered,
                 wire, granted, deaths>>

TakeLock(w) ==
  /\ task[w].at = "lock"
  /\ \/ lockfile = Nobody /\ lockfile' = w /\ GoesTo(w, "locked")
     \/ /\ lockfile # Nobody /\ time >= task[w].instant + Patience
        /\ GoesTo(w, "raised") /\ UNCHANGED lockfile
  /\ UNCHANGED <<time, spent, nextSlot, stamps, events, artifact, registered, wire,
                 granted, deaths>>

\* The stamps of the last second, and whether the newest leaves room.
Recent(instant) == {s \in stamps : s + Second > instant}
RoomAfter_Boundary(recent, instant) == \A s \in recent : instant >= s + RateInterval - 1
RoomAfter(recent, instant) == \A s \in recent : instant >= s + RateInterval

AcquireRateSlot(w) ==
  LET instant == task[w].instant
      recent == Recent(instant)
      free == RoomAfter(recent, instant)
  IN /\ task[w].at = "locked"
     /\ stamps' = IF free THEN recent \cup {instant} ELSE recent
     /\ granted' = IF free THEN granted \cup {<<w, instant>>} ELSE granted
     /\ GoesTo(w, IF free THEN "unlock" ELSE "limited")
     /\ UNCHANGED <<time, spent, nextSlot, lockfile, events, artifact, registered,
                    wire, deaths>>

Unlock(w) ==
  /\ task[w].at \in {"unlock", "limited"}
  /\ lockfile' = Nobody
  /\ IF task[w].at = "unlock" THEN GoesTo(w, "start") /\ UNCHANGED events
     ELSE GoesTo(w, "raised") /\ Log(w, "rate_limited")
  /\ UNCHANGED <<time, spent, nextSlot, stamps, artifact, registered, wire, granted,
                 deaths>>
-----------------------------------------------------------------------------
(***************************************************************************)
(* The request.                                                            *)
(***************************************************************************)
Start(w) ==
  /\ task[w].at = "start"
  /\ Log(w, "started")
  /\ GoesTo(w, IF Request(w).command = "authenticated" THEN "secrets" ELSE "resolve")
  /\ UNCHANGED <<time, spent, nextSlot, stamps, lockfile, artifact, registered, wire,
                 granted, deaths>>

\* The secrets of the session, resolved when the transport is opened.
ResolveSecrets(w) ==
  /\ task[w].at = "secrets"
  /\ GoesTo(w, "resolve") \/ GoesTo(w, "raised")
  /\ UNCHANGED <<time, spent, nextSlot, stamps, lockfile, events, artifact, registered,
                 wire, granted, deaths>>

Failing(w, kind) == task' = [task EXCEPT ![w].at = "write", ![w].outcome = kind]

ResolveEndpoint(w) ==
  /\ task[w].at = "resolve"
  /\ \/ Failing(w, "dns")
     \/ task' = [task EXCEPT ![w].at = "open", ![w].left = Addresses]
  /\ UNCHANGED <<time, spent, nextSlot, stamps, lockfile, events, artifact, registered,
                 wire, granted, deaths>>

\* The next address: no connection, a request without an answer, no TLS, or
\* a response.
OpenAddress(w) ==
  /\ task[w].at = "open"
  /\ IF task[w].left = 0
     THEN Failing(w, "connection") /\ UNCHANGED wire
     ELSE \/ /\ wire' \in {wire, [wire EXCEPT ![w] = @ + 1]}
             /\ task' = [task EXCEPT ![w].left = @ - 1]
          \/ Failing(w, "tls") /\ wire' \in {wire, [wire EXCEPT ![w] = @ + 1]}
          \/ GoesTo(w, "body") /\ wire' = [wire EXCEPT ![w] = @ + 1]
  /\ UNCHANGED <<time, spent, nextSlot, stamps, lockfile, events, artifact, registered,
                 granted, deaths>>

\* A body that ends early raises what no handler of the worker expects.
ReadBounded(w) ==
  /\ task[w].at = "body"
  /\ \/ task' = [task EXCEPT ![w].at = "write", ![w].outcome = "response"]
     \/ GoesTo(w, "raised")
  /\ UNCHANGED <<time, spent, nextSlot, stamps, lockfile, events, artifact, registered,
                 wire, granted, deaths>>
-----------------------------------------------------------------------------
(***************************************************************************)
(* The evidence: written, registered, and told to the audit log.           *)
(***************************************************************************)
WriteArtifact(w) ==
  /\ task[w].at = "write"
  /\ artifact' = [artifact EXCEPT ![Request(w).path] = <<w, task[w].outcome>>]
  /\ GoesTo(w, "register")
  /\ UNCHANGED <<time, spent, nextSlot, stamps, lockfile, events, registered, wire,
                 granted, deaths>>

\* The hash is that of the file as it is when it is registered.
RegisterArtifact(w) ==
  /\ task[w].at = "register"
  /\ registered' = registered \cup {<<Request(w).path, artifact[Request(w).path]>>}
  /\ GoesTo(w, "report")
  /\ UNCHANGED <<time, spent, nextSlot, stamps, lockfile, events, artifact, wire, granted,
                 deaths>>

ReportObservation(w) ==
  /\ task[w].at = "report"
  /\ Log(w, IF task[w].outcome = "response" THEN "completed" ELSE "failed")
  /\ GoesTo(w, IF task[w].outcome = "response" THEN "done" ELSE "raised")
  /\ UNCHANGED <<time, spent, nextSlot, stamps, lockfile, artifact, registered, wire,
                 granted, deaths>>

Die(w) ==
  /\ deaths < MaxCrashes /\ Running(w)
  /\ deaths' = deaths + 1
  /\ GoesTo(w, "dead")
  /\ UNCHANGED <<time, spent, nextSlot, stamps, lockfile, events, artifact, registered,
                 wire, granted>>

Tock ==
  /\ time < MaxTime
  /\ time' = time + 1
  /\ UNCHANGED <<spent, nextSlot, stamps, lockfile, task, events, artifact, registered,
                 wire, granted, deaths>>

Observing(w) ==
  \/ ObserveHttp(w) \/ ObserveAuthenticatedHttp(w) \/ CtfObserveHttp(w)
  \/ AdmitRuntime(w) \/ ConsumeFile(w)
  \/ ReadClock(w) \/ TakeLock(w) \/ AcquireRateSlot(w) \/ Unlock(w)
  \/ Start(w) \/ ResolveSecrets(w) \/ ResolveEndpoint(w) \/ OpenAddress(w)
  \/ ReadBounded(w) \/ WriteArtifact(w) \/ RegisterArtifact(w) \/ ReportObservation(w)

WorkersNext == Tock \/ \E w \in Workers : Observing(w) \/ Die(w)

WorkersSpec == WorkersInit /\ [][WorkersNext]_observationVars
-----------------------------------------------------------------------------
(***************************************************************************)
(* Properties.                                                             *)
(***************************************************************************)
\* How far apart the file keeps two slots: it looks back one second, so that a longer
\* interval is kept for a second only.
SlotGap == IF RateInterval <= Second THEN RateInterval ELSE Second

\* Two slots of the rate-state file are that far apart, whichever processes asked for them
\* with instants read before they waited for the lock, or died holding it.
SlotSpacing ==
  \A g \in granted, h \in granted : g # h => g[2] >= h[2] + SlotGap \/ h[2] >= g[2] + SlotGap

\* Of the processes that were given one permit, at most one ever puts a request on the
\* wire, and so for as long as the store of the permit is kept.
OneProcessPerPermit ==
  \A w \in Workers, v \in Workers :
    /\ w # v /\ wire[w] > 0 /\ wire[v] > 0
    => Request(w).permit # Request(v).permit \/ Request(w).store # Request(v).store

\* An evidence file, however many processes write it, is in the manifest as it is, unless
\* the one that wrote it last has yet to register it or died before it did.
EvidenceRegistered ==
  \A path \in DOMAIN artifact :
    artifact[path] # "absent" =>
      \/ <<path, artifact[path]>> \in registered
      \/ task[artifact[path][1]].at \in {"register", "dead"}

\* What the observing processes may rely on of the files they share.
SharedFilesHold == SlotSpacing /\ OneProcessPerPermit /\ EvidenceRegistered

\* "Perform one permit-gated GET/HEAD observation": a permit is good for one
\* request.
AtMostOneRequest == \A w \in Workers : wire[w] <= 1
=============================================================================
