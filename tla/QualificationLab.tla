-------------------------- MODULE QualificationLab --------------------------
(***************************************************************************)
(* Physical qualification of the worker runtimes on the operator's host.   *)
(*                                                                         *)
(* The build script moves a runtime's image tag and then writes which      *)
(* image it built.  A qualification run issues a permit, writes the        *)
(* runtime's request file, consumes the permit, launches a container of    *)
(* the tag, and keeps what came back as evidence and as probes of the      *)
(* image the provenance file names at that time.  The adaptive assessment  *)
(* is two runs, one after the other, and a trace of both.  The readiness   *)
(* evaluation judges manifest, runtimes and trace, one after the other.    *)
(*                                                                         *)
(* All of them are processes of their own on one directory; register_      *)
(* evidence holds the manifest's lock (ObservationSession) and is one step.*)
(***************************************************************************)
EXTENDS Naturals, Sequences

CONSTANTS
  LabRuns,        \* runs, each with the permit it is issued
  LabRuntimes,
  Observer, Verifier, \* the runtimes of the adaptive assessment
  LabJobs,        \* what an operator starts a run with
  Health,         \* the target both runs of an assessment ask for
  OfflineProbes,  \* what the offline scripts probe
  Prepared,       \* the runtimes that begin built and probed offline
  NoLabRun,
  MaxImages       \* bound: builds of each runtime

ASSUME LabAssumption ==
  /\ NoLabRun \notin LabRuns
  /\ {Observer, Verifier} \cup Prepared \subseteq LabRuntimes
  /\ \A job \in LabJobs : job.runtime \in LabRuntimes

VARIABLES
  tagged,      \* the image the tag of a runtime names, 0 for none
  provenance,  \* images/<runtime>.json: the image it names, 0 for no file
  building,    \* the build script, per runtime
  requestFile, \* tmp/<runtime>-authorized-lab-request.json: whose request
  labSpent,    \* permit-state.json: consumed permits
  lab,         \* the runs
  labFiles,    \* evidence/: what a file holds
  labManifest, \* evidence-manifest.jsonl
  probes,      \* the probe records on disk
  adaptive,    \* the adaptive assessment
  readiness    \* the readiness evaluation

labVars == <<tagged, provenance, building, requestFile, labSpent, lab,
             labFiles, labManifest, probes, adaptive, readiness>>

RunProbes == {"permit-before-io", "receipt-ingestion", "bounded-output"}
RequiredProbes == {"image-digest"} \cup OfflineProbes \cup RunProbes

NotStarted ==
  [at |-> "idle", runtime |-> Observer, target |-> Health, bounded |-> FALSE, image |-> 0,
   ran |-> 0, asked |-> Health, truncated |-> FALSE]

(* The evidence directory and its manifest. *)

\* The files of a run lie in a directory of its permit.
RunFile(name, r) == <<name, lab[r].runtime, r>>
CommandFile(r) == RunFile("command", r)
ConsumptionFile(r) == RunFile("permit-consumption", r)
OutputFile(r) == RunFile("output", r)
ReceiptFile(r) == <<"worker-receipts", r>>
TraceFile == <<"adaptive-assessment", adaptive.observation, adaptive.verification>>
RecordFile(p) == <<"probe", p>>
SourceFile(p) == <<"probe-source", p>>

\* Each of `paths` is written by, and holds, `content`.
Written(paths, content) ==
  [f \in DOMAIN labFiles \cup paths |-> IF f \in paths THEN content ELSE labFiles[f]]

\* The manifest keeps the path and the hash of what the file holds.
Entry(path, files) == [path |-> path, content |-> files[path]]
Registered(path) == \E e \in labManifest : e.path = path

\* verify_evidence_manifest with verify_artifacts
ManifestVerifies ==
  \A e \in labManifest : e.path \in DOMAIN labFiles /\ labFiles[e.path] = e.content

Probe(runtime, probe, run) ==
  [runtime |-> runtime, image |-> provenance[runtime], probe |-> probe, run |-> run]

\* record_physical_probe: the source is copied and registered, the record is
\* written and registered, unless the process dies before that.
RecordProbe(p, content, complete) ==
  LET files == [f \in DOMAIN labFiles \cup {SourceFile(p), RecordFile(p)} |->
                  IF f = SourceFile(p) THEN content
                  ELSE IF f = RecordFile(p) THEN p.run ELSE labFiles[f]] IN
  /\ p \notin probes
  /\ labFiles' = files
  /\ labManifest' = labManifest \cup {Entry(SourceFile(p), files)}
                       \cup (IF complete THEN {Entry(RecordFile(p), files)} ELSE {})
  /\ probes' = probes \cup {p}

\* The first image of a prepared runtime was built and probed by the scripts.
LabInit ==
  /\ tagged = [t \in LabRuntimes |-> IF t \in Prepared THEN 1 ELSE 0]
  /\ provenance = tagged
  /\ building = [t \in LabRuntimes |-> "idle"]
  /\ requestFile = [t \in LabRuntimes |-> NoLabRun]
  /\ labSpent = {}
  /\ lab = [r \in LabRuns |-> NotStarted]
  /\ probes = [runtime : Prepared, image : {1}, probe : {"image-digest"} \cup OfflineProbes,
               run : {NoLabRun}]
  /\ labFiles = [f \in {SourceFile(p) : p \in probes} \cup {RecordFile(p) : p \in probes}
                   |-> NoLabRun]
  /\ labManifest = {Entry(f, labFiles) : f \in DOMAIN labFiles}
  /\ adaptive = [at |-> "idle", observation |-> NoLabRun, verification |-> NoLabRun]
  /\ readiness = [at |-> "idle", manifest |-> FALSE, judged |-> {}, qualified |-> {},
                  ready |-> FALSE]
-----------------------------------------------------------------------------
(* The scripts.  One that is stopped between two of its commands has done     *)
(* the first ones.                                                           *)

BuildImage(t) ==
  /\ tagged[t] < MaxImages[t]
  /\ tagged' = [tagged EXCEPT ![t] = @ + 1]
  /\ building' = [building EXCEPT ![t] = "built"]
  /\ UNCHANGED <<provenance, requestFile, labSpent, lab, labFiles, labManifest, probes,
                 adaptive, readiness>>

WriteProvenance(t) ==
  /\ building[t] = "built"
  /\ provenance' = [provenance EXCEPT ![t] = tagged[t]]
  /\ building' = [building EXCEPT ![t] = "written"]
  /\ UNCHANGED <<tagged, requestFile, labSpent, lab, labFiles, labManifest, probes,
                 adaptive, readiness>>

ProbeDigest(t) ==
  /\ building[t] = "written"
  /\ RecordProbe(Probe(t, "image-digest", NoLabRun), NoLabRun, TRUE)
  /\ building' = [building EXCEPT ![t] = "idle"]
  /\ UNCHANGED <<tagged, provenance, requestFile, labSpent, lab, adaptive, readiness>>

\* An offline container of the tag passes, which is filed under the provenance.
ProbeOffline(t, probe) ==
  /\ tagged[t] # 0
  /\ provenance[t] # 0
  /\ RecordProbe(Probe(t, probe, NoLabRun), NoLabRun, TRUE)
  /\ UNCHANGED <<tagged, provenance, building, requestFile, labSpent, lab, adaptive,
                 readiness>>

-----------------------------------------------------------------------------
(* A qualification run.                                                      *)

LabStep(r, from, to) == lab[r].at = from /\ lab' = [lab EXCEPT ![r].at = to]

\* The lab is found running, the provenance read, a permit issued for the exact
\* action, and the request written where the runtime's last one was.
BeginRun(r, job) ==
  /\ lab[r].at = "idle"
  /\ provenance[job.runtime] # 0
  /\ lab' = [lab EXCEPT ![r] =
       [NotStarted EXCEPT !.at = "requested", !.runtime = job.runtime, !.target = job.target,
          !.bounded = job.bounded, !.image = provenance[job.runtime]]]
  /\ requestFile' = [requestFile EXCEPT ![job.runtime] = r]
  /\ UNCHANGED <<tagged, provenance, building, labSpent, labFiles, labManifest,
                 probes, readiness>>

OperatorRun(r) == \E job \in LabJobs : BeginRun(r, job) /\ UNCHANGED adaptive

ConsumePermit(r) ==
  /\ LabStep(r, "requested", "consumed")
  /\ r \notin labSpent
  /\ labSpent' = labSpent \cup {r}
  /\ UNCHANGED <<tagged, provenance, building, requestFile, labFiles, labManifest,
                 probes, adaptive, readiness>>

\* Bound: one run dies.
MayDie == \A q \in LabRuns : lab[q].at # "failed"

\* What a run does to files of its own is one step; if it dies on the way,
\* the registrations it got to are a first part of `all`.
Reaches(r, files, all, to) ==
  \E n \in 0..Len(all) :
    /\ n < Len(all) => MayDie
    /\ labFiles' = files
    /\ labManifest' = labManifest \cup {Entry(all[i], files) : i \in 1..n}
    /\ lab' = [lab EXCEPT ![r].at = IF n = Len(all) THEN to ELSE "failed"]

\* compile_authorized_lab_run: the proof is of a consumed permit, this run's,
\* and of the run's own target.
Compiles(r) == r \in labSpent

\* As it was before M40.4a: the runs of a runtime keep them in one directory.
KeepCommand_PerRuntime(r) ==
  /\ lab[r].at = "consumed"
  /\ Reaches(r, Written({CommandFile(r), ConsumptionFile(r)}
                  \cup {f \in DOMAIN labFiles : f[1] = "command" /\ f[2] = lab[r].runtime}, r),
             <<ConsumptionFile(r), CommandFile(r)>>, "ready")
  /\ UNCHANGED <<tagged, provenance, building, requestFile, labSpent, probes, adaptive, readiness>>

\* The directory of the permit must be new.
KeepCommand(r) ==
  /\ lab[r].at = "consumed"
  /\ Compiles(r)
  /\ {CommandFile(r), ConsumptionFile(r)} \cap DOMAIN labFiles = {}
  /\ Reaches(r, Written({CommandFile(r), ConsumptionFile(r)}, r),
             <<ConsumptionFile(r), CommandFile(r)>>, "ready")
  /\ UNCHANGED <<tagged, provenance, building, requestFile, labSpent, probes, adaptive, readiness>>

\* The worker takes its target from the request the runtime's file holds now.
Asked(r) == lab[requestFile[lab[r].runtime]].target

\* The container is of the image the tag names now.
Launch(r) ==
  /\ lab[r].at = "ready"
  /\ lab' = [lab EXCEPT ![r].at = "launched", ![r].ran = tagged[lab[r].runtime],
                        ![r].asked = Asked(r)]
  /\ UNCHANGED <<tagged, provenance, building, requestFile, labSpent, labFiles,
                 labManifest, probes, adaptive, readiness>>

Accepts_AnyTarget(r) == TRUE

\* The worker names the target it was asked for, which must be the run's.
Accepts(r) == lab[r].asked = lab[r].target

\* What comes back: whether the output was cut to its bound, and whether the
\* worker ended well and printed its result.
WorkerAnswers == [truncated : BOOLEAN, accepted : BOOLEAN]

\* The output is kept whatever it is; a run whose worker failed, or whose
\* output is bound to something else, ends there.
Answer(r, answer) ==
  /\ lab[r].at = "launched"
  /\ labFiles' = Written({OutputFile(r)}, r)
  /\ lab' = [lab EXCEPT ![r].at = IF answer.accepted /\ Accepts(r) THEN "answered" ELSE "failed",
                        ![r].truncated = answer.truncated]
  /\ UNCHANGED <<tagged, provenance, building, requestFile, labSpent, labManifest,
                 probes, adaptive, readiness>>

KeepReceipt(r) ==
  /\ lab[r].at = "answered"
  /\ Reaches(r, Written({ReceiptFile(r)}, r), <<ReceiptFile(r), OutputFile(r)>>, "probing")
  /\ UNCHANGED <<tagged, provenance, building, requestFile, labSpent, probes, adaptive, readiness>>

\* The probes of a run, in their order: where the run is, what the probe is
\* copied from, and where the run goes.
RunProbe(r) ==
  {[at |-> "probing", probe |-> "permit-before-io", source |-> ConsumptionFile(r),
    to |-> "probed"],
   [at |-> "probed", probe |-> "receipt-ingestion", source |-> ReceiptFile(r),
    to |-> "ingested"],
   [at |-> "ingested", probe |-> "bounded-output", source |-> OutputFile(r), to |-> "done"]}

\* The image is read again for each record.
ProbeRun(r) ==
  /\ provenance[lab[r].runtime] # 0
  /\ \E step \in RunProbe(r), complete \in BOOLEAN :
       /\ lab[r].at = step.at
       /\ ~complete => MayDie
       /\ step.probe = "bounded-output" => lab[r].truncated
       /\ RecordProbe(Probe(lab[r].runtime, step.probe, r), labFiles[step.source], complete)
       /\ lab' = [lab EXCEPT ![r].at = IF complete THEN step.to ELSE "failed"]
  /\ UNCHANGED <<tagged, provenance, building, requestFile, labSpent, adaptive, readiness>>

\* Nothing was truncated: the journal ends the run.
EndRun(r) ==
  /\ ~lab[r].truncated
  /\ LabStep(r, "ingested", "done")
  /\ UNCHANGED <<tagged, provenance, building, requestFile, labSpent, labFiles,
                 labManifest, probes, adaptive, readiness>>

\* The process dies, a command of its fails, or the worker exceeds its time:
\* the container goes on without it.
RunFails(r) ==
  /\ MayDie
  /\ lab[r].at \notin {"idle", "done", "failed"}
  /\ lab' = [lab EXCEPT ![r].at = "failed"]
  /\ UNCHANGED <<tagged, provenance, building, requestFile, labSpent, labFiles,
                 labManifest, probes, adaptive, readiness>>
-----------------------------------------------------------------------------
(* The adaptive assessment: observe, verify, trace.                          *)

Stage(runtime) == [runtime |-> runtime, target |-> Health, bounded |-> FALSE]

Observe(r) ==
  /\ adaptive.at = "idle"
  /\ BeginRun(r, Stage(Observer))
  /\ adaptive' = [adaptive EXCEPT !.at = "observing", !.observation = r]

Verify(r) ==
  /\ adaptive.at = "observing"
  /\ lab[adaptive.observation].at = "done"
  /\ BeginRun(r, Stage(Verifier))
  /\ adaptive' = [adaptive EXCEPT !.at = "verifying", !.verification = r]

\* A run's row: network I/O is reported unless the run was a bounded probe.
Performed(r) == ~lab[r].bounded

\* evaluate_physical_replan_gate: the next permit is another one.
FreshPermit(o, v) == o # v

\* Two stages: new evidence from performed network I/O under a fresh permit.
FreshStages(o, v) ==
  /\ ReceiptFile(o) # ReceiptFile(v)
  /\ Performed(o) /\ Performed(v)
  /\ FreshPermit(o, v)

\* build_physical_adaptive_trace
TraceAllowed(o, v) == lab[o].target = lab[v].target /\ FreshStages(o, v)

Trace ==
  /\ adaptive.at = "verifying"
  /\ lab[adaptive.verification].at = "done"
  /\ TraceAllowed(adaptive.observation, adaptive.verification)
  /\ labFiles' = Written({TraceFile}, adaptive.verification)
  /\ adaptive' = [adaptive EXCEPT !.at = "traced"]
  /\ UNCHANGED <<tagged, provenance, building, requestFile, labSpent, lab,
                 labManifest, probes, readiness>>

RegisterTrace ==
  /\ adaptive.at = "traced"
  /\ labManifest' = labManifest \cup {Entry(TraceFile, labFiles)}
  /\ adaptive' = [adaptive EXCEPT !.at = "registered"]
  /\ UNCHANGED <<tagged, provenance, building, requestFile, labSpent, lab, labFiles,
                 probes, readiness>>
-----------------------------------------------------------------------------
(* The readiness evaluation.                                                 *)

\* build_physical_probe_evidence: the records of the image.
Filed_AnyImage(t, image) == {p \in probes : p.runtime = t}

Filed(t, image) == {p \in probes : p.runtime = t /\ p.image = image}

\* evaluate_qualification_session and qualification_status: every probe, one of
\* them of a run in the lab, for the image the provenance names now.
Qualified(t) ==
  /\ provenance[t] # 0
  /\ RequiredProbes \subseteq {p.probe : p \in Filed(t, provenance[t])}
  /\ \E p \in Filed(t, provenance[t]) : p.run # NoLabRun
  /\ ManifestVerifies

\* Bound: asked for when the assessment has begun its last run.
BeginReadiness ==
  /\ readiness.at = "idle"
  /\ adaptive.verification # NoLabRun
  /\ readiness' = [readiness EXCEPT !.at = "judging", !.manifest = ManifestVerifies]
  /\ UNCHANGED <<tagged, provenance, building, requestFile, labSpent, lab, labFiles,
                 labManifest, probes, adaptive>>

\* One runtime after the other; what holds does not depend on the order.
JudgeRuntime(t) ==
  /\ readiness.at = "judging"
  /\ t \notin readiness.judged
  /\ readiness' = [readiness EXCEPT !.judged = @ \cup {t},
                                    !.qualified = IF Qualified(t) THEN @ \cup {t} ELSE @]
  /\ UNCHANGED <<tagged, provenance, building, requestFile, labSpent, lab, labFiles,
                 labManifest, probes, adaptive>>

\* The latest trace is present, intact and of two fresh permits.
TraceReady ==
  /\ adaptive.at \in {"traced", "registered"}
  /\ TraceFile \in DOMAIN labFiles
  /\ FreshStages(adaptive.observation, adaptive.verification)

Evaluate ==
  /\ readiness.at = "judging"
  /\ readiness.judged = LabRuntimes
  /\ readiness' = [readiness EXCEPT !.at = "reported",
       !.ready = readiness.manifest /\ readiness.qualified = LabRuntimes /\ TraceReady]
  /\ UNCHANGED <<tagged, provenance, building, requestFile, labSpent, lab, labFiles,
                 labManifest, probes, adaptive>>
-----------------------------------------------------------------------------
LabRun(r) ==
  \/ OperatorRun(r) \/ ConsumePermit(r) \/ KeepCommand(r) \/ Launch(r)
  \/ \E answer \in WorkerAnswers : Answer(r, answer)
  \/ KeepReceipt(r) \/ ProbeRun(r) \/ EndRun(r) \/ RunFails(r)
  \/ Observe(r) \/ Verify(r)

LabScripts ==
  \/ \E t \in LabRuntimes : BuildImage(t) \/ WriteProvenance(t) \/ ProbeDigest(t)
  \/ \E t \in LabRuntimes, probe \in OfflineProbes : ProbeOffline(t, probe)

LabNext ==
  \/ \E r \in LabRuns : LabRun(r)
  \/ LabScripts
  \/ Trace \/ RegisterTrace
  \/ BeginReadiness \/ Evaluate
  \/ \E t \in LabRuntimes : JudgeRuntime(t)

LabSpec == LabInit /\ [][LabNext]_labVars
-----------------------------------------------------------------------------
(* Properties.                                                               *)

\* "A later qualification run cannot overwrite an artifact already referenced
\* by the evidence manifest": whatever runs of a runtime overlap, fail or are
\* started again, everything registered holds what it held then.
LabEvidenceIntact == ManifestVerifies

\* A container starts only after its run's permit was consumed.
LaunchesPaid == \A r \in LabRuns : lab[r].ran # 0 => r \in labSpent

\* A probe of a run was recorded by a run that had paid, whose worker had been
\* asked for the run's own target, and whose receipt and output are registered;
\* the source of any probe record is registered, whoever died after it.
ProbesGrounded ==
  \A p \in probes :
    /\ Registered(SourceFile(p))
    /\ p.image # 0
    /\ p.run # NoLabRun =>
         /\ p.run \in labSpent
         /\ lab[p.run].ran # 0
         /\ lab[p.run].asked = lab[p.run].target
         /\ Registered(ReceiptFile(p.run)) /\ Registered(OutputFile(p.run))

\* A trace is of two runs that both ended well, one after the other, each with
\* a permit and a receipt of its own.
TraceGrounded ==
  adaptive.at \in {"traced", "registered"} =>
    /\ adaptive.observation # adaptive.verification
    /\ \A r \in {adaptive.observation, adaptive.verification} :
         /\ lab[r].at = "done" /\ r \in labSpent
         /\ \E p \in probes : p.run = r /\ p.probe = "receipt-ingestion"
                              /\ Registered(RecordFile(p))

FullyProbed(t) ==
  \E image \in {p.image : p \in probes} : \A name \in RequiredProbes :
    \E p \in probes : p.runtime = t /\ p.image = image /\ p.probe = name

\* A report that says ready was drawn from a trace and, for every runtime,
\* from all probes of one and the same image.
ReadinessBacked ==
  readiness.ready =>
    /\ adaptive.at \in {"traced", "registered"}
    /\ \A t \in LabRuntimes : FullyProbed(t)

\* What qualification rests on, in every state.
QualificationBacked ==
  LaunchesPaid /\ ProbesGrounded /\ TraceGrounded /\ ReadinessBacked

\* Not true of this code: "for its current image digest, an authorized-lab
\* permit-gated execution is present".  The tag moves before the provenance is
\* written, and runs are filed under the provenance.
ImageRan ==
  \A t \in LabRuntimes :
    Qualified(t) => \E r \in LabRuns : lab[r].runtime = t /\ lab[r].ran = provenance[t]

\* Not true of this code: a container executes the request of the run that paid
\* for it.  The runtime's runs share one request file.
OwnRequest ==
  [][\A r \in LabRuns : lab[r].ran = 0 /\ lab'[r].ran # 0 =>
       requestFile[lab[r].runtime] = r]_labVars
=============================================================================
