---------------------------- MODULE CallProcessing ----------------------------
(***************************************************************************)
(* The worker side: Handler.ProcessTask and Processor.process, one step    *)
(* per remote call.  A worker is a goroutine that runs the handler for one *)
(* delivery; ProcOf names its operating system process, within which the   *)
(* call lock registry serializes the deliveries of a call.  (The registry  *)
(* itself is the module CallLocks.)                                        *)
(*                                                                         *)
(* A delivery whose lease ended goes on running: Asynq cancels its context *)
(* and leaves the goroutine alone.  Each of its remote calls may then err, *)
(* or be far enough under way to succeed.                                  *)
(***************************************************************************)
EXTENDS CallQueue

CONSTANTS
    Workers,             \* handler goroutines
    ProcOf,              \* the process that runs each worker
    NoCall,              \* what an idle worker works on
    HasPlaybook,         \* whether the workspace has a default playbook
    MaxShutdowns         \* bound: graceful shutdowns in a behaviour

Procs == {ProcOf[w] : w \in Workers}

ASSUME ProcessingAssumption ==
    /\ NoCall \notin Calls
    /\ HasPlaybook \in BOOLEAN
    /\ MaxShutdowns \in Nat

VARIABLES
    pc,         \* the next step of each worker
    job,        \* the call its delivery is about
    lease,      \* the workers whose delivery still has its lease
    local,      \* call.Status, the worker's copy of the status
    draft,      \* the transcript and the analysis the worker has in hand
    outputs,    \* how many transcripts and analyses providers made for a call
    shutdowns   \* graceful shutdowns so far

workerVars == <<pc, job, lease, local, draft>>
processingVars == <<pc, job, lease, local, draft, outputs, shutdowns>>

\* The steps taken while the worker holds the call lock: "loop" is the switch
\* on call.Status, the others the points inside its cases, "ok" and "err" the
\* return of process with nil and with an error.
LockedSteps ==
    {"load", "loop", "transcribe", "saveTranscript", "markTranscribed",
     "readTranscript", "loadPlaybook", "analyze", "saveAnalysis",
     "markCompleted", "failProcessing", "failTranscription", "failAnalysis",
     "ok", "err"}

Steps == LockedSteps \cup {"idle", "lock"}

ProcessingTypeOK ==
    /\ pc \in [Workers -> Steps]
    /\ job \in [Workers -> Calls \cup {NoCall}]
    /\ lease \subseteq Workers
    /\ local \in [Workers -> Statuses \cup {Absent}]
    /\ draft \in [Workers -> Results]
    /\ outputs \in [Calls -> Nat]
    /\ shutdowns \in 0..MaxShutdowns

ProcessingInit ==
    /\ pc = [w \in Workers |-> "idle"]
    /\ job = [w \in Workers |-> NoCall]
    /\ lease = {}
    /\ local = [w \in Workers |-> Absent]
    /\ draft = [w \in Workers |-> NoResult]
    /\ outputs = [c \in Calls |-> 0]
    /\ shutdowns = 0

\* The transcript a worker has in hand, then with the criteria, then analysed.
Draft(version, of, rubric) == [version |-> version, of |-> of, rubric |-> rubric]

Holds(w) == pc[w] \in LockedSteps

\* Whether a remote call of worker w that is exposed to these classes of faults
\* may fail: one of them is on, or its context is cancelled.
Faulty(w, classes) == classes \cap Faults # {} \/ w \notin lease

\* Worker w goes on to step "to"; only its program counter moves.
Goto(w, to) ==
    /\ pc' = [pc EXCEPT ![w] = to]
    /\ UNCHANGED <<job, lease, local, draft, outputs, shutdowns>>

-------------------------------------------------------------------------------
(* Delivery, the call lock, and loading the call. *)

Deliver(w, c) ==
    /\ pc[w] = "idle"
    /\ Take(c)
    /\ pc' = [pc EXCEPT ![w] = "lock"]
    /\ job' = [job EXCEPT ![w] = c]
    /\ lease' = lease \cup {w}
    /\ UNCHANGED <<storeVars, local, draft, outputs, shutdowns>>

\* Deliveries of the same call in this process are not waited for.
AcquireLock_Unguarded(w) ==
    /\ pc[w] = "lock"
    /\ Goto(w, "load")
    /\ UNCHANGED <<storeVars, queueVars>>

\* callLocks.Lock(id) returns.
AcquireLock(w) ==
    /\ pc[w] = "lock"
    /\ \A v \in Workers \ {w} :
          ProcOf[v] = ProcOf[w] /\ job[v] = job[w] => ~Holds(v)
    /\ Goto(w, "load")
    /\ UNCHANGED <<storeVars, queueVars>>

\* GetInWorkspace.  An error, ErrCallNotFound included, only ends the delivery:
\* the row is not marked failed.
LoadCall(w) ==
    /\ pc[w] = "load"
    /\ \/ /\ status[job[w]] # Absent
          /\ local' = [local EXCEPT ![w] = status[job[w]]]
          /\ pc' = [pc EXCEPT ![w] = "loop"]
          /\ UNCHANGED <<job, lease, draft, outputs, shutdowns>>
       \/ /\ Faulty(w, {"db"}) \/ status[job[w]] = Absent
          /\ Goto(w, "err")
    /\ UNCHANGED <<storeVars, queueVars>>

-------------------------------------------------------------------------------
(* Processor.transition, and the cases of the loop that are one transition.  *)

\* Processor.transition to a status other than failed, going on to step "next"
\* when it succeeds; an error ends the delivery.
Advance(w, to, next) ==
    /\ \/ /\ TransitionApplies(job[w], local[w], to, NoMessage)
          /\ local' = [local EXCEPT ![w] = to]
          /\ pc' = [pc EXCEPT ![w] = next]
          /\ UNCHANGED <<job, lease, draft, outputs, shutdowns>>
       \/ /\ TransitionErrs(job[w], local[w], to, NoMessage, Faulty(w, {"db"}))
          /\ Goto(w, "err")
    /\ UNCHANGED <<object, queueVars>>

AlreadyCompleted(w) ==
    /\ pc[w] = "loop" /\ local[w] = "completed"
    /\ Goto(w, "ok")
    /\ UNCHANGED <<storeVars, queueVars>>

RetryFailed(w) ==
    /\ pc[w] = "loop" /\ local[w] = "failed"
    /\ Advance(w, "queued", "loop")

StartTranscribing(w) ==
    /\ pc[w] = "loop" /\ local[w] \in {"uploaded", "queued"}
    /\ Advance(w, "transcribing", "loop")

StartAnalyzing(w) ==
    /\ pc[w] = "loop" /\ local[w] = "transcribed"
    /\ Advance(w, "analyzing", "loop")

-------------------------------------------------------------------------------
(* The case transcribing. *)

\* An existing transcript does not keep the provider from being called.
GetTranscript_Again(w) ==
    /\ pc[w] = "loop" /\ local[w] = "transcribing"
    /\ Goto(w, "transcribe")
    /\ UNCHANGED <<storeVars, queueVars>>

GetTranscript(w) ==
    /\ pc[w] = "loop" /\ local[w] = "transcribing"
    /\ \/ HasTranscript(job[w]) /\ Goto(w, "markTranscribed")
       \/ ~HasTranscript(job[w]) /\ Goto(w, "transcribe")
       \/ Faulty(w, {"db"}) /\ Goto(w, "failProcessing")
    /\ UNCHANGED <<storeVars, queueVars>>

\* Processor.transcribe: download the audio and call the provider.
Transcribe(w) ==
    /\ pc[w] = "transcribe"
    /\ \/ /\ job[w] \in object
          /\ outputs' = [outputs EXCEPT ![job[w]] = @ + 1]
          /\ draft' = [draft EXCEPT ![w] = Draft(0, outputs[job[w]] + 1, "builtin")]
          /\ pc' = [pc EXCEPT ![w] = "saveTranscript"]
          /\ UNCHANGED <<job, lease, local, shutdowns>>
       \/ /\ Faulty(w, {"provider", "storage"}) \/ job[w] \notin object
          /\ Goto(w, "failTranscription")
    /\ UNCHANGED <<storeVars, queueVars>>

\* The transcript is announced before it is stored.
SaveTranscript_Skipped(w) ==
    /\ pc[w] = "saveTranscript"
    /\ Goto(w, "markTranscribed")
    /\ UNCHANGED <<storeVars, queueVars>>

SaveTranscript(w) ==
    /\ pc[w] = "saveTranscript"
    /\ \/ /\ UpsertTranscriptApplies(job[w], draft[w].of)
          /\ Goto(w, "markTranscribed")
       \/ /\ UpsertTranscriptErrs(job[w], draft[w].of, Faulty(w, {"db"}))
          /\ Goto(w, "failProcessing")
    /\ UNCHANGED <<object, queueVars>>

MarkTranscribed(w) ==
    /\ pc[w] = "markTranscribed"
    /\ Advance(w, "transcribed", "loop")

-------------------------------------------------------------------------------
(* The case analyzing. *)

\* An existing analysis does not keep the provider from being called.
CheckAnalysis_Again(w) ==
    /\ pc[w] = "loop" /\ local[w] = "analyzing"
    /\ Goto(w, "readTranscript")
    /\ UNCHANGED <<storeVars, queueVars>>

CheckAnalysis(w) ==
    /\ pc[w] = "loop" /\ local[w] = "analyzing"
    /\ \/ HasResult(job[w]) /\ Goto(w, "markCompleted")
       \/ ~HasResult(job[w]) /\ Goto(w, "readTranscript")
       \/ Faulty(w, {"db"}) /\ Goto(w, "failProcessing")
    /\ UNCHANGED <<storeVars, queueVars>>

ReadTranscript(w) ==
    /\ pc[w] = "readTranscript"
    /\ \/ /\ HasTranscript(job[w])
          /\ draft' = [draft EXCEPT ![w] = Draft(0, transcript[job[w]], "builtin")]
          /\ pc' = [pc EXCEPT ![w] = "loadPlaybook"]
          /\ UNCHANGED <<job, lease, local, outputs, shutdowns>>
       \/ /\ Faulty(w, {"db"}) \/ ~HasTranscript(job[w])
          /\ Goto(w, "failProcessing")
    /\ UNCHANGED <<storeVars, queueVars>>

\* The built-in criteria are used whatever the workspace has.
LoadPlaybook_Ignored(w) ==
    /\ pc[w] = "loadPlaybook"
    /\ draft' = [draft EXCEPT ![w] = Draft(0, @.of, "builtin")]
    /\ pc' = [pc EXCEPT ![w] = "analyze"]
    /\ UNCHANGED <<job, lease, local, outputs, shutdowns, storeVars, queueVars>>

\* The default playbook of the workspace.  Any error, a missing playbook
\* included, leaves the built-in criteria in place.
LoadPlaybook(w) ==
    /\ pc[w] = "loadPlaybook"
    /\ \E rubric \in Rubrics :
          /\ rubric = "playbook" => HasPlaybook
          /\ rubric = "builtin" => ~HasPlaybook \/ Faulty(w, {"db"})
          /\ draft' = [draft EXCEPT ![w] = Draft(0, @.of, rubric)]
    /\ pc' = [pc EXCEPT ![w] = "analyze"]
    /\ UNCHANGED <<job, lease, local, outputs, shutdowns, storeVars, queueVars>>

\* Call the provider, validate its answer and compute the score.
Analyze(w) ==
    /\ pc[w] = "analyze"
    /\ \/ /\ outputs' = [outputs EXCEPT ![job[w]] = @ + 1]
          /\ draft' = [draft EXCEPT ![w] =
                         Draft(outputs[job[w]] + 1, @.of, @.rubric)]
          /\ pc' = [pc EXCEPT ![w] = "saveAnalysis"]
          /\ UNCHANGED <<job, lease, local, shutdowns>>
       \/ /\ Faulty(w, {"provider"})
          /\ Goto(w, "failAnalysis")
    /\ UNCHANGED <<storeVars, queueVars>>

SaveAnalysis(w) ==
    /\ pc[w] = "saveAnalysis"
    /\ \/ /\ UpsertWithScoreApplies(job[w], draft[w])
          /\ Goto(w, "markCompleted")
       \/ /\ UpsertWithScoreErrs(job[w], draft[w], Faulty(w, {"db"}))
          /\ Goto(w, "failProcessing")
    /\ UNCHANGED <<object, queueVars>>

MarkCompleted(w) ==
    /\ pc[w] = "markCompleted"
    /\ Advance(w, "completed", "ok")

-------------------------------------------------------------------------------
(* Processor.fail, and the return to Asynq. *)

FailureMessage(step) ==
    CASE step = "failProcessing" -> "call processing failed"
      [] step = "failTranscription" -> "transcription provider failed"
      [] step = "failAnalysis" -> "analysis provider failed"

\* The error goes back to Asynq and the row is left as it is.
Fail_NotRecorded(w) ==
    /\ pc[w] \in {"failProcessing", "failTranscription", "failAnalysis"}
    /\ Goto(w, "err")
    /\ UNCHANGED <<storeVars, queueVars>>

\* The failure is recorded again and again until the row accepts it.
Fail_UntilRecorded(w) ==
    /\ pc[w] \in {"failProcessing", "failTranscription", "failAnalysis"}
    /\ \/ /\ TransitionApplies(job[w], local[w], "failed", FailureMessage(pc[w]))
          /\ local' = [local EXCEPT ![w] = "failed"]
          /\ pc' = [pc EXCEPT ![w] = "err"]
          /\ UNCHANGED <<job, lease, draft, outputs, shutdowns>>
       \/ /\ TransitionErrs(job[w], local[w], "failed", FailureMessage(pc[w]),
                            Faulty(w, {"db"}))
          /\ UNCHANGED processingVars
    /\ UNCHANGED <<object, queueVars>>

\* Processor.fail: record the failure.  The delivery ends with an error whether
\* or not the row could be updated.
Fail(w) ==
    /\ pc[w] \in {"failProcessing", "failTranscription", "failAnalysis"}
    /\ \/ /\ TransitionApplies(job[w], local[w], "failed", FailureMessage(pc[w]))
          /\ local' = [local EXCEPT ![w] = "failed"]
          /\ pc' = [pc EXCEPT ![w] = "err"]
          /\ UNCHANGED <<job, lease, draft, outputs, shutdowns>>
       \/ /\ TransitionErrs(job[w], local[w], "failed", FailureMessage(pc[w]),
                            Faulty(w, {"db"}))
          /\ Goto(w, "err")
    /\ UNCHANGED <<object, queueVars>>

\* The workers of W have no delivery any more.
Reset(W) ==
    /\ pc' = [w \in Workers |-> IF w \in W THEN "idle" ELSE pc[w]]
    /\ job' = [w \in Workers |-> IF w \in W THEN NoCall ELSE job[w]]
    /\ lease' = lease \ W
    /\ local' = [w \in Workers |-> IF w \in W THEN Absent ELSE local[w]]
    /\ draft' = [w \in Workers |-> IF w \in W THEN NoResult ELSE draft[w]]

\* The handler swallows the error of process.
Return_Swallowed(w) ==
    /\ pc[w] \in {"ok", "err"}
    /\ IF w \in lease THEN MarkDone(job[w]) ELSE UNCHANGED queueVars
    /\ Reset({w})
    /\ UNCHANGED <<storeVars, outputs, shutdowns>>

\* process returns: the deferred release frees the call lock, the handler hands
\* the error on, and Asynq settles the delivery if it still has its lease.
Return(w) ==
    /\ pc[w] \in {"ok", "err"}
    /\ \/ w \in lease /\ pc[w] = "ok" /\ MarkDone(job[w])
       \/ w \in lease /\ pc[w] = "err" /\ RetryOrArchive(job[w])
       \/ w \notin lease /\ UNCHANGED queueVars
    /\ Reset({w})
    /\ UNCHANGED <<storeVars, outputs, shutdowns>>

-------------------------------------------------------------------------------
(* The environment: lost leases, deaths and shutdowns of worker processes. *)

LeaseHolders(c) == {w \in lease : job[w] = c}

\* The recoverer of some server retries a task whose lease was not extended.
\* With no live holder this is certain to happen; with one it is a fault.
LeaseExpires(c) ==
    /\ task[c] = "active"
    /\ LeaseHolders(c) # {} => "lease" \in Faults
    /\ RetryOrArchive(c)
    /\ lease' = lease \ LeaseHolders(c)
    /\ UNCHANGED <<storeVars, pc, job, local, draft, outputs, shutdowns>>

WorkersOf(p) == {w \in Workers : ProcOf[w] = p}

\* The process dies; a new one with idle workers replaces it.  The tasks it was
\* working on stay active until their leases expire.
Crash(p) ==
    /\ "crash" \in Faults
    /\ \E w \in WorkersOf(p) : pc[w] # "idle"
    /\ Reset(WorkersOf(p))
    /\ UNCHANGED <<storeVars, queueVars, outputs, shutdowns>>

\* SIGTERM: server.Shutdown puts the unfinished deliveries back without using a
\* retry, and the process exits.
Shutdown(p) ==
    /\ shutdowns < MaxShutdowns
    /\ \E w \in WorkersOf(p) : pc[w] # "idle"
    /\ task' = [c \in Calls |-> IF LeaseHolders(c) \cap WorkersOf(p) # {}
                                THEN "pending" ELSE task[c]]
    /\ Reset(WorkersOf(p))
    /\ shutdowns' = shutdowns + 1
    /\ UNCHANGED <<storeVars, retried, outputs>>

-------------------------------------------------------------------------------
\* The steps of Processor.process once the call is loaded.
ProcessStep(w) ==
    \/ AlreadyCompleted(w) \/ RetryFailed(w)
    \/ StartTranscribing(w) \/ StartAnalyzing(w)
    \/ GetTranscript(w) \/ Transcribe(w) \/ SaveTranscript(w)
    \/ MarkTranscribed(w)
    \/ CheckAnalysis(w) \/ ReadTranscript(w) \/ LoadPlaybook(w)
    \/ Analyze(w) \/ SaveAnalysis(w) \/ MarkCompleted(w)
    \/ Fail(w)

\* Everything a worker with a delivery does by itself.
WorkerStep(w) ==
    AcquireLock(w) \/ LoadCall(w) \/ ProcessStep(w) \/ Return(w)

===============================================================================
