-------------------------- MODULE CallPipelineProofs --------------------------
(***************************************************************************)
(* Theorems about CallPipeline for any number of calls, workers, processes *)
(* and retries and for any set of faults; then about the deployments that  *)
(* its last properties need: one worker process, whose call lock takes the *)
(* deliveries of a call one by one; and any number of processes without    *)
(* database faults and lost leases.                                        *)
(***************************************************************************)
EXTENDS CallPipeline, TLAPS

-------------------------------------------------------------------------------
(* The inductive invariant. *)

\* A worker is busy exactly while it has a call.
JobOK == \A w \in Workers : pc[w] = "idle" <=> job[w] = NoCall

\* What the steps of a request have established.
UploadInv ==
    \A c \in Calls :
        /\ upc[c] \in {"put", "create", "cleanup", "queue", "enqueue"}
              => task[c] = "none"
        /\ upc[c] \in {"put", "create", "rollbackObject"} => status[c] = Absent
        /\ upc[c] = "cleanup" => status[c] \in {Absent, "uploaded"}
        /\ upc[c] = "queue" => status[c] = "uploaded"
        /\ upc[c] = "enqueue" => status[c] = "queued"
        /\ upc[c] \in {"create", "queue", "enqueue", "rollbackRow"} => c \in object
        /\ upc[c] = "accepted" => task[c] # "none"

\* A task has a row past "uploaded", unless the request took the row back; and
\* only calls with a task are worked on.
TaskInv ==
    /\ \A c \in Calls :
          task[c] # "none" =>
             /\ status[c] # "uploaded"
             /\ upc[c] = "accepted" => status[c] # Absent
    /\ \A w \in Workers : job[w] \in Calls => task[job[w]] # "none"

\* What a worker that is about to announce a checkpoint knows to be stored, and
\* what one that is about to store it has in hand.
CheckpointInv ==
    /\ CheckpointsPersisted
    /\ \A w \in Workers :
          /\ pc[w] = "saveTranscript" => draft[w].of # NoTranscript
          /\ pc[w] = "saveAnalysis" => draft[w].version # 0
          /\ pc[w] = "markTranscribed" =>
                status[job[w]] = Absent \/ HasTranscript(job[w])
          /\ pc[w] = "markCompleted" =>
                status[job[w]] = Absent \/ HasResult(job[w])

\* A worker that saw the call completed is right for good.
FinalInv ==
    /\ \A w \in Workers :
          /\ pc[w] = "ok" => local[w] = "completed"
          /\ local[w] = "completed" =>
                job[w] \in Calls /\ status[job[w]] \in {"completed", Absent}
    /\ \A c \in Calls :
          task[c] = "done" => status[c] \in {"completed", Absent}

Inv ==
    /\ TypeOK /\ JobOK /\ UploadInv /\ TaskInv
    /\ QueuedHasAudio /\ CheckpointInv /\ FinalInv /\ MessageMeansFailed

-------------------------------------------------------------------------------
(* Types. *)

\* The absent analysis is typed like the others.
LEMMA NoResultType == NoResult \in Results
BY DEF NoResult, Results, Rubrics, NoTranscript

\* Every step of a request writes values of the right types.
LEMMA UploadTypes ==
    ASSUME TypeOK, NEW c \in Calls, UploadStep(c) \/ AbortUpload(c),
           UNCHANGED processingVars
    PROVE  TypeOK'
<1> USE NoResultType
    DEF TypeOK, StoreTypeOK, QueueTypeOK, UploadTypeOK, ProcessingTypeOK,
        SetTask, queueVars, processingVars, storeVars, rowVars, NoTranscript,
        NoMessage, Messages, Absent, Statuses, UploadStates, UploadSteps,
        TaskStates
<1>1. CASE RejectUpload(c)
  BY <1>1 DEF RejectUpload, Succeeds
<1>2. CASE PutObject(c)
  BY <1>2 DEF PutObject, Succeeds
<1>3. CASE PutObjectErrs(c)
  BY <1>3 DEF PutObjectErrs, ReportsError
<1>4. CASE CreateCall(c)
  BY <1>4 DEF CreateCall, Succeeds, InsertRow
<1>5. CASE CreateCallErrs(c)
  BY <1>5 DEF CreateCallErrs, ReportsError, InsertRow
<1>6. CASE Cleanup(c)
  BY <1>6 DEF Cleanup, Succeeds, ReportsError, ReportsExpired
<1>7. CASE QueueInWorkspace(c)
  BY <1>7 DEF QueueInWorkspace, Succeeds, TransitionApplies
<1>8. CASE QueueInWorkspaceErrs(c)
  BY <1>8 DEF QueueInWorkspaceErrs, ReportsError, TransitionApplies
<1>9. CASE EnqueueCall(c)
  BY <1>9 DEF EnqueueCall, Succeeds, EnqueueApplies
<1>10. CASE EnqueueCallErrs(c)
  BY <1>10 DEF EnqueueCallErrs, ReportsError, EnqueueErrs, EnqueueApplies
<1>11. CASE RollbackRow(c)
  <2>1. (UploadTypeOK /\ QueueTypeOK /\ ProcessingTypeOK)'
    BY <1>11 DEF RollbackRow, Succeeds, ReportsError, ReportsExpired
  <2>2. CASE DeleteRow(c)
    BY <1>11, <2>1, <2>2 DEF RollbackRow, DeleteRow
  <2>3. CASE UNCHANGED rowVars
    BY <1>11, <2>1, <2>3 DEF RollbackRow
  <2> QED
    BY <1>11, <2>2, <2>3 DEF RollbackRow
<1>12. CASE RollbackObject(c)
  BY <1>12 DEF RollbackObject, Succeeds, ReportsError
<1>13. CASE AbortUpload(c)
  BY <1>13 DEF AbortUpload
<1> QED
  BY <1>1, <1>2, <1>3, <1>4, <1>5, <1>6, <1>7, <1>8, <1>9, <1>10, <1>11,
     <1>12, <1>13 DEF UploadStep

\* The names the actions assign belong to their sets.
LEMMA Members ==
    /\ Statuses \subseteq Statuses \cup {Absent}
    /\ {"queued", "transcribing", "transcribed", "analyzing", "completed",
        "failed"} \subseteq Statuses
    /\ LockedSteps \subseteq Steps \ {"idle"}
    /\ {"lock", "idle"} \subseteq Steps
    /\ {"load", "loop", "transcribe", "saveTranscript", "markTranscribed",
        "readTranscript", "loadPlaybook", "analyze", "saveAnalysis",
        "markCompleted", "failProcessing", "failTranscription", "failAnalysis",
        "ok", "err"} \subseteq LockedSteps
    /\ "none" \notin Messages
BY DEF Statuses, Absent, LockedSteps, Steps, Messages

\* What a worker puts together is an analysis, with the fields it was given.
LEMMA DraftTypes ==
    /\ \A version, of \in Nat, rubric \in Rubrics :
          /\ Draft(version, of, rubric) \in Results
          /\ Draft(version, of, rubric).version = version
          /\ Draft(version, of, rubric).of = of
    /\ \A d \in Results : d.of \in Nat /\ d.rubric \in Rubrics
    /\ "builtin" \in Rubrics
BY DEF Draft, Results, Rubrics

\* Processor.fail only writes its sanitized messages.
LEMMA FailureMessageTypes ==
    \A step \in {"failProcessing", "failTranscription", "failAnalysis"} :
        FailureMessage(step) \in Messages
BY DEF FailureMessage, Messages

\* Every step of a worker writes values of the right types, and the worker stays
\* busy exactly while it has a call.
LEMMA WorkerTypes ==
    ASSUME TypeOK, JobOK, NEW w \in Workers, WorkerStep(w), UNCHANGED uploadVars
    PROVE  TypeOK' /\ JobOK'
<1> USE Members, NoResultType, MaxRetryAssumption, ProcessingAssumption
    DEF TypeOK, StoreTypeOK, QueueTypeOK, UploadTypeOK, ProcessingTypeOK, JobOK,
        SetTask, Goto, queueVars, uploadVars, storeVars, rowVars, NoMessage,
        TaskStates
<1>1. CASE AcquireLock(w)
  BY <1>1 DEF AcquireLock
<1>2. CASE LoadCall(w)
  BY <1>2 DEF LoadCall
<1>3. CASE AlreadyCompleted(w)
  BY <1>3 DEF AlreadyCompleted
<1>4. CASE RetryFailed(w)
  BY <1>4 DEF RetryFailed, Advance, TransitionErrs, TransitionApplies
<1>5. CASE StartTranscribing(w)
  BY <1>5 DEF StartTranscribing, Advance, TransitionErrs,
     TransitionApplies
<1>6. CASE StartAnalyzing(w)
  BY <1>6 DEF StartAnalyzing, Advance, TransitionErrs, TransitionApplies
<1>7. CASE GetTranscript(w)
  BY <1>7 DEF GetTranscript
<1>8. CASE Transcribe(w)
  <2>1. Draft(0, outputs[job[w]] + 1, "builtin") \in Results
    BY <1>8, DraftTypes DEF Transcribe
  <2> QED
    BY <1>8, <2>1 DEF Transcribe
<1>9. CASE SaveTranscript(w)
  BY <1>9 DEF SaveTranscript, UpsertTranscriptApplies,
     UpsertTranscriptErrs, Results
<1>10. CASE MarkTranscribed(w)
  BY <1>10 DEF MarkTranscribed, Advance, TransitionErrs, TransitionApplies
<1>11. CASE CheckAnalysis(w)
  BY <1>11 DEF CheckAnalysis
<1>12. CASE ReadTranscript(w)
  <2>1. Draft(0, transcript[job[w]], "builtin") \in Results
    BY <1>12, DraftTypes DEF ReadTranscript
  <2> QED
    BY <1>12, <2>1 DEF ReadTranscript
<1>13. CASE LoadPlaybook(w)
  BY <1>13, DraftTypes DEF LoadPlaybook
<1>14. CASE Analyze(w)
  <2>1. Draft(outputs[job[w]] + 1, draft[w].of, draft[w].rubric) \in Results
    BY <1>14, DraftTypes DEF Analyze
  <2> QED
    BY <1>14, <2>1 DEF Analyze
<1>15. CASE SaveAnalysis(w)
  BY <1>15 DEF SaveAnalysis, UpsertWithScoreApplies, UpsertWithScoreErrs
<1>16. CASE MarkCompleted(w)
  BY <1>16 DEF MarkCompleted, Advance, TransitionErrs, TransitionApplies
<1>17. CASE Fail(w)
  BY <1>17, FailureMessageTypes DEF Fail, TransitionErrs, TransitionApplies
<1>18. CASE Return(w)
  BY <1>18 DEF Return, MarkDone, RetryOrArchive, Reset
<1> QED
  BY <1>1, <1>2, <1>3, <1>4, <1>5, <1>6, <1>7, <1>8, <1>9, <1>10, <1>11,
     <1>12, <1>13, <1>14, <1>15, <1>16, <1>17, <1>18 DEF WorkerStep, ProcessStep

\* The same for deliveries, lost leases, deaths and shutdowns.
LEMMA EnvironmentTypes ==
    ASSUME TypeOK, JobOK, UNCHANGED uploadVars,
           \/ \E w \in Workers, c \in Calls : Deliver(w, c)
           \/ \E c \in Calls : LeaseExpires(c)
           \/ \E p \in Procs : Crash(p) \/ Shutdown(p)
    PROVE  TypeOK' /\ JobOK'
<1> USE Members, NoResultType, MaxRetryAssumption, ProcessingAssumption
    DEF TypeOK, StoreTypeOK, QueueTypeOK, UploadTypeOK, ProcessingTypeOK, JobOK,
        SetTask, queueVars, uploadVars, storeVars, rowVars, TaskStates
<1>1. ASSUME NEW w \in Workers, NEW c \in Calls, Deliver(w, c)
      PROVE  TypeOK' /\ JobOK'
  BY <1>1 DEF Deliver, Take
<1>2. ASSUME NEW c \in Calls, LeaseExpires(c)
      PROVE  TypeOK' /\ JobOK'
  BY <1>2 DEF LeaseExpires, RetryOrArchive
<1>3. ASSUME NEW p \in Procs, Crash(p)
      PROVE  TypeOK' /\ JobOK'
  BY <1>3 DEF Crash, Reset
<1>4. ASSUME NEW p \in Procs, Shutdown(p)
      PROVE  TypeOK' /\ JobOK'
  BY <1>4 DEF Shutdown, Reset
<1> QED
  BY <1>1, <1>2, <1>3, <1>4

\* One step keeps the types, and workers busy exactly while they have a call.
LEMMA StepTypes ==
    ASSUME TypeOK, JobOK, [Next]_vars
    PROVE  TypeOK' /\ JobOK'
<1>1. CASE UNCHANGED vars
  BY <1>1 DEF vars, TypeOK, StoreTypeOK, QueueTypeOK, UploadTypeOK,
     ProcessingTypeOK, JobOK, storeVars, queueVars, uploadVars, processingVars
<1>2. ASSUME NEW c \in Calls, UploadStep(c) \/ AbortUpload(c),
             UNCHANGED processingVars
      PROVE  TypeOK' /\ JobOK'
  BY <1>2, UploadTypes DEF JobOK, processingVars
<1>3. ASSUME NEW w \in Workers, WorkerStep(w), UNCHANGED uploadVars
      PROVE  TypeOK' /\ JobOK'
  BY <1>3, WorkerTypes
<1> QED
  BY <1>1, <1>2, <1>3, EnvironmentTypes DEF Next, Terminated

\* The initial state has the types, and all workers are idle.
LEMMA InitTypes == Init => TypeOK /\ JobOK
BY NoResultType, ProcessingAssumption, MaxRetryAssumption, Members
   DEF Init, StoreInit, QueueInit, UploadInit, ProcessingInit, TypeOK,
       StoreTypeOK, QueueTypeOK, UploadTypeOK, ProcessingTypeOK, JobOK,
       NoTranscript, NoMessage, UploadStates, UploadSteps, TaskStates

\* Every variable keeps its type, with retries within ProcessCallMaxRetry.
THEOREM TypeCorrect == Spec => []TypeOK
<1>1. Init => TypeOK /\ JobOK
  BY InitTypes
<1>2. TypeOK /\ JobOK /\ [Next]_vars => (TypeOK /\ JobOK)'
  BY StepTypes
<1> QED
  BY <1>1, <1>2, PTL DEF Spec

-------------------------------------------------------------------------------
(* What one step of a worker may touch. *)

\* Nothing but its own delivery, and the row and the task of its call.
LEMMA WorkerFrame ==
    ASSUME TypeOK, JobOK, NEW w \in Workers, WorkerStep(w)
    PROVE  /\ object' = object
           /\ job[w] \in Calls
           /\ job'[w] \in {job[w], NoCall}
           /\ \A v \in Workers \ {w} :
                 /\ pc'[v] = pc[v] /\ job'[v] = job[v]
                 /\ local'[v] = local[v] /\ draft'[v] = draft[v]
           /\ \A c \in Calls \ {job[w]} :
                 /\ status'[c] = status[c] /\ message'[c] = message[c]
                 /\ transcript'[c] = transcript[c] /\ result'[c] = result[c]
                 /\ task'[c] = task[c]
<1> USE DEF TypeOK, StoreTypeOK, QueueTypeOK, ProcessingTypeOK, JobOK,
        SetTask, Goto, queueVars, storeVars, rowVars
<1>1. CASE AcquireLock(w)
  BY <1>1 DEF AcquireLock
<1>2. CASE LoadCall(w)
  BY <1>2 DEF LoadCall
<1>3. CASE AlreadyCompleted(w)
  BY <1>3 DEF AlreadyCompleted
<1>4. CASE RetryFailed(w)
  BY <1>4 DEF RetryFailed, Advance, TransitionErrs, TransitionApplies
<1>5. CASE StartTranscribing(w)
  BY <1>5 DEF StartTranscribing, Advance, TransitionErrs, TransitionApplies
<1>6. CASE StartAnalyzing(w)
  BY <1>6 DEF StartAnalyzing, Advance, TransitionErrs, TransitionApplies
<1>7. CASE GetTranscript(w)
  BY <1>7 DEF GetTranscript
<1>8. CASE Transcribe(w)
  BY <1>8 DEF Transcribe
<1>9. CASE SaveTranscript(w)
  BY <1>9 DEF SaveTranscript, UpsertTranscriptApplies, UpsertTranscriptErrs
<1>10. CASE MarkTranscribed(w)
  BY <1>10 DEF MarkTranscribed, Advance, TransitionErrs, TransitionApplies
<1>11. CASE CheckAnalysis(w)
  BY <1>11 DEF CheckAnalysis
<1>12. CASE ReadTranscript(w)
  BY <1>12 DEF ReadTranscript
<1>13. CASE LoadPlaybook(w)
  BY <1>13 DEF LoadPlaybook
<1>14. CASE Analyze(w)
  BY <1>14 DEF Analyze
<1>15. CASE SaveAnalysis(w)
  BY <1>15 DEF SaveAnalysis, UpsertWithScoreApplies, UpsertWithScoreErrs
<1>16. CASE MarkCompleted(w)
  BY <1>16 DEF MarkCompleted, Advance, TransitionErrs, TransitionApplies
<1>17. CASE Fail(w)
  BY <1>17 DEF Fail, TransitionErrs, TransitionApplies
<1>18. CASE Return(w)
  BY <1>18 DEF Return, MarkDone, RetryOrArchive, Reset
<1> QED
  BY <1>1, <1>2, <1>3, <1>4, <1>5, <1>6, <1>7, <1>8, <1>9, <1>10, <1>11,
     <1>12, <1>13, <1>14, <1>15, <1>16, <1>17, <1>18 DEF WorkerStep, ProcessStep

\* The table of transitions, as the proofs use it.
LEMMA TransitionTable ==
    \A from, to \in Statuses \cup {Absent} :
        CanTransition(from, to) =>
            /\ from \notin {"completed", Absent}
            /\ to \notin {"uploaded", Absent}
            /\ to = "analyzing" => from = "transcribed"
            /\ to = "completed" => from = "analyzing"
BY DEF CanTransition, AllowedTransitions, Absent

\* The four things that a step of a worker may do to the row of call c.
RowSame(c) ==
    /\ status'[c] = status[c] /\ message'[c] = message[c]
    /\ transcript'[c] = transcript[c] /\ result'[c] = result[c]

RowMoves(c) ==
    /\ CanTransition(status[c], status'[c])
    /\ status'[c] = "transcribed" => HasTranscript(c)
    /\ status'[c] = "completed" => HasResult(c)
    /\ message'[c] # NoMessage <=> status'[c] = "failed"
    /\ transcript'[c] = transcript[c] /\ result'[c] = result[c]

RowTranscribed(c) ==
    /\ transcript'[c] # NoTranscript
    /\ status'[c] = status[c] /\ message'[c] = message[c]
    /\ result'[c] = result[c]

RowAnalysed(c) ==
    /\ result'[c].version # 0
    /\ status'[c] = status[c] /\ message'[c] = message[c]
    /\ transcript'[c] = transcript[c]

\* A transition by the worker, to a status whose checkpoint it knows of.
LEMMA AdvanceRow ==
    ASSUME TypeOK, NEW w \in Workers, job[w] \in Calls,
           NEW to \in Statuses \ {"failed"}, NEW next \in Steps,
           Advance(w, to, next),
           to = "transcribed" => status[job[w]] = Absent \/ HasTranscript(job[w]),
           to = "completed" => status[job[w]] = Absent \/ HasResult(job[w])
    PROVE  RowSame(job[w]) \/ RowMoves(job[w])
<1>1. CASE TransitionApplies(job[w], local[w], to, NoMessage)
  <2>1. RowMoves(job[w])
    BY <1>1, TransitionTable DEF TransitionApplies, RowMoves, TypeOK, StoreTypeOK
  <2> QED
    BY <2>1
<1>2. CASE UNCHANGED rowVars
  BY <1>2 DEF rowVars, RowSame
<1> QED
  BY <1>1, <1>2 DEF Advance, TransitionErrs

\* A step of a worker does one of the four things to the row of its call.
LEMMA WorkerRow ==
    ASSUME TypeOK, JobOK, CheckpointInv, NEW w \in Workers, WorkerStep(w)
    PROVE  \/ RowSame(job[w]) \/ RowMoves(job[w])
           \/ RowTranscribed(job[w]) \/ RowAnalysed(job[w])
<1>0. job[w] \in Calls
  BY WorkerFrame
<1>1. CASE UNCHANGED rowVars
  BY <1>1 DEF rowVars, RowSame
<1>2. CASE RetryFailed(w)
  BY <1>0, <1>2, AdvanceRow, Members DEF RetryFailed
<1>3. CASE StartTranscribing(w)
  BY <1>0, <1>3, AdvanceRow, Members DEF StartTranscribing
<1>4. CASE StartAnalyzing(w)
  BY <1>0, <1>4, AdvanceRow, Members DEF StartAnalyzing
<1>5. CASE MarkTranscribed(w)
  BY <1>0, <1>5, AdvanceRow, Members DEF MarkTranscribed, CheckpointInv
<1>6. CASE MarkCompleted(w)
  BY <1>0, <1>6, AdvanceRow, Members DEF MarkCompleted, CheckpointInv
<1>7. CASE SaveTranscript(w)
  <2>1. draft[w].of # NoTranscript
    BY <1>7 DEF SaveTranscript, CheckpointInv
  <2> QED
    BY <1>0, <1>1, <1>7, <2>1 DEF SaveTranscript, UpsertTranscriptApplies,
       UpsertTranscriptErrs, RowTranscribed, TypeOK, StoreTypeOK
<1>8. CASE SaveAnalysis(w)
  <2>1. draft[w].version # 0
    BY <1>8 DEF SaveAnalysis, CheckpointInv
  <2> QED
    BY <1>0, <1>1, <1>8, <2>1 DEF SaveAnalysis, UpsertWithScoreApplies,
       UpsertWithScoreErrs, RowAnalysed, TypeOK, StoreTypeOK
<1>9. CASE Fail(w)
  <2>1. CASE TransitionApplies(job[w], local[w], "failed", FailureMessage(pc[w]))
    <3>1. FailureMessage(pc[w]) # NoMessage
      BY <1>9, FailureMessageTypes, Members DEF Fail, NoMessage
    <3>2. RowMoves(job[w])
      BY <1>0, <2>1, <3>1 DEF TransitionApplies, RowMoves, TypeOK, StoreTypeOK
    <3> QED
      BY <3>2
  <2> QED
    BY <1>1, <1>9, <2>1 DEF Fail, TransitionErrs
<1>10. WorkerStep(w) =>
          \/ UNCHANGED rowVars
          \/ RetryFailed(w) \/ StartTranscribing(w) \/ StartAnalyzing(w)
          \/ MarkTranscribed(w) \/ MarkCompleted(w)
          \/ SaveTranscript(w) \/ SaveAnalysis(w) \/ Fail(w)
  BY DEF WorkerStep, ProcessStep, AcquireLock, LoadCall, AlreadyCompleted,
     GetTranscript, Transcribe, CheckAnalysis, ReadTranscript, LoadPlaybook,
     Analyze, Return, storeVars, rowVars
<1> QED
  BY <1>1, <1>2, <1>3, <1>4, <1>5, <1>6, <1>7, <1>8, <1>9, <1>10

\* A step of a worker keeps the task of its call, and finishes it only from "ok".
LEMMA WorkerTask ==
    ASSUME TypeOK, JobOK, NEW w \in Workers, WorkerStep(w)
    PROVE  /\ task[job[w]] # "none" => task'[job[w]] # "none"
           /\ task'[job[w]] = "done" => task[job[w]] = "done" \/ pc[w] = "ok"
<1>0. job[w] \in Calls
  BY WorkerFrame
<1>1. CASE task' = task
  BY <1>1
<1>2. CASE Return(w)
  BY <1>0, <1>2 DEF Return, MarkDone, RetryOrArchive, SetTask, queueVars, TypeOK,
     QueueTypeOK
<1>3. WorkerStep(w) => task' = task \/ Return(w)
  BY DEF WorkerStep, ProcessStep, AcquireLock, LoadCall, AlreadyCompleted,
     RetryFailed, StartTranscribing, StartAnalyzing, GetTranscript, Transcribe,
     SaveTranscript, MarkTranscribed, CheckAnalysis, ReadTranscript,
     LoadPlaybook, Analyze, SaveAnalysis, MarkCompleted, Fail, Advance, queueVars
<1> QED
  BY <1>1, <1>2, <1>3

\* A row that is gone stays gone and a completed one completed, and stored
\* transcripts and results stay stored.
LEMMA RowMonotone ==
    ASSUME TypeOK, NEW c \in Calls,
           RowSame(c) \/ RowMoves(c) \/ RowTranscribed(c) \/ RowAnalysed(c)
    PROVE  /\ status[c] \in {"completed", Absent} => status'[c] = status[c]
           /\ status'[c] = Absent => status[c] = Absent
           /\ HasTranscript(c) => HasTranscript(c)'
           /\ HasResult(c) => HasResult(c)'
<1>1. CASE RowSame(c)
  BY <1>1 DEF RowSame, HasTranscript, HasResult
<1>2. CASE RowMoves(c)
  BY <1>2 DEF RowMoves, HasTranscript, HasResult, CanTransition,
     AllowedTransitions, Absent
<1>3. CASE RowTranscribed(c)
  BY <1>3 DEF RowTranscribed, HasTranscript, HasResult
<1>4. CASE RowAnalysed(c)
  BY <1>4 DEF RowAnalysed, HasTranscript, HasResult
<1> QED
  BY <1>1, <1>2, <1>3, <1>4

\* The worker's copy of the status: a copy that says "completed" is true.
LEMMA WorkerLocal ==
    ASSUME TypeOK, JobOK, CheckpointInv, FinalInv, NEW w \in Workers, WorkerStep(w)
    PROVE  /\ pc'[w] = "ok" => local'[w] = "completed"
           /\ local'[w] = "completed" =>
                 job'[w] = job[w] /\ status'[job[w]] \in {"completed", Absent}
<1> USE DEF TypeOK, StoreTypeOK, ProcessingTypeOK, Goto
<1>0. job[w] \in Calls
  BY WorkerFrame
<1>1. status[job[w]] \in {"completed", Absent} =>
         status'[job[w]] \in {"completed", Absent}
  BY <1>0, WorkerRow, RowMonotone
<1>2. local[w] = "completed" => status'[job[w]] \in {"completed", Absent}
  BY <1>1 DEF FinalInv
<1>3. CASE local'[w] = local[w] /\ job'[w] = job[w] /\ pc'[w] # "ok"
  BY <1>2, <1>3
<1>4. CASE LoadCall(w)
  BY <1>0, <1>1, <1>2, <1>4 DEF LoadCall
<1>5. CASE AlreadyCompleted(w)
  BY <1>0, <1>2, <1>5 DEF AlreadyCompleted
<1>6. ASSUME NEW to \in Statuses, NEW next \in Steps,
             to = "completed" <=> next = "ok", Advance(w, to, next)
      PROVE  /\ pc'[w] = "ok" => local'[w] = "completed"
             /\ local'[w] = "completed" =>
                   job'[w] = job[w] /\ status'[job[w]] \in {"completed", Absent}
  <2>1. CASE /\ TransitionApplies(job[w], local[w], to, NoMessage)
             /\ local' = [local EXCEPT ![w] = to]
             /\ pc' = [pc EXCEPT ![w] = next]
             /\ job' = job
    BY <1>0, <1>6, <2>1 DEF TransitionApplies
  <2>2. CASE Goto(w, "err")
    BY <1>2, <2>2
  <2> QED
    BY <1>6, <2>1, <2>2 DEF Advance
<1>7. CASE \/ RetryFailed(w) \/ StartTranscribing(w) \/ StartAnalyzing(w)
           \/ MarkTranscribed(w) \/ MarkCompleted(w)
  BY <1>6, <1>7, Members DEF RetryFailed, StartTranscribing, StartAnalyzing,
     MarkTranscribed, MarkCompleted
<1>8. CASE Fail(w)
  BY <1>0, <1>2, <1>8 DEF Fail
<1>9. CASE Return(w)
  BY <1>9 DEF Return, Reset, Absent
<1>10. WorkerStep(w) =>
          \/ local'[w] = local[w] /\ job'[w] = job[w] /\ pc'[w] # "ok"
          \/ LoadCall(w) \/ AlreadyCompleted(w)
          \/ RetryFailed(w) \/ StartTranscribing(w) \/ StartAnalyzing(w)
          \/ MarkTranscribed(w) \/ MarkCompleted(w)
          \/ Fail(w) \/ Return(w)
  BY DEF WorkerStep, ProcessStep, AcquireLock, GetTranscript, Transcribe,
     SaveTranscript, CheckAnalysis, ReadTranscript, LoadPlaybook, Analyze,
     SaveAnalysis
<1> QED
  BY <1>3, <1>4, <1>5, <1>7, <1>8, <1>9, <1>10

\* What the worker has in hand, or knows to be stored, before it announces it.
WorkerReady(w) ==
    /\ pc[w] = "saveTranscript" => draft[w].of # NoTranscript
    /\ pc[w] = "saveAnalysis" => draft[w].version # 0
    /\ pc[w] = "markTranscribed" => status[job[w]] = Absent \/ HasTranscript(job[w])
    /\ pc[w] = "markCompleted" => status[job[w]] = Absent \/ HasResult(job[w])

\* A worker reaches a saving or announcing step only with what that step needs.
LEMMA WorkerReadyNext ==
    ASSUME TypeOK, JobOK, CheckpointInv, NEW w \in Workers, WorkerStep(w)
    PROVE  WorkerReady(w)'
<1> USE DEF TypeOK, StoreTypeOK, ProcessingTypeOK, Goto
<1>0. job[w] \in Calls /\ pc[w] # "idle"
  BY WorkerFrame, ProcessingAssumption DEF JobOK
<1>1. CASE pc'[w] \notin {"saveTranscript", "saveAnalysis", "markTranscribed",
                          "markCompleted"}
  BY <1>1 DEF WorkerReady
<1>2. CASE GetTranscript(w)
  BY <1>0, <1>2 DEF GetTranscript, WorkerReady, HasTranscript, storeVars
<1>3. CASE Transcribe(w)
  <2>1. CASE Goto(w, "failTranscription")
    BY <1>1, <2>1
  <2>2. CASE /\ draft' = [draft EXCEPT ![w] = Draft(0, outputs[job[w]] + 1, "builtin")]
             /\ pc' = [pc EXCEPT ![w] = "saveTranscript"]
    <3>1. Draft(0, outputs[job[w]] + 1, "builtin").of = outputs[job[w]] + 1
      BY <1>0, DraftTypes
    <3>2. outputs[job[w]] + 1 # NoTranscript
      BY <1>0 DEF NoTranscript
    <3> QED
      BY <2>2, <3>1, <3>2 DEF WorkerReady
  <2> QED
    BY <1>3, <2>1, <2>2 DEF Transcribe
<1>4. CASE SaveTranscript(w)
  <2>1. CASE Goto(w, "failProcessing")
    BY <1>1, <2>1
  <2>2. CASE UpsertTranscriptApplies(job[w], draft[w].of) /\ Goto(w, "markTranscribed")
    BY <1>0, <1>4, <2>2 DEF SaveTranscript, UpsertTranscriptApplies, CheckpointInv,
       WorkerReady, HasTranscript
  <2> QED
    BY <1>4, <2>1, <2>2 DEF SaveTranscript
<1>5. CASE CheckAnalysis(w)
  BY <1>0, <1>5 DEF CheckAnalysis, WorkerReady, HasResult, storeVars
<1>6. CASE Analyze(w)
  <2>1. CASE Goto(w, "failAnalysis")
    BY <1>1, <2>1
  <2>2. CASE /\ draft' = [draft EXCEPT ![w] =
                            Draft(outputs[job[w]] + 1, @.of, @.rubric)]
             /\ pc' = [pc EXCEPT ![w] = "saveAnalysis"]
    <3>1. Draft(outputs[job[w]] + 1, draft[w].of, draft[w].rubric).version
            = outputs[job[w]] + 1
      BY <1>0, DraftTypes
    <3>2. outputs[job[w]] + 1 # 0
      BY <1>0
    <3> QED
      BY <2>2, <3>1, <3>2 DEF WorkerReady
  <2> QED
    BY <1>6, <2>1, <2>2 DEF Analyze
<1>7. CASE SaveAnalysis(w)
  <2>1. CASE Goto(w, "failProcessing")
    BY <1>1, <2>1
  <2>2. CASE UpsertWithScoreApplies(job[w], draft[w]) /\ Goto(w, "markCompleted")
    BY <1>0, <1>7, <2>2 DEF SaveAnalysis, UpsertWithScoreApplies, CheckpointInv,
       WorkerReady, HasResult
  <2> QED
    BY <1>7, <2>1, <2>2 DEF SaveAnalysis
<1>8. WorkerStep(w) =>
         \/ pc'[w] \notin {"saveTranscript", "saveAnalysis", "markTranscribed",
                           "markCompleted"}
         \/ GetTranscript(w) \/ Transcribe(w) \/ SaveTranscript(w)
         \/ CheckAnalysis(w) \/ Analyze(w) \/ SaveAnalysis(w)
  BY DEF WorkerStep, ProcessStep, AcquireLock, LoadCall, AlreadyCompleted,
     RetryFailed, StartTranscribing, StartAnalyzing, MarkTranscribed,
     ReadTranscript, LoadPlaybook, MarkCompleted, Fail, Return, Advance, Reset
<1> QED
  BY <1>1, <1>2, <1>3, <1>4, <1>5, <1>6, <1>7, <1>8

-------------------------------------------------------------------------------
(* What one step of a request may touch. *)

\* Nothing but the request itself and the row, the audio and the task of its
\* call.
LEMMA UploadFrame ==
    ASSUME TypeOK, NEW c \in Calls, UploadStep(c) \/ AbortUpload(c)
    PROVE  \A d \in Calls \ {c} :
              /\ RowSame(d)
              /\ upc'[d] = upc[d] /\ task'[d] = task[d]
              /\ d \in object' <=> d \in object
<1> USE DEF TypeOK, StoreTypeOK, QueueTypeOK, UploadTypeOK, SetTask, queueVars,
        storeVars, rowVars, RowSame
<1>1. CASE RejectUpload(c)
  BY <1>1 DEF RejectUpload, Succeeds
<1>2. CASE PutObject(c)
  BY <1>2 DEF PutObject, Succeeds
<1>3. CASE PutObjectErrs(c)
  BY <1>3 DEF PutObjectErrs, ReportsError
<1>4. CASE CreateCall(c)
  BY <1>4 DEF CreateCall, Succeeds, InsertRow
<1>5. CASE CreateCallErrs(c)
  BY <1>5 DEF CreateCallErrs, ReportsError, InsertRow
<1>6. CASE Cleanup(c)
  BY <1>6 DEF Cleanup, Succeeds, ReportsError, ReportsExpired
<1>7. CASE QueueInWorkspace(c)
  BY <1>7 DEF QueueInWorkspace, Succeeds, TransitionApplies
<1>8. CASE QueueInWorkspaceErrs(c)
  BY <1>8 DEF QueueInWorkspaceErrs, ReportsError, TransitionApplies
<1>9. CASE EnqueueCall(c)
  BY <1>9 DEF EnqueueCall, Succeeds, EnqueueApplies
<1>10. CASE EnqueueCallErrs(c)
  BY <1>10 DEF EnqueueCallErrs, ReportsError, EnqueueErrs, EnqueueApplies
<1>11. CASE RollbackRow(c)
  BY <1>11 DEF RollbackRow, Succeeds, ReportsError, ReportsExpired,
     DeleteRow
<1>12. CASE RollbackObject(c)
  BY <1>12 DEF RollbackObject, Succeeds, ReportsError
<1>13. CASE AbortUpload(c)
  BY <1>13 DEF AbortUpload
<1> QED
  BY <1>1, <1>2, <1>3, <1>4, <1>5, <1>6, <1>7, <1>8, <1>9, <1>10, <1>11,
     <1>12, <1>13 DEF UploadStep

\* The two things that a step of the request may do to the row, apart from
\* leaving it alone.
RowRemoved(c) ==
    /\ upc[c] = "rollbackRow"
    /\ status'[c] = Absent /\ message'[c] = NoMessage

RowPrepared(c) ==
    /\ task[c] = "none" /\ status[c] \in {Absent, "uploaded"}
    /\ status'[c] \in {"uploaded", "queued"} /\ message'[c] = NoMessage

\* A step of a request leaves its row alone, removes it or prepares it.
LEMMA UploadRow ==
    ASSUME TypeOK, UploadInv, NEW c \in Calls, UploadStep(c) \/ AbortUpload(c)
    PROVE  RowSame(c) \/ RowRemoved(c) \/ RowPrepared(c)
<1> USE DEF TypeOK, StoreTypeOK, UploadInv, storeVars, rowVars,
        RowSame, RowRemoved, RowPrepared
<1>1. CASE RejectUpload(c)
  BY <1>1 DEF RejectUpload, Succeeds
<1>2. CASE PutObject(c)
  BY <1>2 DEF PutObject, Succeeds
<1>3. CASE PutObjectErrs(c)
  BY <1>3 DEF PutObjectErrs, ReportsError
<1>4. CASE CreateCall(c)
  BY <1>4 DEF CreateCall, Succeeds, InsertRow
<1>5. CASE CreateCallErrs(c)
  BY <1>5 DEF CreateCallErrs, ReportsError, InsertRow
<1>6. CASE Cleanup(c)
  BY <1>6 DEF Cleanup, Succeeds, ReportsError, ReportsExpired
<1>7. CASE QueueInWorkspace(c)
  BY <1>7 DEF QueueInWorkspace, Succeeds, TransitionApplies
<1>8. CASE QueueInWorkspaceErrs(c)
  BY <1>8 DEF QueueInWorkspaceErrs, ReportsError, TransitionApplies
<1>9. CASE EnqueueCall(c)
  BY <1>9 DEF EnqueueCall, Succeeds, EnqueueApplies
<1>10. CASE EnqueueCallErrs(c)
  BY <1>10 DEF EnqueueCallErrs, ReportsError, EnqueueErrs, EnqueueApplies
<1>11. CASE RollbackRow(c)
  BY <1>11 DEF RollbackRow, Succeeds, ReportsError, ReportsExpired,
     DeleteRow
<1>12. CASE RollbackObject(c)
  BY <1>12 DEF RollbackObject, Succeeds, ReportsError
<1>13. CASE AbortUpload(c)
  BY <1>13 DEF AbortUpload
<1> QED
  BY <1>1, <1>2, <1>3, <1>4, <1>5, <1>6, <1>7, <1>8, <1>9, <1>10, <1>11,
     <1>12, <1>13 DEF UploadStep

\* What the request, the row, the audio and the task of a call have to do with
\* one another: the parts of the invariant that are about one call.
CallInv(c) ==
    /\ upc[c] \in {"put", "create", "cleanup", "queue", "enqueue"} => task[c] = "none"
    /\ upc[c] \in {"put", "create", "rollbackObject"} => status[c] = Absent
    /\ upc[c] = "cleanup" => status[c] \in {Absent, "uploaded"}
    /\ upc[c] = "queue" => status[c] = "uploaded"
    /\ upc[c] = "enqueue" => status[c] = "queued"
    /\ upc[c] \in {"create", "queue", "enqueue", "rollbackRow"} => c \in object
    /\ upc[c] = "accepted" => task[c] # "none"
    /\ task[c] # "none" =>
          /\ status[c] # "uploaded"
          /\ upc[c] = "accepted" => status[c] # Absent
    /\ status[c] \notin {Absent, "uploaded"} => c \in object

\* A step of a request keeps these relations for its own call.
LEMMA UploadCallInv ==
    ASSUME TypeOK, NEW c \in Calls, CallInv(c), UploadStep(c) \/ AbortUpload(c)
    PROVE  CallInv(c)'
<1> USE DEF TypeOK, StoreTypeOK, QueueTypeOK, UploadTypeOK, CallInv, SetTask,
        queueVars, storeVars, rowVars, Absent
<1>1. CASE RejectUpload(c)
  BY <1>1 DEF RejectUpload, Succeeds
<1>2. CASE PutObject(c)
  BY <1>2 DEF PutObject, Succeeds
<1>3. CASE PutObjectErrs(c)
  BY <1>3 DEF PutObjectErrs, ReportsError
<1>4. CASE CreateCall(c)
  BY <1>4 DEF CreateCall, Succeeds, InsertRow
<1>5. CASE CreateCallErrs(c)
  BY <1>5 DEF CreateCallErrs, ReportsError, InsertRow
<1>6. CASE Cleanup(c)
  BY <1>6 DEF Cleanup, Succeeds, ReportsError, ReportsExpired
<1>7. CASE QueueInWorkspace(c)
  BY <1>7 DEF QueueInWorkspace, Succeeds, TransitionApplies
<1>8. CASE QueueInWorkspaceErrs(c)
  BY <1>8 DEF QueueInWorkspaceErrs, ReportsError, TransitionApplies
<1>9. CASE EnqueueCall(c)
  BY <1>9 DEF EnqueueCall, Succeeds, EnqueueApplies
<1>10. CASE EnqueueCallErrs(c)
  BY <1>10 DEF EnqueueCallErrs, ReportsError, EnqueueErrs, EnqueueApplies
<1>11. CASE RollbackRow(c)
  BY <1>11 DEF RollbackRow, Succeeds, ReportsError, ReportsExpired,
     DeleteRow
<1>12. CASE RollbackObject(c)
  BY <1>12 DEF RollbackObject, Succeeds, ReportsError
<1>13. CASE AbortUpload(c)
  BY <1>13 DEF AbortUpload
<1> QED
  BY <1>1, <1>2, <1>3, <1>4, <1>5, <1>6, <1>7, <1>8, <1>9, <1>10, <1>11,
     <1>12, <1>13 DEF UploadStep

\* A step of a request or of its process keeps the invariant.
LEMMA UploadStepInv ==
    ASSUME Inv, NEW c \in Calls, UploadStep(c) \/ AbortUpload(c),
           UNCHANGED processingVars
    PROVE  Inv'
<1> USE DEF Inv
<1>1. TypeOK' /\ JobOK'
  BY UploadTypes DEF JobOK, processingVars
<1>2. \A d \in Calls : CallInv(d)
  BY DEF UploadInv, TaskInv, QueuedHasAudio, CallInv
<1>3. \A d \in Calls \ {c} :
         /\ RowSame(d)
         /\ upc'[d] = upc[d] /\ task'[d] = task[d]
         /\ d \in object' <=> d \in object
  BY UploadFrame
<1>4. RowSame(c) \/ RowRemoved(c) \/ RowPrepared(c)
  BY UploadRow
<1>5. \A d \in Calls : CallInv(d)'
  BY <1>2, <1>3, UploadCallInv DEF CallInv, RowSame
<1>6. /\ job' = job /\ pc' = pc /\ local' = local /\ draft' = draft
      /\ \A w \in Workers : job[w] \in Calls => task[job[w]] # "none"
      /\ \A w \in Workers : job[w] \in Calls \/ pc[w] = "idle"
  BY DEF processingVars, TaskInv, TypeOK, ProcessingTypeOK, JobOK
<1>7. \A d \in Calls : task[d] # "none" =>
         /\ task'[d] = task[d]
         /\ RowSame(d) \/ RowRemoved(d)
  <2>1. task[c] # "none" => task'[c] = task[c]
    BY DEF UploadStep, RejectUpload, PutObject, PutObjectErrs, CreateCall,
       CreateCallErrs, Cleanup, QueueInWorkspace, QueueInWorkspaceErrs,
       EnqueueCall, EnqueueCallErrs, EnqueueErrs, EnqueueApplies, RollbackRow,
       RollbackObject, AbortUpload, queueVars
  <2> QED
    BY <1>3, <1>4, <2>1 DEF RowPrepared
<1>8. UploadInv' /\ QueuedHasAudio'
  BY <1>5 DEF UploadInv, QueuedHasAudio, CallInv
<1>9. TaskInv'
  <2>1. \A w \in Workers : job'[w] \in Calls => task'[job'[w]] # "none"
    BY <1>6, <1>7
  <2> QED
    BY <1>5, <2>1 DEF TaskInv, CallInv
<1>10. CheckpointInv'
  <2>1. CheckpointsPersisted'
    BY <1>3, <1>4 DEF CheckpointInv, CheckpointsPersisted, RowSame, RowRemoved,
       RowPrepared, HasTranscript, HasResult, Absent
  <2>2. ASSUME NEW w \in Workers
        PROVE  WorkerReady(w)'
    <3>1. WorkerReady(w)
      BY DEF CheckpointInv, WorkerReady
    <3>2. CASE pc[w] = "idle"
      BY <1>6, <3>2 DEF WorkerReady
    <3>3. CASE job[w] \in Calls
      <4>1. RowSame(job[w]) \/ RowRemoved(job[w])
        BY <1>6, <1>7, <3>3
      <4> QED
        BY <1>6, <3>1, <4>1 DEF WorkerReady, RowSame, RowRemoved, HasTranscript,
           HasResult
    <3> QED
      BY <1>6, <3>2, <3>3
  <2> QED
    BY <2>1, <2>2 DEF CheckpointInv, WorkerReady
<1>11. FinalInv'
  <2>1. ASSUME NEW d \in Calls, task[d] # "none", status[d] \in {"completed", Absent}
        PROVE  status'[d] \in {"completed", Absent}
    BY <1>7, <2>1 DEF RowSame, RowRemoved
  <2>2. \A d \in Calls : task'[d] = "done" => task[d] = "done"
    BY <1>3 DEF UploadStep, RejectUpload, PutObject, PutObjectErrs, CreateCall,
       CreateCallErrs, Cleanup, QueueInWorkspace, QueueInWorkspaceErrs,
       EnqueueCall, EnqueueCallErrs, EnqueueErrs, EnqueueApplies, RollbackRow,
       RollbackObject, AbortUpload, queueVars, SetTask, TypeOK, QueueTypeOK
  <2> QED
    BY <1>6, <2>1, <2>2 DEF FinalInv
<1>12. MessageMeansFailed'
  BY <1>3, <1>4 DEF MessageMeansFailed, RowSame, RowRemoved, RowPrepared, Absent
<1> QED
  BY <1>1, <1>8, <1>9, <1>10, <1>11, <1>12

-------------------------------------------------------------------------------
(* The invariant. *)

\* A step of a worker keeps the invariant.
LEMMA WorkerStepInv ==
    ASSUME Inv, NEW w \in Workers, WorkerStep(w), UNCHANGED uploadVars
    PROVE  Inv'
<1> USE DEF Inv
<1>1. TypeOK' /\ JobOK'
  BY WorkerTypes
<1>2. /\ object' = object /\ upc' = upc
      /\ job[w] \in Calls /\ job'[w] \in {job[w], NoCall} /\ NoCall \notin Calls
      /\ \A v \in Workers \ {w} :
            /\ pc'[v] = pc[v] /\ job'[v] = job[v]
            /\ local'[v] = local[v] /\ draft'[v] = draft[v]
      /\ \A c \in Calls \ {job[w]} : RowSame(c) /\ task'[c] = task[c]
  BY WorkerFrame, ProcessingAssumption DEF uploadVars, RowSame
<1>3. \/ RowSame(job[w]) \/ RowMoves(job[w])
      \/ RowTranscribed(job[w]) \/ RowAnalysed(job[w])
  BY WorkerRow
<1>4. \A c \in Calls :
         /\ status[c] \in {"completed", Absent} => status'[c] = status[c]
         /\ status'[c] = Absent => status[c] = Absent
         /\ HasTranscript(c) => HasTranscript(c)'
         /\ HasResult(c) => HasResult(c)'
  BY <1>2, <1>3, RowMonotone
<1>5. /\ \A c \in Calls : task[c] # "none" => task'[c] # "none"
      /\ \A c \in Calls : task'[c] = "done" =>
            \/ task[c] = "done"
            \/ c = job[w] /\ pc[w] = "ok"
      /\ task[job[w]] # "none"
  BY <1>2, WorkerTask DEF TaskInv
<1>6. \A c \in Calls : status'[c] = status[c] \/ c = job[w]
  BY <1>2 DEF RowSame
<1>7. status'[job[w]] = "uploaded" => status[job[w]] = "uploaded"
  BY <1>3 DEF RowSame, RowMoves, RowTranscribed, RowAnalysed, CanTransition,
     AllowedTransitions
<1>8. UploadInv'
  <2>1. ASSUME NEW c \in Calls PROVE CallInv(c)'
    <3>1. CallInv(c)
      BY DEF UploadInv, TaskInv, QueuedHasAudio, CallInv
    <3>2. CASE c # job[w]
      BY <1>2, <3>1, <3>2 DEF CallInv, RowSame
    <3>3. CASE c = job[w]
      BY <1>2, <1>4, <1>5, <1>7, <3>1, <3>3 DEF CallInv
    <3> QED
      BY <3>2, <3>3
  <2> QED
    BY <2>1 DEF UploadInv, CallInv
<1>9. TaskInv'
  <2>1. ASSUME NEW c \in Calls, task'[c] # "none"
        PROVE  status'[c] # "uploaded" /\ (upc'[c] = "accepted" => status'[c] # Absent)
    BY <1>2, <1>4, <1>5, <1>6, <1>7, <2>1 DEF TaskInv, RowSame
  <2>2. \A v \in Workers : job'[v] \in Calls => task'[job'[v]] # "none"
    BY <1>2, <1>5 DEF TaskInv
  <2> QED
    BY <2>1, <2>2 DEF TaskInv
<1>10. QueuedHasAudio'
  BY <1>2, <1>4, <1>5, <1>6 DEF QueuedHasAudio, TaskInv
<1>11. CheckpointInv'
  <2>1. CheckpointsPersisted'
    <3>1. ASSUME NEW c \in Calls, RowMoves(c)
          PROVE  /\ status'[c] \in {"transcribed", "analyzing", "completed"} =>
                       HasTranscript(c)
                 /\ status'[c] = "completed" => HasResult(c)
      BY <3>1 DEF CheckpointInv, CheckpointsPersisted, RowMoves, CanTransition,
         AllowedTransitions
    <3> QED
      BY <1>2, <1>3, <1>4, <3>1 DEF CheckpointInv, CheckpointsPersisted, RowSame,
         RowTranscribed, RowAnalysed
  <2>2. ASSUME NEW v \in Workers
        PROVE  WorkerReady(v)'
    <3>1. CASE v = w
      BY <3>1, WorkerReadyNext
    <3>2. CASE v # w
      <4>1. WorkerReady(v)
        BY DEF CheckpointInv, WorkerReady
      <4>2. job[v] \in Calls \/ pc[v] = "idle"
        BY DEF TypeOK, ProcessingTypeOK, JobOK
      <4> QED
        BY <1>2, <1>4, <3>2, <4>1, <4>2 DEF WorkerReady
    <3> QED
      BY <3>1, <3>2
  <2> QED
    BY <2>1, <2>2 DEF CheckpointInv, WorkerReady
<1>12. FinalInv'
  <2>1. ASSUME NEW v \in Workers
        PROVE  /\ pc'[v] = "ok" => local'[v] = "completed"
               /\ local'[v] = "completed" =>
                     job'[v] \in Calls /\ status'[job'[v]] \in {"completed", Absent}
    <3>1. CASE v = w
      BY <1>2, <3>1, WorkerLocal
    <3>2. CASE v # w
      BY <1>2, <1>4, <3>2 DEF FinalInv
    <3> QED
      BY <3>1, <3>2
  <2>2. ASSUME NEW c \in Calls, task'[c] = "done"
        PROVE  status'[c] \in {"completed", Absent}
    BY <1>4, <1>5, <2>2 DEF FinalInv
  <2> QED
    BY <2>1, <2>2 DEF FinalInv
<1>13. MessageMeansFailed'
  <2>1. message'[job[w]] # NoMessage <=> status'[job[w]] = "failed"
    BY <1>2, <1>3 DEF MessageMeansFailed, RowSame, RowMoves, RowTranscribed,
       RowAnalysed
  <2> QED
    BY <1>2, <2>1 DEF MessageMeansFailed, RowSame
<1> QED
  BY <1>1, <1>8, <1>9, <1>10, <1>11, <1>12, <1>13

\* A delivery, a lost lease, a death or a shutdown only moves tasks and empties
\* workers; none of them finishes a task.
LEMMA EnvironmentInv ==
    ASSUME Inv, UNCHANGED uploadVars,
           \/ \E w \in Workers, c \in Calls : Deliver(w, c)
           \/ \E c \in Calls : LeaseExpires(c)
           \/ \E p \in Procs : Crash(p) \/ Shutdown(p)
    PROVE  Inv'
<1> USE DEF Inv
<1>1. TypeOK' /\ JobOK'
  BY EnvironmentTypes
<1>2. UNCHANGED storeVars /\ upc' = upc
  BY DEF Deliver, LeaseExpires, Crash, Shutdown, uploadVars
<1> DEFINE TasksKept ==
              \A c \in Calls :
                  /\ task'[c] # "none" <=> task[c] # "none"
                  /\ task'[c] = "done" => task[c] = "done"
           WorkersKept ==
              \A w \in Workers :
                  \/ /\ pc'[w] = pc[w] /\ job'[w] = job[w]
                     /\ local'[w] = local[w] /\ draft'[w] = draft[w]
                  \/ pc'[w] = "idle" /\ job'[w] = NoCall /\ local'[w] = Absent
                  \/ /\ pc'[w] = "lock" /\ local'[w] = local[w] /\ job[w] = NoCall
                     /\ job'[w] \in Calls /\ task[job'[w]] # "none"
<1>3. TasksKept
  <2> USE DEF TypeOK, QueueTypeOK, ProcessingTypeOK, SetTask, queueVars
  <2>1. ASSUME NEW w \in Workers, NEW c \in Calls, Deliver(w, c) PROVE TasksKept
    BY <2>1 DEF Deliver, Take
  <2>2. ASSUME NEW c \in Calls, LeaseExpires(c) PROVE TasksKept
    BY <2>2 DEF LeaseExpires, RetryOrArchive
  <2>3. ASSUME NEW p \in Procs, Crash(p) PROVE TasksKept
    BY <2>3 DEF Crash
  <2>4. ASSUME NEW p \in Procs, Shutdown(p) PROVE TasksKept
    BY <2>4 DEF Shutdown, LeaseHolders, TaskInv
  <2> QED
    BY <2>1, <2>2, <2>3, <2>4
<1>4. WorkersKept
  <2> USE DEF TypeOK, QueueTypeOK, ProcessingTypeOK
  <2>1. ASSUME NEW w \in Workers, NEW c \in Calls, Deliver(w, c) PROVE WorkersKept
    BY <2>1 DEF Deliver, Take, JobOK
  <2>2. ASSUME NEW c \in Calls, LeaseExpires(c) PROVE WorkersKept
    BY <2>2 DEF LeaseExpires
  <2>3. ASSUME NEW p \in Procs, Crash(p) \/ Shutdown(p) PROVE WorkersKept
    BY <2>3 DEF Crash, Shutdown, Reset
  <2> QED
    BY <2>1, <2>2, <2>3
<1>5. /\ status' = status /\ message' = message /\ transcript' = transcript
      /\ result' = result /\ object' = object
  BY <1>2 DEF storeVars
<1>6. UploadInv' /\ QueuedHasAudio' /\ MessageMeansFailed'
  BY <1>2, <1>3, <1>5 DEF UploadInv, QueuedHasAudio, MessageMeansFailed
<1>7. TaskInv'
  BY <1>2, <1>3, <1>4, <1>5, ProcessingAssumption DEF TaskInv
<1>8. CheckpointInv'
  <2>1. CheckpointsPersisted'
    BY <1>5 DEF CheckpointInv, CheckpointsPersisted, HasTranscript, HasResult
  <2>2. \A w \in Workers : WorkerReady(w)'
    BY <1>4, <1>5 DEF CheckpointInv, WorkerReady, HasTranscript, HasResult
  <2> QED
    BY <2>1, <2>2 DEF CheckpointInv, WorkerReady
<1>9. FinalInv'
  BY <1>3, <1>4, <1>5, ProcessingAssumption DEF FinalInv, Absent
<1> QED
  BY <1>1, <1>6, <1>7, <1>8, <1>9

\* The invariant is inductive.
LEMMA StepInv ==
    ASSUME Inv, [Next]_vars
    PROVE  Inv'
<1>1. CASE UNCHANGED vars
  BY <1>1 DEF vars, storeVars, queueVars, uploadVars, processingVars, Inv, TypeOK,
     StoreTypeOK, QueueTypeOK, UploadTypeOK, ProcessingTypeOK, JobOK, UploadInv,
     TaskInv, QueuedHasAudio, CheckpointInv, CheckpointsPersisted, HasTranscript,
     HasResult, FinalInv, MessageMeansFailed
<1> QED
  BY <1>1, UploadStepInv, WorkerStepInv, EnvironmentInv DEF Next, Terminated

\* The invariant holds at the start.
LEMMA InitInv == Init => Inv
<1>1. Init => TypeOK /\ JobOK
  BY InitTypes
<1>2. Init => /\ UploadInv /\ TaskInv /\ QueuedHasAudio /\ CheckpointInv
              /\ FinalInv /\ MessageMeansFailed
  BY ProcessingAssumption DEF Init, StoreInit, QueueInit, UploadInit,
     ProcessingInit, UploadInv, TaskInv, QueuedHasAudio, CheckpointInv,
     CheckpointsPersisted, FinalInv, MessageMeansFailed, Absent
<1> QED
  BY <1>1, <1>2 DEF Inv

\* In every state of every behaviour, whatever the numbers of calls, workers and
\* processes and whatever fails.
THEOREM Invariance == Spec => []Inv
BY InitInv, StepInv, PTL DEF Spec

\* A status never claims a checkpoint that is not stored.
THEOREM Checkpoints == Spec => []CheckpointsPersisted
<1>1. Inv => CheckpointsPersisted
  BY DEF Inv, CheckpointInv
<1> QED
  BY <1>1, Invariance, PTL

\* The clean-up of the upload handler never takes the audio of a queued row.
THEOREM Audio == Spec => []QueuedHasAudio
<1>1. Inv => QueuedHasAudio
  BY DEF Inv
<1> QED
  BY <1>1, Invariance, PTL

\* A 201 is only sent for a call whose row, audio and task are all there, and
\* nothing takes one of them away afterwards.
THEOREM Accepted == Spec => []AcceptedIsDurable
<1>1. Inv => AcceptedIsDurable
  BY DEF Inv, UploadInv, TaskInv, QueuedHasAudio, AcceptedIsDurable
<1> QED
  BY <1>1, Invariance, PTL

\* The queue never forgets the task of a call that has yet to be completed.
THEOREM Done == Spec => []DoneMeansCompleted
<1>1. Inv => DoneMeansCompleted
  BY DEF Inv, TaskInv, FinalInv, DoneMeansCompleted
<1> QED
  BY <1>1, Invariance, PTL

\* A row shows an error message exactly while it is failed.
THEOREM FailureMessages == Spec => []MessageMeansFailed
<1>1. Inv => MessageMeansFailed
  BY DEF Inv
<1> QED
  BY <1>1, Invariance, PTL

\* No step of any worker, however late, takes "completed" back, and the upload
\* handler does so only when it rolls back a request it has not accepted.
LEMMA CompletedStep ==
    ASSUME Inv, [Next]_vars, NEW c \in Calls, status[c] = "completed"
    PROVE  \/ status'[c] = "completed"
           \/ status'[c] = Absent /\ upc[c] = "rollbackRow"
<1> USE DEF Inv
<1>1. CASE status' = status
  BY <1>1
<1>2. ASSUME NEW d \in Calls, UploadStep(d) \/ AbortUpload(d)
      PROVE  \/ status'[c] = "completed"
             \/ status'[c] = Absent /\ upc[c] = "rollbackRow"
  <2>1. RowSame(d) \/ RowRemoved(d) \/ RowPrepared(d)
    BY <1>2, UploadRow
  <2>2. c # d => RowSame(c)
    BY <1>2, UploadFrame
  <2> QED
    BY <2>1, <2>2 DEF RowSame, RowRemoved, RowPrepared, Absent
<1>3. ASSUME NEW w \in Workers, WorkerStep(w)
      PROVE  status'[c] = "completed"
  <2>1. CASE c # job[w]
    BY <1>3, <2>1, WorkerFrame
  <2>2. CASE c = job[w]
    BY <1>3, <2>2, WorkerRow, RowMonotone
  <2> QED
    BY <2>1, <2>2
<1>4. \/ status' = status
      \/ \E d \in Calls : UploadStep(d) \/ AbortUpload(d)
      \/ \E w \in Workers : WorkerStep(w)
  BY DEF Next, Terminated, vars, storeVars, Deliver, LeaseExpires, Crash, Shutdown
<1> QED
  BY <1>1, <1>2, <1>3, <1>4

\* A completed call stays completed against every stale or duplicate delivery.
THEOREM CompletedForGood == Spec => CompletedIsFinal
<1>1. Inv /\ [Next]_vars =>
        [\A c \in Calls :
            status[c] = "completed" =>
               \/ status'[c] = "completed"
               \/ status'[c] = Absent /\ upc[c] = "rollbackRow"]_vars
  BY CompletedStep
<1> QED
  BY <1>1, Invariance, PTL DEF Spec, CompletedIsFinal

-------------------------------------------------------------------------------
(* The inductive invariant of one process. *)

\* All workers are goroutines of the same process.
OneWorkerProcess == \A v, w \in Workers : ProcOf[v] = ProcOf[w]

\* The call lock: two workers that hold it work on different calls.
Exclusion ==
    \A v, w \in Workers : v # w /\ Holds(v) /\ Holds(w) => job[v] # job[w]

\* The steps of the case transcribing and those of the case analyzing.
TranscribingSteps ==
    {"transcribe", "saveTranscript", "markTranscribed", "failTranscription"}
AnalyzingSteps ==
    {"readTranscript", "loadPlaybook", "analyze", "saveAnalysis",
     "markCompleted", "failAnalysis"}

\* What a worker that holds the lock believes is so: the status of its call, the
\* case it is in, that what it is making is not stored yet, and that the
\* transcript it has in hand is the stored one.
Sees(w) ==
    /\ Holds(w) /\ pc[w] \notin {"load", "err"} =>
          status[job[w]] \in {local[w], Absent}
    /\ pc[w] \in TranscribingSteps => local[w] = "transcribing"
    /\ pc[w] \in AnalyzingSteps => local[w] = "analyzing"
    /\ pc[w] \in {"transcribe", "saveTranscript", "failTranscription"} =>
          ~HasTranscript(job[w])
    /\ pc[w] \in {"readTranscript", "loadPlaybook", "analyze", "saveAnalysis",
                  "failAnalysis"} => ~HasResult(job[w])
    /\ pc[w] \in {"loadPlaybook", "analyze", "saveAnalysis"} =>
          status[job[w]] = Absent \/ draft[w].of = transcript[job[w]]

\* A call without an analysis has no trace of one.
NoTrace == \A c \in Calls : HasResult(c) \/ result[c] = NoResult

LockInv ==
    /\ Inv /\ Exclusion /\ NoTrace /\ FailureIsTruthful
    /\ \A w \in Workers : Sees(w)
-------------------------------------------------------------------------------
(* What the steps of a request do to the stored results. *)

\* A request leaves the results of its call alone, or deletes them with the row.
ResultsKept(c) ==
    \/ transcript'[c] = transcript[c] /\ result'[c] = result[c]
    \/ /\ status'[c] = Absent
       /\ transcript'[c] = NoTranscript /\ result'[c] = NoResult

\* No step of a request writes a transcript or an analysis.
LEMMA UploadResults ==
    ASSUME TypeOK, NEW c \in Calls, UploadStep(c) \/ AbortUpload(c)
    PROVE  ResultsKept(c)
<1>1. CASE UNCHANGED <<transcript, result>>
  BY <1>1 DEF ResultsKept
<1>2. CASE RollbackRow(c)
  BY <1>1, <1>2 DEF RollbackRow, DeleteRow, rowVars, ResultsKept, TypeOK,
     StoreTypeOK
<1>3. UploadStep(c) \/ AbortUpload(c) =>
         UNCHANGED <<transcript, result>> \/ RollbackRow(c)
  BY DEF UploadStep, RejectUpload, PutObject, PutObjectErrs, CreateCall,
     CreateCallErrs, InsertRow, Cleanup, QueueInWorkspace, QueueInWorkspaceErrs,
     TransitionApplies, EnqueueCall, EnqueueCallErrs, RollbackObject,
     AbortUpload, storeVars, rowVars
<1> QED
  BY <1>1, <1>2, <1>3

\* A step of a request keeps the invariant: the only thing it may do to a call
\* that a worker has is to remove its row.
LEMMA UploadLockInv ==
    ASSUME LockInv, NEW c \in Calls, UploadStep(c) \/ AbortUpload(c),
           UNCHANGED processingVars
    PROVE  LockInv'
<1> USE DEF LockInv
<1>1. Inv'
  BY UploadStepInv
<1>2. TypeOK /\ TypeOK' /\ UploadInv /\ TaskInv /\ MessageMeansFailed
  BY <1>1 DEF Inv
<1>3. \A d \in Calls \ {c} : RowSame(d)
  BY <1>2, UploadFrame
<1>4. RowSame(c) \/ RowRemoved(c) \/ RowPrepared(c)
  BY <1>2, UploadRow
<1>5. ResultsKept(c)
  BY <1>2, UploadResults
<1>6. pc' = pc /\ job' = job /\ local' = local /\ draft' = draft
  BY DEF processingVars
<1>7. Exclusion'
  BY <1>6 DEF Exclusion, Holds
<1>8. NoTrace'
  BY <1>3, <1>5 DEF NoTrace, RowSame, ResultsKept, HasResult
<1>9. FailureIsTruthful'
  <2>1. \A d \in Calls : message'[d] # NoMessage => RowSame(d)
    BY <1>3, <1>4 DEF RowRemoved, RowPrepared
  <2>2. "transcription provider failed" # NoMessage
        /\ "analysis provider failed" # NoMessage
    BY DEF NoMessage
  <2> QED
    BY <2>1, <2>2 DEF FailureIsTruthful, RowSame, HasTranscript, HasResult
<1>10. ASSUME NEW w \in Workers
       PROVE  Sees(w)'
  <2>1. Sees(w)
    OBVIOUS
  <2>2. CASE job[w] \notin Calls
    <3>1. pc[w] = "idle"
      BY <2>2 DEF Inv, JobOK, TypeOK, ProcessingTypeOK
    <3> QED
      BY <1>6, <3>1 DEF Sees, Holds, LockedSteps, TranscribingSteps, AnalyzingSteps
  <2>3. CASE job[w] \in Calls
    <3>1. task[job[w]] # "none"
      BY <1>2, <2>3 DEF TaskInv
    <3>2. \/ RowSame(job[w])
          \/ /\ status'[job[w]] = Absent
             /\ ResultsKept(job[w])
      BY <1>3, <1>4, <1>5, <2>3, <3>1 DEF RowPrepared, RowRemoved
    <3> QED
      BY <1>6, <2>1, <3>2 DEF Sees, Holds, RowSame, ResultsKept, HasTranscript,
         HasResult, NoResult, Absent
  <2> QED
    BY <2>2, <2>3
<1> QED
  BY <1>1, <1>7, <1>8, <1>9, <1>10

-------------------------------------------------------------------------------
(* The steps of a worker under the lock. *)

\* A step of worker w is about its own call, changes its row only under the lock,
\* and enters the locked steps only through the lock.
LEMMA WorkerLock ==
    ASSUME NEW w \in Workers, TypeOK, WorkerStep(w)
    PROVE  /\ Holds(w) \/ (UNCHANGED storeVars /\ pc'[w] \in {"load", "idle"})
           /\ Holds(w)' => Holds(w) \/ AcquireLock(w)
<1> USE DEF WorkerStep, ProcessStep, Holds, LockedSteps, Goto, TypeOK,
       ProcessingTypeOK
<1>1. CASE AcquireLock(w)
  BY <1>1 DEF AcquireLock
<1>2. CASE Holds(w)
  BY <1>2
<1>3. WorkerStep(w) => AcquireLock(w) \/ Holds(w)
  BY DEF LoadCall, AlreadyCompleted, RetryFailed, StartTranscribing,
     StartAnalyzing, GetTranscript, Transcribe, SaveTranscript, MarkTranscribed,
     CheckAnalysis, ReadTranscript, LoadPlaybook, Analyze, SaveAnalysis,
     MarkCompleted, Fail, Return
<1> QED
  BY <1>1, <1>2, <1>3

\* A transition keeps what the worker believes: the row and its copy change
\* together, or the copy is not used any more.
LEMMA AdvanceSees ==
    ASSUME TypeOK, NEW w \in Workers, job[w] \in Calls,
           NEW to \in Statuses, NEW next \in {"loop", "ok"},
           Advance(w, to, next)
    PROVE  Sees(w)'
<1> USE DEF TypeOK, StoreTypeOK, ProcessingTypeOK, Sees, Holds, LockedSteps,
        TranscribingSteps, AnalyzingSteps
<1>1. CASE /\ TransitionApplies(job[w], local[w], to, NoMessage)
           /\ local' = [local EXCEPT ![w] = to]
           /\ pc' = [pc EXCEPT ![w] = next]
           /\ UNCHANGED <<job, lease, draft, outputs, shutdowns>>
  BY <1>1 DEF TransitionApplies
<1>2. CASE Goto(w, "err")
  BY <1>2 DEF Goto
<1> QED
  BY <1>1, <1>2 DEF Advance

\* A step of a worker keeps what it believes.
LEMMA WorkerSees ==
    ASSUME Inv, NEW w \in Workers, Sees(w), WorkerStep(w)
    PROVE  Sees(w)'
<1>0. job[w] \in Calls /\ TypeOK
  BY WorkerFrame DEF Inv
<1> USE <1>0, Members
    DEF TypeOK, StoreTypeOK, ProcessingTypeOK, Sees, Holds, LockedSteps, Goto,
        TranscribingSteps, AnalyzingSteps, HasTranscript, HasResult, storeVars,
        rowVars
<1>1. CASE AcquireLock(w)
  BY <1>1 DEF AcquireLock
<1>2. CASE LoadCall(w)
  BY <1>2 DEF LoadCall
<1>3. CASE AlreadyCompleted(w)
  BY <1>3 DEF AlreadyCompleted
<1>4. CASE RetryFailed(w)
  BY <1>4, AdvanceSees DEF RetryFailed
<1>5. CASE StartTranscribing(w)
  BY <1>5, AdvanceSees DEF StartTranscribing
<1>6. CASE StartAnalyzing(w)
  BY <1>6, AdvanceSees DEF StartAnalyzing
<1>7. CASE GetTranscript(w)
  BY <1>7 DEF GetTranscript
<1>8. CASE Transcribe(w)
  BY <1>8 DEF Transcribe
<1>9. CASE SaveTranscript(w)
  BY <1>9 DEF SaveTranscript, UpsertTranscriptApplies, UpsertTranscriptErrs
<1>10. CASE MarkTranscribed(w)
  BY <1>10, AdvanceSees DEF MarkTranscribed
<1>11. CASE CheckAnalysis(w)
  BY <1>11 DEF CheckAnalysis
<1>12. CASE ReadTranscript(w)
  <2>1. Draft(0, transcript[job[w]], "builtin").of = transcript[job[w]]
    BY DraftTypes
  <2> QED
    BY <1>12, <2>1 DEF ReadTranscript
<1>13. CASE LoadPlaybook(w)
  <2>1. draft'[w].of = draft[w].of
    BY <1>13, DraftTypes DEF LoadPlaybook
  <2> QED
    BY <1>13, <2>1 DEF LoadPlaybook
<1>14. CASE Analyze(w)
  <2>1. draft'[w].of = draft[w].of
    BY <1>14, DraftTypes DEF Analyze
  <2> QED
    BY <1>14, <2>1 DEF Analyze
<1>15. CASE SaveAnalysis(w)
  BY <1>15 DEF SaveAnalysis, UpsertWithScoreApplies, UpsertWithScoreErrs
<1>16. CASE MarkCompleted(w)
  BY <1>16, AdvanceSees DEF MarkCompleted
<1>17. CASE Fail(w)
  BY <1>17 DEF Fail
<1>18. CASE Return(w)
  BY <1>18 DEF Return, Reset
<1> QED
  BY <1>1, <1>2, <1>3, <1>4, <1>5, <1>6, <1>7, <1>8, <1>9, <1>10, <1>11,
     <1>12, <1>13, <1>14, <1>15, <1>16, <1>17, <1>18 DEF WorkerStep, ProcessStep

\* What the conditional updates and upserts of a worker under the lock amount to:
\* the row follows the transition table from the status the worker knows, with a
\* message that says what is so; a transcript is stored while there is none and
\* the call is transcribing; an analysis of the stored transcript, while there is
\* none and the call is analyzing.
Transitions(c) ==
    /\ \E to \in Statuses, text \in Messages \cup {NoMessage} :
          /\ TransitionApplies(c, status[c], to, text)
          /\ to = "transcribed" => HasTranscript(c)
          /\ to = "completed" => HasResult(c)
          /\ text = "transcription provider failed" => ~HasTranscript(c)
          /\ text = "analysis provider failed" =>
                status[c] = "analyzing" /\ ~HasResult(c)

StoresTranscript(c) ==
    /\ status[c] = "transcribing" /\ ~HasTranscript(c)
    /\ \E t \in Nat \ {NoTranscript} : transcript' = [transcript EXCEPT ![c] = t]
    /\ UNCHANGED <<status, message, result>>

StoresAnalysis(c) ==
    /\ status[c] = "analyzing" /\ ~HasResult(c)
    /\ \E r \in Results :
          /\ r.version # 0 /\ r.of = transcript[c]
          /\ result' = [result EXCEPT ![c] = r]
    /\ UNCHANGED <<status, message, transcript>>

\* The transitions of the main loop.
LEMMA AdvanceEffect ==
    ASSUME Inv, NEW w \in Workers, job[w] \in Calls,
           NEW to \in Statuses \ {"failed"}, NEW next \in Steps,
           Advance(w, to, next),
           to = "transcribed" => pc[w] = "markTranscribed",
           to = "completed" => pc[w] = "markCompleted"
    PROVE  UNCHANGED rowVars \/ Transitions(job[w])
<1>1. CASE TransitionApplies(job[w], local[w], to, NoMessage)
  <2>1. status[job[w]] = local[w] /\ status[job[w]] # Absent
    BY <1>1, TransitionTable DEF TransitionApplies, Inv, TypeOK, StoreTypeOK
  <2>2. /\ to = "transcribed" => HasTranscript(job[w])
        /\ to = "completed" => HasResult(job[w])
    BY <2>1 DEF Inv, CheckpointInv
  <2>3. NoMessage # "transcription provider failed"
        /\ NoMessage # "analysis provider failed"
    BY DEF NoMessage
  <2>4. TransitionApplies(job[w], status[job[w]], to, NoMessage)
    BY <1>1, <2>1
  <2> QED
    BY <2>2, <2>3, <2>4 DEF Transitions
<1>2. CASE UNCHANGED rowVars
  BY <1>2
<1> QED
  BY <1>1, <1>2 DEF Advance, TransitionErrs

\* Every step of a worker under the lock is one of these, or leaves the row alone.
LEMMA WorkerEffect ==
    ASSUME Inv, NEW w \in Workers, Sees(w), WorkerStep(w)
    PROVE  \/ UNCHANGED rowVars
           \/ Transitions(job[w])
           \/ StoresTranscript(job[w])
           \/ StoresAnalysis(job[w])
<1>0. job[w] \in Calls /\ TypeOK
  BY WorkerFrame DEF Inv
<1>1. CASE RetryFailed(w)
  BY <1>0, <1>1, AdvanceEffect, Members DEF RetryFailed
<1>2. CASE StartTranscribing(w)
  BY <1>0, <1>2, AdvanceEffect, Members DEF StartTranscribing
<1>3. CASE StartAnalyzing(w)
  BY <1>0, <1>3, AdvanceEffect, Members DEF StartAnalyzing
<1>4. CASE MarkTranscribed(w)
  BY <1>0, <1>4, AdvanceEffect, Members DEF MarkTranscribed
<1>5. CASE MarkCompleted(w)
  BY <1>0, <1>5, AdvanceEffect, Members DEF MarkCompleted
<1>6. CASE SaveTranscript(w)
  <2>1. /\ draft[w].of # NoTranscript /\ draft[w].of \in Nat
        /\ status[job[w]] \in {"transcribing", Absent} /\ ~HasTranscript(job[w])
    BY <1>0, <1>6, DraftTypes DEF SaveTranscript, Inv, CheckpointInv, Sees, Holds,
       LockedSteps, TranscribingSteps, TypeOK, ProcessingTypeOK
  <2> QED
    BY <1>6, <2>1 DEF SaveTranscript, UpsertTranscriptApplies,
       UpsertTranscriptErrs, StoresTranscript
<1>7. CASE SaveAnalysis(w)
  <2>1. /\ draft[w].version # 0 /\ draft[w] \in Results
        /\ status[job[w]] \in {"analyzing", Absent} /\ ~HasResult(job[w])
        /\ status[job[w]] = Absent \/ draft[w].of = transcript[job[w]]
    BY <1>0, <1>7 DEF SaveAnalysis, Inv, CheckpointInv, Sees, Holds, LockedSteps,
       AnalyzingSteps, TypeOK, ProcessingTypeOK
  <2> QED
    BY <1>7, <2>1 DEF SaveAnalysis, UpsertWithScoreApplies, UpsertWithScoreErrs,
       StoresAnalysis
<1>8. CASE Fail(w)
  <2>1. CASE TransitionApplies(job[w], local[w], "failed", FailureMessage(pc[w]))
    <3>1. /\ FailureMessage(pc[w]) \in Messages
          /\ FailureMessage(pc[w]) = "transcription provider failed"
                => pc[w] = "failTranscription"
          /\ FailureMessage(pc[w]) = "analysis provider failed"
                => pc[w] = "failAnalysis"
      BY <1>8 DEF Fail, FailureMessage, Messages
    <3>2. /\ pc[w] = "failTranscription" => ~HasTranscript(job[w])
          /\ pc[w] = "failAnalysis" =>
                status[job[w]] = "analyzing" /\ ~HasResult(job[w])
      BY <2>1 DEF Sees, AnalyzingSteps, TransitionApplies
    <3>3. TransitionApplies(job[w], status[job[w]], "failed", FailureMessage(pc[w]))
      BY <2>1 DEF TransitionApplies
    <3> QED
      BY <3>1, <3>2, <3>3, Members DEF Transitions
  <2> QED
    BY <1>8, <2>1 DEF Fail, TransitionErrs
<1>9. WorkerStep(w) =>
         \/ UNCHANGED rowVars
         \/ RetryFailed(w) \/ StartTranscribing(w) \/ StartAnalyzing(w)
         \/ MarkTranscribed(w) \/ MarkCompleted(w)
         \/ SaveTranscript(w) \/ SaveAnalysis(w) \/ Fail(w)
  BY DEF WorkerStep, ProcessStep, AcquireLock, LoadCall, AlreadyCompleted,
     GetTranscript, Transcribe, CheckAnalysis, ReadTranscript, LoadPlaybook,
     Analyze, Return, storeVars, rowVars
<1> QED
  BY <1>1, <1>2, <1>3, <1>4, <1>5, <1>6, <1>7, <1>8, <1>9

\* A step of a worker keeps the invariant: the lock keeps the others off its call.
LEMMA WorkerLockInv ==
    ASSUME OneWorkerProcess, LockInv, NEW w \in Workers, WorkerStep(w),
           UNCHANGED uploadVars
    PROVE  LockInv'
<1> USE DEF LockInv
<1>1. Inv'
  BY WorkerStepInv
<1>2. TypeOK /\ TypeOK' /\ JobOK
  BY <1>1 DEF Inv
<1>3. /\ job[w] \in Calls /\ job'[w] \in {job[w], NoCall} /\ NoCall \notin Calls
      /\ \A v \in Workers \ {w} :
            /\ pc'[v] = pc[v] /\ job'[v] = job[v]
            /\ local'[v] = local[v] /\ draft'[v] = draft[v]
      /\ \A c \in Calls \ {job[w]} : RowSame(c)
  BY <1>2, WorkerFrame, ProcessingAssumption DEF RowSame
<1>4. /\ Holds(w) \/ UNCHANGED storeVars
      /\ Holds(w)' => Holds(w) \/ AcquireLock(w)
  BY <1>2, WorkerLock
<1>5. \/ UNCHANGED rowVars
      \/ Transitions(job[w])
      \/ StoresTranscript(job[w])
      \/ StoresAnalysis(job[w])
  BY WorkerEffect
<1>6. Exclusion'
  <2>1. ASSUME NEW v \in Workers \ {w}, Holds(v), Holds(w)'
        PROVE  job[v] # job'[w]
    <3>1. job'[w] = job[w]
      BY <1>2, <2>1 DEF Holds, LockedSteps, WorkerStep, ProcessStep, AcquireLock,
         LoadCall, AlreadyCompleted, RetryFailed, StartTranscribing,
         StartAnalyzing, GetTranscript, Transcribe, SaveTranscript,
         MarkTranscribed, CheckAnalysis, ReadTranscript, LoadPlaybook, Analyze,
         SaveAnalysis, MarkCompleted, Fail, Return, Reset, Advance, Goto, TypeOK,
         ProcessingTypeOK
    <3>2. CASE Holds(w)
      BY <2>1, <3>1, <3>2 DEF Exclusion
    <3>3. CASE AcquireLock(w)
      BY <2>1, <3>1, <3>3 DEF AcquireLock, OneWorkerProcess
    <3> QED
      BY <1>4, <2>1, <3>2, <3>3
  <2>2. \A v \in Workers \ {w} : Holds(v)' <=> Holds(v)
    BY <1>3 DEF Holds
  <2> QED
    BY <1>3, <2>1, <2>2 DEF Exclusion
<1>7. NoTrace'
  BY <1>2, <1>5 DEF NoTrace, Transitions, TransitionApplies, StoresTranscript,
     StoresAnalysis, HasResult, rowVars, TypeOK, StoreTypeOK
<1>8. FailureIsTruthful'
  <2>1. ASSUME NEW c \in Calls, c # job[w]
        PROVE  /\ message'[c] = "transcription provider failed" => ~HasTranscript(c)'
               /\ message'[c] = "analysis provider failed"
                     => HasTranscript(c)' /\ ~HasResult(c)'
    BY <1>3, <2>1 DEF FailureIsTruthful, RowSame, HasTranscript, HasResult
  <2>2. CASE UNCHANGED rowVars
    BY <2>2 DEF rowVars, FailureIsTruthful, HasTranscript, HasResult
  <2>3. CASE Transitions(job[w])
    <3>1. PICK to \in Statuses, text \in Messages \cup {NoMessage} :
             /\ message' = [message EXCEPT ![job[w]] = text]
             /\ UNCHANGED <<transcript, result>>
             /\ text = "transcription provider failed" => ~HasTranscript(job[w])
             /\ text = "analysis provider failed" =>
                   status[job[w]] = "analyzing" /\ ~HasResult(job[w])
      BY <2>3 DEF Transitions, TransitionApplies
    <3>2. status[job[w]] = "analyzing" => HasTranscript(job[w])
      BY <1>3 DEF Inv, CheckpointInv, CheckpointsPersisted
    <3> QED
      BY <1>2, <1>3, <2>1, <3>1, <3>2 DEF FailureIsTruthful, HasTranscript,
         HasResult, TypeOK, StoreTypeOK
  <2>4. CASE StoresTranscript(job[w]) \/ StoresAnalysis(job[w])
    <3>1. message' = message /\ message[job[w]] = NoMessage
      BY <1>3, <2>4 DEF StoresTranscript, StoresAnalysis, Inv, MessageMeansFailed
    <3> QED
      BY <2>1, <3>1 DEF FailureIsTruthful, NoMessage
  <2> QED
    BY <1>5, <2>2, <2>3, <2>4
<1>9. ASSUME NEW v \in Workers
      PROVE  Sees(v)'
  <2>1. CASE v = w
    BY <2>1, WorkerSees
  <2>2. CASE v # w /\ Holds(v)
    <3>1. job[v] \in Calls
      BY <1>2, <2>2 DEF Holds, LockedSteps, JobOK, TypeOK, ProcessingTypeOK
    <3>2. RowSame(job[v])
      <4>1. CASE Holds(w)
        BY <1>3, <2>2, <3>1, <4>1 DEF Exclusion
      <4>2. CASE UNCHANGED storeVars
        BY <4>2 DEF storeVars, RowSame
      <4> QED
        BY <1>4, <4>1, <4>2
    <3>3. Sees(v)
      OBVIOUS
    <3> QED
      BY <1>3, <2>2, <3>2, <3>3 DEF Sees, Holds, RowSame, HasTranscript, HasResult
  <2>3. CASE v # w /\ ~Holds(v)
    BY <1>3, <2>3 DEF Sees, Holds, LockedSteps, TranscribingSteps, AnalyzingSteps
  <2> QED
    BY <2>1, <2>2, <2>3
<1> QED
  BY <1>1, <1>6, <1>7, <1>8, <1>9

\* A delivery, a lost lease, a death or a shutdown touches no row, and no worker
\* gets past the lock by one.
LEMMA EnvironmentLockInv ==
    ASSUME LockInv, UNCHANGED uploadVars,
           \/ \E w \in Workers, c \in Calls : Deliver(w, c)
           \/ \E c \in Calls : LeaseExpires(c)
           \/ \E p \in Procs : Crash(p) \/ Shutdown(p)
    PROVE  LockInv'
<1> USE DEF LockInv
<1>1. Inv'
  BY EnvironmentInv
<1>2. UNCHANGED storeVars
  BY DEF Deliver, LeaseExpires, Crash, Shutdown
<1>3. \A w \in Workers :
         \/ /\ pc'[w] = pc[w] /\ job'[w] = job[w]
            /\ local'[w] = local[w] /\ draft'[w] = draft[w]
         \/ pc'[w] \in {"idle", "lock"}
  BY DEF Deliver, LeaseExpires, Crash, Shutdown, Reset, Inv, TypeOK,
     ProcessingTypeOK
<1>4. Exclusion'
  BY <1>3 DEF Exclusion, Holds, LockedSteps
<1>5. NoTrace' /\ FailureIsTruthful'
  BY <1>2 DEF NoTrace, FailureIsTruthful, HasTranscript, HasResult, storeVars
<1>6. \A w \in Workers : Sees(w)'
  BY <1>2, <1>3 DEF Sees, Holds, LockedSteps, TranscribingSteps, AnalyzingSteps,
     HasTranscript, HasResult, storeVars
<1> QED
  BY <1>1, <1>4, <1>5, <1>6

\* The invariant of one process is inductive.
LEMMA StepLockInv ==
    ASSUME OneWorkerProcess, LockInv, [Next]_vars
    PROVE  LockInv'
<1>1. CASE UNCHANGED vars
  <2>1. Inv'
    BY <1>1, StepInv DEF LockInv
  <2> QED
    BY <1>1, <2>1 DEF LockInv, vars, storeVars, processingVars, Exclusion, Holds,
       NoTrace, FailureIsTruthful, Sees, HasTranscript, HasResult
<1> QED
  BY <1>1, UploadLockInv, WorkerLockInv, EnvironmentLockInv DEF Next, Terminated

\* It holds at the start.
LEMMA InitLockInv == Init => LockInv
BY InitInv DEF Init, StoreInit, ProcessingInit, LockInv, Exclusion, Holds,
   LockedSteps, NoTrace, FailureIsTruthful, NoMessage, Sees, TranscribingSteps,
   AnalyzingSteps

\* With one worker process, in every state of every behaviour.
THEOREM LockInvariance ==
    ASSUME OneWorkerProcess
    PROVE  Spec => []LockInv
BY InitLockInv, StepLockInv, PTL DEF Spec

\* What a worker under the call lock believes about the status is what the row
\* says, until it returns or the row is rolled back.
THEOREM LockedViews ==
    ASSUME OneWorkerProcess
    PROVE  Spec => []LockedViewIsFresh
<1>1. LockInv => LockedViewIsFresh
  BY DEF LockInv, Sees, LockedViewIsFresh
<1> QED
  BY <1>1, LockInvariance, PTL

\* The recorded reason of a failure is the true one.
THEOREM FailureReasons ==
    ASSUME OneWorkerProcess
    PROVE  Spec => []FailureIsTruthful
<1>1. LockInv => FailureIsTruthful
  BY DEF LockInv
<1> QED
  BY <1>1, LockInvariance, PTL

-------------------------------------------------------------------------------
(* With one worker process the pipeline implements the lifecycle.            *)

\* A step of a request is a step of the lifecycle: the audio comes or goes, the
\* row is created, queued or withdrawn.
LEMMA UploadLifecycle ==
    ASSUME Inv, NEW c \in Calls, UploadStep(c) \/ AbortUpload(c)
    PROVE  \/ UNCHANGED <<status, transcript, result, object>>
           \/ Lifecycle!ChangeAudio(c) \/ Lifecycle!Create(c)
           \/ Lifecycle!Withdraw(c)
           \/ \E to \in Lifecycle!Statuses : Lifecycle!Move(c, to)
<1> USE DEF storeVars, rowVars, Inv, TypeOK, StoreTypeOK, UploadInv
<1>1. CASE UNCHANGED storeVars
  BY <1>1
<1>2. CASE /\ upc[c] \in {"put", "cleanup", "rollbackObject"}
           /\ UNCHANGED rowVars
           /\ object' \in {object, object \cup {c}, object \ {c}}
  BY <1>2 DEF Lifecycle!ChangeAudio, Lifecycle!Absent, Absent
<1>3. CASE upc[c] = "create" /\ InsertRow(c) /\ UNCHANGED object
  BY <1>3 DEF InsertRow, Lifecycle!Create, Lifecycle!Absent, Absent
<1>4. CASE upc[c] = "queue" /\ UNCHANGED object
           /\ TransitionApplies(c, status[c], "queued", NoMessage)
  <2>1. "queued" \in Lifecycle!Statuses
    BY DEF Lifecycle!Statuses
  <2>2. Lifecycle!Move(c, "queued")
    BY <1>4 DEF TransitionApplies, Lifecycle!Move, CanTransition,
       AllowedTransitions, Lifecycle!CanTransition, Lifecycle!AllowedTransitions
  <2> QED
    BY <2>1, <2>2
<1>5. CASE DeleteRow(c) /\ UNCHANGED object
  BY <1>5 DEF DeleteRow, Lifecycle!Withdraw, Lifecycle!Absent, Absent,
     Lifecycle!NoTranscript, NoTranscript, Lifecycle!NoResult, NoResult
<1>6. UploadStep(c) \/ AbortUpload(c) =>
         \/ UNCHANGED storeVars
         \/ /\ upc[c] \in {"put", "cleanup", "rollbackObject"}
            /\ UNCHANGED rowVars
            /\ object' \in {object, object \cup {c}, object \ {c}}
         \/ upc[c] = "create" /\ InsertRow(c) /\ UNCHANGED object
         \/ /\ upc[c] = "queue" /\ UNCHANGED object
            /\ TransitionApplies(c, status[c], "queued", NoMessage)
         \/ DeleteRow(c) /\ UNCHANGED object
  BY DEF UploadStep, RejectUpload, PutObject, PutObjectErrs, CreateCall,
     CreateCallErrs, Cleanup, QueueInWorkspace, QueueInWorkspaceErrs, EnqueueCall,
     EnqueueCallErrs, RollbackRow, RollbackObject, AbortUpload, Succeeds,
     ReportsError, ReportsExpired
<1> QED
  BY <1>1, <1>2, <1>3, <1>4, <1>5, <1>6

\* A step of a worker under the lock is a step of the lifecycle.
LEMMA WorkerLifecycle ==
    ASSUME LockInv, NEW w \in Workers, WorkerStep(w)
    PROVE  \/ UNCHANGED <<status, transcript, result, object>>
           \/ \E to \in Lifecycle!Statuses : Lifecycle!Move(job[w], to)
           \/ Lifecycle!RecordTranscript(job[w])
           \/ Lifecycle!RecordResult(job[w])
<1> USE DEF LockInv, Inv, TypeOK, StoreTypeOK
<1>1. /\ job[w] \in Calls /\ object' = object /\ task[job[w]] # "none"
      /\ status[job[w]] # "uploaded"
  BY WorkerFrame DEF TaskInv
<1>2. CASE UNCHANGED rowVars
  BY <1>1, <1>2 DEF rowVars
<1>3. CASE Transitions(job[w])
  <2>1. PICK to \in Statuses, text \in Messages \cup {NoMessage} :
           /\ TransitionApplies(job[w], status[job[w]], to, text)
           /\ to = "transcribed" => HasTranscript(job[w])
           /\ to = "completed" => HasResult(job[w])
    BY <1>3 DEF Transitions
  <2>2. Lifecycle!Move(job[w], to)
    BY <1>1, <2>1 DEF TransitionApplies, Lifecycle!Move, HasTranscript, HasResult,
       CanTransition, AllowedTransitions, Lifecycle!CanTransition,
       Lifecycle!AllowedTransitions, NoTranscript, Lifecycle!NoTranscript
  <2>3. to \in Lifecycle!Statuses
    BY <2>1 DEF Statuses, Lifecycle!Statuses
  <2> QED
    BY <2>2, <2>3
<1>4. CASE StoresTranscript(job[w])
  BY <1>1, <1>4 DEF StoresTranscript, Lifecycle!RecordTranscript, HasTranscript,
     NoTranscript, Lifecycle!NoTranscript
<1>5. CASE StoresAnalysis(job[w])
  <2>1. result[job[w]] = NoResult
    BY <1>1, <1>5 DEF StoresAnalysis, NoTrace
  <2> QED
    BY <1>1, <1>5, <2>1 DEF StoresAnalysis, Lifecycle!RecordResult, NoResult,
       Lifecycle!NoResult, NoTranscript, Lifecycle!NoTranscript
<1> QED
  BY <1>2, <1>3, <1>4, <1>5, WorkerEffect

\* With one worker process the pipeline does nothing but what the lifecycle
\* promises to whoever reads a call, whatever the number of calls, of workers
\* and of retries and whatever fails: every status change follows the table,
\* every checkpoint is stored before it is claimed and only once, and every
\* analysis is of the stored transcript.
THEOREM LifecycleImplemented ==
    ASSUME OneWorkerProcess
    PROVE  Spec => ImplementsLifecycle
<1>1. Init => Lifecycle!Init
  BY DEF Init, StoreInit, Lifecycle!Init, Lifecycle!Absent, Absent,
     Lifecycle!NoTranscript, NoTranscript, Lifecycle!NoResult, NoResult
<1>2. ASSUME LockInv, [Next]_vars
      PROVE  [Lifecycle!Next]_(Lifecycle!vars)
  <2>1. CASE UNCHANGED storeVars
    BY <2>1 DEF storeVars, Lifecycle!vars
  <2>2. ASSUME NEW c \in Calls, UploadStep(c) \/ AbortUpload(c)
        PROVE  [Lifecycle!Next]_(Lifecycle!vars)
    <3>1. Inv
      BY <1>2 DEF LockInv
    <3> QED
      BY <2>2, <3>1, UploadLifecycle DEF Lifecycle!vars, Lifecycle!Next
  <2>3. ASSUME NEW w \in Workers, WorkerStep(w)
        PROVE  [Lifecycle!Next]_(Lifecycle!vars)
    <3>1. job[w] \in Calls
      BY <1>2, <2>3, WorkerFrame DEF LockInv, Inv
    <3> QED
      BY <1>2, <2>3, <3>1, WorkerLifecycle DEF Lifecycle!vars, Lifecycle!Next
  <2>4. \/ UNCHANGED storeVars
        \/ \E c \in Calls : UploadStep(c) \/ AbortUpload(c)
        \/ \E w \in Workers : WorkerStep(w)
    BY <1>2 DEF Next, Terminated, vars, Deliver, LeaseExpires, Crash, Shutdown
  <2> QED
    BY <2>1, <2>2, <2>3, <2>4
<1> QED
  BY <1>1, <1>2, LockInvariance, PTL DEF Spec, ImplementsLifecycle, Lifecycle!Spec

-------------------------------------------------------------------------------
(* Without database faults and lost leases: the criteria of the score.       *)

\* The environment neither fails a database statement nor takes a lease away.
SteadyStore == {"db", "lease"} \cap Faults = {}

\* Every delivery keeps its lease as long as it runs.
Leased == \A w \in Workers : pc[w] # "idle" => w \in lease

\* A worker that has the criteria has those of the playbook.
Informed ==
    \A w \in Workers :
        HasPlaybook /\ pc[w] \in {"analyze", "saveAnalysis"} =>
            draft[w].rubric = "playbook"

RubricInv == Inv /\ Leased /\ Informed /\ ScoredByPlaybook

\* The criteria of what a worker puts together are those it was given.
LEMMA DraftRubric ==
    \A version, of \in Nat, rubric \in Rubrics :
        Draft(version, of, rubric).rubric = rubric
BY DEF Draft

\* Deliveries begin with a lease, and without lost leases only their own end
\* takes it from them.
LEMMA StepLeased ==
    ASSUME SteadyStore, TypeOK, Leased, [Next]_vars
    PROVE  Leased'
<1> USE DEF TypeOK, ProcessingTypeOK, Leased, Goto
<1>1. CASE lease' = lease /\ \A w \in Workers : pc[w] = "idle" => pc'[w] = "idle"
  BY <1>1
<1>2. ASSUME NEW w \in Workers, Return(w)
      PROVE  Leased'
  BY <1>2 DEF Return, Reset
<1>3. ASSUME NEW w \in Workers, NEW c \in Calls, Deliver(w, c)
      PROVE  Leased'
  BY <1>3 DEF Deliver
<1>4. ASSUME NEW c \in Calls, LeaseExpires(c)
      PROVE  Leased'
  <2>1. LeaseHolders(c) = {}
    BY <1>4 DEF LeaseExpires, SteadyStore
  <2> QED
    BY <1>4, <2>1 DEF LeaseExpires
<1>5. ASSUME NEW p \in Procs, Crash(p) \/ Shutdown(p)
      PROVE  Leased'
  BY <1>5 DEF Crash, Shutdown, Reset
<1>6. ASSUME NEW w \in Workers, WorkerStep(w)
      PROVE  \/ Return(w)
             \/ lease' = lease /\ \A v \in Workers : pc[v] = "idle" => pc'[v] = "idle"
  BY <1>6 DEF WorkerStep, ProcessStep, AcquireLock, LoadCall, AlreadyCompleted,
     RetryFailed, StartTranscribing, StartAnalyzing, GetTranscript, Transcribe,
     SaveTranscript, MarkTranscribed, CheckAnalysis, ReadTranscript,
     LoadPlaybook, Analyze, SaveAnalysis, MarkCompleted, Fail, Advance
<1>7. CASE UNCHANGED processingVars
  BY <1>1, <1>7 DEF processingVars
<1> QED
  BY <1>1, <1>2, <1>3, <1>4, <1>5, <1>6, <1>7 DEF Next, Terminated, vars

\* A step of a worker stores no analysis but one by the playbook.
LEMMA WorkerRubric ==
    ASSUME SteadyStore, RubricInv, NEW w \in Workers, WorkerStep(w)
    PROVE  Informed' /\ ScoredByPlaybook'
<1> USE DEF RubricInv, Inv, TypeOK, StoreTypeOK, ProcessingTypeOK, Goto, Informed,
        ScoredByPlaybook, HasResult
<1>0. /\ job[w] \in Calls
      /\ \A v \in Workers \ {w} : pc'[v] = pc[v] /\ draft'[v] = draft[v]
  BY WorkerFrame
<1>1. CASE pc'[w] \notin {"analyze", "saveAnalysis"} /\ result' = result
  BY <1>0, <1>1
<1>2. CASE LoadPlaybook(w)
  <2>1. HasPlaybook => draft'[w].rubric = "playbook"
    BY <1>2, DraftRubric, DraftTypes
       DEF LoadPlaybook, Faulty, SteadyStore, Leased, Rubrics
  <2> QED
    BY <1>0, <1>2, <2>1 DEF LoadPlaybook, storeVars
<1>3. CASE Analyze(w)
  <2>1. draft'[w].rubric = draft[w].rubric
    BY <1>0, <1>3, DraftRubric, DraftTypes DEF Analyze
  <2> QED
    BY <1>0, <1>3, <2>1 DEF Analyze, storeVars
<1>4. CASE SaveAnalysis(w)
  BY <1>0, <1>4 DEF SaveAnalysis, UpsertWithScoreApplies, UpsertWithScoreErrs,
     rowVars
<1>5. WorkerStep(w) =>
         \/ pc'[w] \notin {"analyze", "saveAnalysis"} /\ result' = result
         \/ LoadPlaybook(w) \/ Analyze(w) \/ SaveAnalysis(w)
  BY <1>0 DEF WorkerStep, ProcessStep, AcquireLock, LoadCall, AlreadyCompleted,
     RetryFailed, StartTranscribing, StartAnalyzing, GetTranscript, Transcribe,
     SaveTranscript, MarkTranscribed, CheckAnalysis, ReadTranscript,
     MarkCompleted, Fail, Return, Reset, Advance, TransitionApplies,
     TransitionErrs, UpsertTranscriptApplies, UpsertTranscriptErrs, storeVars,
     rowVars
<1> QED
  BY <1>1, <1>2, <1>3, <1>4, <1>5

\* A step of a request stores no analysis at all.
LEMMA UploadRubric ==
    ASSUME RubricInv, NEW c \in Calls, UploadStep(c) \/ AbortUpload(c),
           UNCHANGED processingVars
    PROVE  Informed' /\ ScoredByPlaybook'
<1>1. TypeOK
  BY DEF RubricInv, Inv
<1>2. ResultsKept(c) /\ \A d \in Calls \ {c} : RowSame(d)
  BY <1>1, UploadResults, UploadFrame
<1> QED
  BY <1>2 DEF RubricInv, ResultsKept, RowSame, Informed, ScoredByPlaybook,
     HasResult, NoResult, processingVars

\* The invariant of the criteria is inductive.
LEMMA StepRubricInv ==
    ASSUME SteadyStore, RubricInv, [Next]_vars
    PROVE  RubricInv'
<1>1. Inv' /\ Leased'
  BY StepInv, StepLeased DEF RubricInv, Inv
<1>2. CASE UNCHANGED vars
  <2>1. Informed' /\ ScoredByPlaybook'
    BY <1>2 DEF RubricInv, vars, storeVars, processingVars, Informed,
       ScoredByPlaybook, HasResult
  <2> QED
    BY <1>1, <2>1 DEF RubricInv
<1>3. CASE \/ \E w \in Workers, c \in Calls : Deliver(w, c)
           \/ \E c \in Calls : LeaseExpires(c)
           \/ \E p \in Procs : Crash(p) \/ Shutdown(p)
  <2>1. /\ UNCHANGED storeVars
        /\ \A w \in Workers :
              \/ pc'[w] = pc[w] /\ draft'[w] = draft[w]
              \/ pc'[w] \in {"idle", "lock"}
    BY <1>3 DEF Deliver, LeaseExpires, Crash, Shutdown, Reset, RubricInv, Inv,
       TypeOK, ProcessingTypeOK
  <2>2. Informed' /\ ScoredByPlaybook'
    BY <2>1 DEF RubricInv, Informed, ScoredByPlaybook, HasResult, storeVars
  <2> QED
    BY <1>1, <2>2 DEF RubricInv
<1>4. ASSUME NEW w \in Workers, WorkerStep(w)
      PROVE  Informed' /\ ScoredByPlaybook'
  BY <1>4, WorkerRubric
<1>5. ASSUME NEW c \in Calls, UploadStep(c) \/ AbortUpload(c),
             UNCHANGED processingVars
      PROVE  Informed' /\ ScoredByPlaybook'
  BY <1>5, UploadRubric
<1> QED
  BY <1>1, <1>2, <1>3, <1>4, <1>5 DEF Next, Terminated, RubricInv

\* Without database faults and lost leases, a stored analysis of a workspace with
\* a default playbook is scored by that playbook, whatever else fails and however
\* many processes there are.
THEOREM PlaybookScores ==
    ASSUME SteadyStore
    PROVE  Spec => []ScoredByPlaybook
<1>1. Init => RubricInv
  BY InitInv DEF Init, StoreInit, ProcessingInit, RubricInv, Leased, Informed,
     ScoredByPlaybook, HasResult, NoResult
<1>2. RubricInv /\ [Next]_vars => RubricInv'
  BY StepRubricInv
<1>3. RubricInv => ScoredByPlaybook
  BY DEF RubricInv
<1> QED
  BY <1>1, <1>2, <1>3, PTL DEF Spec
===============================================================================
