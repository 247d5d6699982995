----------------------------- MODULE CallPipeline -----------------------------
(***************************************************************************)
(* The upload handler and the workers over the stores they share: every    *)
(* call from the request that uploads it to the settling of its task.      *)
(***************************************************************************)
EXTENDS CallUpload, CallProcessing

vars == <<storeVars, queueVars, uploadVars, processingVars>>

TypeOK == StoreTypeOK /\ QueueTypeOK /\ UploadTypeOK /\ ProcessingTypeOK

Init == StoreInit /\ QueueInit /\ UploadInit /\ ProcessingInit

\* Every request has its answer, or none to expect, and no task can move.
Quiescent ==
    /\ \A c \in Calls : upc[c] \notin UploadSteps
    /\ \A c \in Calls : task[c] \in {"none", "done", "archived"}
    /\ \A w \in Workers : pc[w] = "idle"

Terminated == Quiescent /\ UNCHANGED vars

Next ==
    \/ \E c \in Calls :
          /\ UploadStep(c) \/ AbortUpload(c)
          /\ UNCHANGED processingVars
    \/ /\ \/ \E w \in Workers : WorkerStep(w) \/ \E c \in Calls : Deliver(w, c)
          \/ \E c \in Calls : LeaseExpires(c)
          \/ \E p \in Procs : Crash(p) \/ Shutdown(p)
       /\ UNCHANGED uploadVars
    \/ Terminated

Spec == Init /\ [][Next]_vars

\* What keeps running: a request is served, a worker finishes its delivery (each
\* remote call of it returns, the provider calls by their timeout), a pending
\* task is delivered, and the task of a dead worker is recovered.
Fairness ==
    /\ \A c \in Calls :
          /\ WF_vars(UploadStep(c) /\ UNCHANGED processingVars)
          /\ WF_vars((\E w \in Workers : Deliver(w, c)) /\ UNCHANGED uploadVars)
          /\ WF_vars(LeaseHolders(c) = {} /\ LeaseExpires(c) /\ UNCHANGED uploadVars)
    /\ \A w \in Workers : WF_vars(WorkerStep(w) /\ UNCHANGED uploadVars)

FairSpec == Spec /\ Fairness

-------------------------------------------------------------------------------
(* Properties that hold however many worker processes there are. *)

\* A call that claims a stage has that stage's checkpoint: the transcript from
\* "transcribed" on, the analysis and score once "completed".  FullDetail and
\* the resuming deliveries of Processor.process rely on it.
CheckpointsPersisted ==
    \A c \in Calls :
        /\ status[c] \in {"transcribed", "analyzing", "completed"}
              => HasTranscript(c)
        /\ status[c] = "completed" => HasResult(c)

\* Once the client has its 201, the row, the audio and the task are there: no
\* clean-up of the upload handler can reach them any more.
AcceptedIsDurable ==
    \A c \in Calls :
        upc[c] = "accepted" =>
            /\ status[c] \notin {Absent, "uploaded"}
            /\ c \in object
            /\ task[c] # "none"

\* A row that left "uploaded" has its audio: RollbackCreate deletes the object
\* only after the row, and Create only when the row never got past "uploaded".
QueuedHasAudio ==
    \A c \in Calls : status[c] \notin {Absent, "uploaded"} => c \in object

\* A completed call stays completed against every stale or duplicate delivery;
\* only the roll-back of a request that was not accepted takes it away.
CompletedIsFinal ==
    [][\A c \in Calls :
          status[c] = "completed" =>
             \/ status'[c] = "completed"
             \/ status'[c] = Absent /\ upc[c] = "rollbackRow"]_vars

\* The queue forgets a task only when the call is completed, or was rolled back
\* under the worker: no delivery is acknowledged on the strength of a stale copy
\* of the status.
DoneMeansCompleted ==
    \A c \in Calls :
        task[c] = "done" =>
            \/ status[c] = "completed"
            \/ status[c] = Absent /\ upc[c] # "accepted"

\* A row shows an error message exactly while it is failed: a retry clears the
\* message in the statement that leaves "failed".
MessageMeansFailed ==
    \A c \in Calls : message[c] # NoMessage <=> status[c] = "failed"

\* Every accepted call is dealt with: its task ends acknowledged or archived,
\* whatever fails and however often.
AcceptedIsSettled == \A c \in Calls : upc[c] = "accepted" ~> Settled(c)

-------------------------------------------------------------------------------
(* Properties of a deployment with one worker process, where the call lock   *)
(* serializes all deliveries of a call.                                      *)

\* What a worker that holds the call lock believes about the status is what the
\* row says, until it returns or the row is rolled back: the conditional updates
\* then fail only for faults.
LockedViewIsFresh ==
    \A w \in Workers :
        Holds(w) /\ pc[w] \notin {"load", "err"} =>
            status[job[w]] \in {local[w], Absent}

\* The recorded reason is the true one: a transcription failure has no
\* transcript, an analysis failure has one and no analysis.
FailureIsTruthful ==
    \A c \in Calls :
        /\ message[c] = "transcription provider failed" => ~HasTranscript(c)
        /\ message[c] = "analysis provider failed"
              => HasTranscript(c) /\ ~HasResult(c)

\* The pipeline implements the lifecycle of the design document.
Lifecycle == INSTANCE CallLifecycle
ImplementsLifecycle == Lifecycle!Spec

-------------------------------------------------------------------------------
(* Properties of deployments without some of the faults. *)

\* An accepted call ends, for good, with a result or with a reason.
AcceptedIsResolved ==
    \A c \in Calls :
        upc[c] = "accepted" ~> [](status[c] \in {"completed", "failed"})

\* "Backend calculates score based on workspace Playbook criteria": a stored
\* analysis of a workspace with a default playbook is scored by that playbook.
ScoredByPlaybook ==
    \A c \in Calls : HasPlaybook /\ HasResult(c) => result[c].rubric = "playbook"

===============================================================================
