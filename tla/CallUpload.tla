------------------------------ MODULE CallUpload ------------------------------
(***************************************************************************)
(* The handler of POST .../calls: check the request, store the audio,      *)
(* insert the row, move it to "queued", enqueue the task, answer; and the  *)
(* clean-up of each failure.  There is one request per call id, because    *)
(* the handler makes a fresh id.                                           *)
(*                                                                         *)
(* Every remote call may succeed, fail without effect, or take effect and  *)
(* have its reply lost.  All of them, the clean-up included, run under the *)
(* context of the request, so that once it has ended nothing succeeds.     *)
(***************************************************************************)
EXTENDS CallQueue

VARIABLES
    upc,       \* where the request for each call id is
    expired    \* the requests whose context has ended

uploadVars == <<upc, expired>>

UploadSteps ==
    {"put", "create", "cleanup", "queue", "enqueue", "rollbackRow",
     "rollbackObject"}

\* "accepted" is the answer 201; "rejected" any error answer; "aborted" is a
\* request cut short by the death of the API process, with no answer.
UploadStates == UploadSteps \cup {"accepted", "rejected", "aborted"}

UploadTypeOK ==
    /\ upc \in [Calls -> UploadStates]
    /\ expired \subseteq Calls

UploadInit ==
    /\ upc = [c \in Calls |-> "put"]
    /\ expired = {}

\* The remote call of the step succeeds and its reply arrives.
Succeeds(c, from, to) ==
    /\ upc[c] = from
    /\ c \notin expired
    /\ upc' = [upc EXCEPT ![c] = to]
    /\ UNCHANGED expired

\* The step reports an error: its own, or that the context ended while it ran.
ReportsError(c, from, class, to) ==
    /\ upc[c] = from
    /\ c \notin expired
    /\ upc' = [upc EXCEPT ![c] = to]
    /\ \/ class \in Faults /\ UNCHANGED expired
       \/ "request" \in Faults /\ expired' = expired \cup {c}

\* The error of a step that begins after the context has ended: no effect.
ReportsExpired(c, from, to) ==
    /\ upc[c] = from
    /\ c \in expired
    /\ upc' = [upc EXCEPT ![c] = to]
    /\ UNCHANGED expired

-------------------------------------------------------------------------------
(* Service.Create. *)

\* The actor, the form or the upload fails a check before anything is stored.
RejectUpload(c) ==
    /\ Succeeds(c, "put", "rejected")
    /\ UNCHANGED <<storeVars, queueVars>>

PutObject(c) ==
    /\ Succeeds(c, "put", "create")
    /\ object' = object \cup {c}
    /\ UNCHANGED <<rowVars, queueVars>>

\* The audio may have been stored; the handler does not clean it up.
PutObjectErrs(c) ==
    /\ ReportsError(c, "put", "storage", "rejected")
    /\ UNCHANGED object \/ object' = object \cup {c}
    /\ UNCHANGED <<rowVars, queueVars>>

CreateCall(c) ==
    /\ Succeeds(c, "create", "queue")
    /\ InsertRow(c)
    /\ UNCHANGED <<object, queueVars>>

CreateCallErrs(c) ==
    /\ ReportsError(c, "create", "db", "cleanup")
    /\ InsertRow(c) \/ UNCHANGED rowVars
    /\ UNCHANGED <<object, queueVars>>

\* Create removes the audio it stored, and returns an error either way.
Cleanup(c) ==
    /\ \/ /\ Succeeds(c, "cleanup", "rejected")
          /\ object' = object \ {c}
       \/ /\ ReportsError(c, "cleanup", "storage", "rejected")
          /\ UNCHANGED object \/ object' = object \ {c}
       \/ /\ ReportsExpired(c, "cleanup", "rejected")
          /\ UNCHANGED object
    /\ UNCHANGED <<rowVars, queueVars>>

-------------------------------------------------------------------------------
(* QueueInWorkspace: reads the row and moves it to "queued".  Nothing else   *)
(* writes the row before its task exists, so the two are one step.           *)

QueueInWorkspace(c) ==
    /\ Succeeds(c, "queue", "enqueue")
    /\ TransitionApplies(c, status[c], "queued", NoMessage)
    /\ UNCHANGED <<object, queueVars>>

QueueInWorkspaceErrs(c) ==
    /\ ReportsError(c, "queue", "db", "rollbackRow")
    /\ \/ TransitionApplies(c, status[c], "queued", NoMessage)
       \/ UNCHANGED rowVars
    /\ UNCHANGED <<object, queueVars>>

-------------------------------------------------------------------------------
(* EnqueueWorkspaceCall and the answer. *)

\* The answer is sent although the enqueue failed.
EnqueueErrs_Ignored(c) ==
    /\ ReportsError(c, "enqueue", "redis", "accepted")
    /\ EnqueueErrs(c)
    /\ UNCHANGED storeVars

EnqueueCall(c) ==
    /\ Succeeds(c, "enqueue", "accepted")
    /\ EnqueueApplies(c)
    /\ UNCHANGED storeVars

EnqueueCallErrs(c) ==
    /\ ReportsError(c, "enqueue", "redis", "rollbackRow")
    /\ EnqueueErrs(c)
    /\ UNCHANGED storeVars

-------------------------------------------------------------------------------
(* RollbackCreate.  Its error is ignored: the request is rejected anyway.    *)

\* RollbackCreate with its two deletions in the opposite order of the code's
\* guard: the audio goes even if the row was not deleted.
RollbackRow_Regardless(c) ==
    /\ \/ /\ Succeeds(c, "rollbackRow", "rollbackObject")
          /\ DeleteRow(c)
       \/ /\ ReportsError(c, "rollbackRow", "db", "rollbackObject")
          /\ DeleteRow(c) \/ UNCHANGED rowVars
       \/ /\ ReportsExpired(c, "rollbackRow", "rejected")
          /\ UNCHANGED rowVars
    /\ UNCHANGED <<object, queueVars>>

RollbackRow(c) ==
    /\ \/ /\ Succeeds(c, "rollbackRow", "rollbackObject")
          /\ DeleteRow(c)
       \/ /\ ReportsError(c, "rollbackRow", "db", "rejected")
          /\ DeleteRow(c) \/ UNCHANGED rowVars
       \/ /\ ReportsExpired(c, "rollbackRow", "rejected")
          /\ UNCHANGED rowVars
    /\ UNCHANGED <<object, queueVars>>

RollbackObject(c) ==
    /\ \/ /\ Succeeds(c, "rollbackObject", "rejected")
          /\ object' = object \ {c}
       \/ /\ ReportsError(c, "rollbackObject", "storage", "rejected")
          /\ UNCHANGED object \/ object' = object \ {c}
    /\ UNCHANGED <<rowVars, queueVars>>

-------------------------------------------------------------------------------
\* The API process dies while it serves the request.
AbortUpload(c) ==
    /\ "crash" \in Faults
    /\ upc[c] \in UploadSteps
    /\ upc' = [upc EXCEPT ![c] = "aborted"]
    /\ UNCHANGED <<expired, storeVars, queueVars>>

UploadStep(c) ==
    \/ RejectUpload(c) \/ PutObject(c) \/ PutObjectErrs(c)
    \/ CreateCall(c) \/ CreateCallErrs(c) \/ Cleanup(c)
    \/ QueueInWorkspace(c) \/ QueueInWorkspaceErrs(c)
    \/ EnqueueCall(c) \/ EnqueueCallErrs(c)
    \/ RollbackRow(c) \/ RollbackObject(c)

===============================================================================
