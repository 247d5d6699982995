------------------------------ MODULE CallStore -------------------------------
(***************************************************************************)
(* The durable state that the API and the workers share: the tables calls, *)
(* call_transcripts and call_analyses/call_scores in PostgreSQL, the audio *)
(* object in MinIO and the process_call task in Redis.  There is one       *)
(* operator per store operation, split by what its caller is told.         *)
(*                                                                         *)
(* Contents are abstracted to identities.  A transcript is a number that   *)
(* no other transcript of the call has, 0 when there is none.  An analysis *)
(* and its score are one value: UpsertWithScore writes both tables in one  *)
(* transaction and every reader reads them together.  Its version tells it *)
(* from every other analysis, "of" is the transcript it was made from and  *)
(* "rubric" the criteria it was scored with.                               *)
(***************************************************************************)
EXTENDS CallStatus, Naturals

CONSTANTS
    Calls,      \* call ids, each the subject of one upload request
    Faults      \* the classes of faults the environment may inject

FaultClasses ==
    {"db",        \* a PostgreSQL statement errs, or its reply is lost
     "storage",   \* the same for MinIO
     "redis",     \* the same for the enqueue
     "request",   \* the context of the upload request ends (timeout, client)
     "provider",  \* an AI provider errs, times out or answers unusably
     "lease",     \* a running delivery loses its Asynq lease or deadline
     "crash"}     \* a process dies

ASSUME FaultsAssumption == Faults \subseteq FaultClasses

VARIABLES
    status,      \* calls.status, or Absent
    message,     \* calls.error_message
    transcript,  \* call_transcripts
    result,      \* call_analyses and call_scores
    object       \* the calls whose audio object is stored

rowVars == <<status, message, transcript, result>>
storeVars == <<status, message, transcript, result, object>>

NoMessage == "none"

\* The sanitized messages of the processor, by the part that failed.
Messages == {"call processing failed", "transcription provider failed",
             "analysis provider failed"}

NoTranscript == 0

Rubrics == {"builtin", "playbook"}

Results == [version : Nat, of : Nat, rubric : Rubrics]

\* No analysis row; also what a worker holds before it has made anything.
NoResult == [version |-> 0, of |-> NoTranscript, rubric |-> "builtin"]

StoreTypeOK ==
    /\ status \in [Calls -> Statuses \cup {Absent}]
    /\ message \in [Calls -> Messages \cup {NoMessage}]
    /\ transcript \in [Calls -> Nat]
    /\ result \in [Calls -> Results]
    /\ object \subseteq Calls

StoreInit ==
    /\ status = [c \in Calls |-> Absent]
    /\ message = [c \in Calls |-> NoMessage]
    /\ transcript = [c \in Calls |-> NoTranscript]
    /\ result = [c \in Calls |-> NoResult]
    /\ object = {}

HasTranscript(c) == transcript[c] # NoTranscript
HasResult(c) == result[c].version # 0

-------------------------------------------------------------------------------
(* The table calls. *)

\* INSERT of a new row.
InsertRow(c) ==
    /\ status' = [status EXCEPT ![c] = "uploaded"]
    /\ message' = [message EXCEPT ![c] = NoMessage]
    /\ UNCHANGED <<transcript, result>>

\* DELETE of a row, which cascades to the transcript and the result.
DeleteRow(c) ==
    /\ status' = [status EXCEPT ![c] = Absent]
    /\ message' = [message EXCEPT ![c] = NoMessage]
    /\ transcript' = [transcript EXCEPT ![c] = NoTranscript]
    /\ result' = [result EXCEPT ![c] = NoResult]

\* A status change that ignores the persisted prior state.
TransitionApplies_Blind(c, from, to, text) ==
    /\ CanTransition(from, to)
    /\ status[c] # Absent
    /\ status' = [status EXCEPT ![c] = to]
    /\ message' = [message EXCEPT ![c] = text]
    /\ UNCHANGED <<transcript, result>>

\* A status change that leaves the error message of the row alone.
TransitionApplies_KeepMessage(c, from, to, text) ==
    /\ CanTransition(from, to)
    /\ status[c] = from
    /\ status' = [status EXCEPT ![c] = to]
    /\ message' = [message EXCEPT ![c] = IF text = NoMessage THEN @ ELSE text]
    /\ UNCHANGED <<transcript, result>>

\* The conditional UPDATE of TransitionInWorkspace takes effect: the change is
\* in the table and the row still has the prior status the caller expects.
TransitionApplies(c, from, to, text) ==
    /\ CanTransition(from, to)
    /\ status[c] = from
    /\ status' = [status EXCEPT ![c] = to]
    /\ message' = [message EXCEPT ![c] = text]
    /\ UNCHANGED <<transcript, result>>

\* TransitionInWorkspace reports an error: the change is not allowed, the row
\* is gone or has another status (ErrCallStatusChanged), or the statement
\* fails, which it does only if "faulty"; it may have been committed all the
\* same.
TransitionErrs(c, from, to, text, faulty) ==
    \/ /\ ~CanTransition(from, to) \/ status[c] # from \/ faulty
       /\ UNCHANGED rowVars
    \/ /\ faulty
       /\ TransitionApplies(c, from, to, text)

-------------------------------------------------------------------------------
(* The result tables.  Their foreign keys refuse a call that is gone. *)

\* transcription.Upsert inserts or overwrites.
UpsertTranscriptApplies(c, t) ==
    /\ status[c] # Absent
    /\ transcript' = [transcript EXCEPT ![c] = t]
    /\ UNCHANGED <<status, message, result>>

UpsertTranscriptErrs(c, t, faulty) ==
    \/ /\ status[c] = Absent \/ faulty
       /\ UNCHANGED rowVars
    \/ /\ faulty
       /\ UpsertTranscriptApplies(c, t)

\* analysis.UpsertWithScore inserts or overwrites both rows, or neither.  It
\* also errs when the answer yields a score that a CHECK of call_scores refuses.
UpsertWithScoreApplies(c, r) ==
    /\ status[c] # Absent
    /\ result' = [result EXCEPT ![c] = r]
    /\ UNCHANGED <<status, message, transcript>>

UpsertWithScoreErrs(c, r, faulty) ==
    \/ /\ status[c] = Absent \/ faulty \/ "provider" \in Faults
       /\ UNCHANGED rowVars
    \/ /\ faulty
       /\ UpsertWithScoreApplies(c, r)

===============================================================================
