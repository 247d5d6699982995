------------------------------ MODULE CallQueue -------------------------------
(***************************************************************************)
(* The process_call task of a call as Asynq keeps it in Redis.  Asynq is a *)
(* library: its behaviour is modelled from the options the repository      *)
(* gives it (one queue, MaxRetry, Unique) and the contract its handler     *)
(* relies on.  A delivery holds a lease; a delivery that reports an error, *)
(* or whose lease ends first, is retried until MaxRetry retries are spent, *)
(* and archived after that.                                                *)
(***************************************************************************)
EXTENDS CallStore

CONSTANT MaxRetry       \* ProcessCallMaxRetry

ASSUME MaxRetryAssumption == MaxRetry \in Nat

VARIABLES
    task,      \* the state of the task of each call
    retried    \* the retries it has used

queueVars == <<task, retried>>

\* "pending" stands for the scheduled, retry and pending sets: the delay before
\* a retry only restricts when the delivery comes.
TaskStates == {"none", "pending", "active", "done", "archived"}

QueueTypeOK ==
    /\ task \in [Calls -> TaskStates]
    /\ retried \in [Calls -> 0..MaxRetry]

QueueInit ==
    /\ task = [c \in Calls |-> "none"]
    /\ retried = [c \in Calls |-> 0]

Settled(c) == task[c] \in {"done", "archived"}

SetTask(c, state) ==
    /\ task' = [task EXCEPT ![c] = state]
    /\ UNCHANGED retried

\* The task is accepted.  Its uniqueness key is derived from the call id.
EnqueueApplies(c) == task[c] = "none" /\ SetTask(c, "pending")

EnqueueErrs(c) == UNCHANGED queueVars \/ EnqueueApplies(c)

\* A server takes the task and a lease on it.
Take(c) == task[c] = "pending" /\ SetTask(c, "active")

\* The handler returned nil under its lease.
MarkDone(c) == SetTask(c, "done")

\* The retries are not counted against the limit.
RetryOrArchive_NoLimit(c) ==
    /\ task' = [task EXCEPT ![c] = "pending"]
    /\ retried' = [retried EXCEPT ![c] = @ + 1]

\* The handler returned an error under its lease, or the lease ended.
RetryOrArchive(c) ==
    \/ retried[c] >= MaxRetry /\ SetTask(c, "archived")
    \/ /\ retried[c] < MaxRetry
       /\ task' = [task EXCEPT ![c] = "pending"]
       /\ retried' = [retried EXCEPT ![c] = @ + 1]

===============================================================================
