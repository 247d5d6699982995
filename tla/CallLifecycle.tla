---------------------------- MODULE CallLifecycle -----------------------------
(***************************************************************************)
(* What the pipeline promises to whoever reads a call, in the terms of the *)
(* design document: a call only moves along the transition table; a stage  *)
(* is left forward only when its checkpoint is stored; the transcript and  *)
(* the analysis are each written once, in their stage, the analysis from   *)
(* the stored transcript; and the audio outlives the queue.                *)
(***************************************************************************)
EXTENDS CallStatus, Naturals

CONSTANT Calls

VARIABLES status, transcript, result, object

vars == <<status, transcript, result, object>>

NoTranscript == 0
NoResult == [version |-> 0, of |-> NoTranscript, rubric |-> "builtin"]

Init ==
    /\ status = [c \in Calls |-> Absent]
    /\ transcript = [c \in Calls |-> NoTranscript]
    /\ result = [c \in Calls |-> NoResult]
    /\ object = {}

\* The audio comes and goes only while no worker may be asked to read it.
ChangeAudio(c) ==
    /\ status[c] \in {Absent, "uploaded"}
    /\ object' \in {object \cup {c}, object \ {c}}
    /\ UNCHANGED <<status, transcript, result>>

Create(c) ==
    /\ status[c] = Absent
    /\ c \in object
    /\ status' = [status EXCEPT ![c] = "uploaded"]
    /\ UNCHANGED <<transcript, result, object>>

\* A rejected upload is taken back with everything made from it.
Withdraw(c) ==
    /\ status' = [status EXCEPT ![c] = Absent]
    /\ transcript' = [transcript EXCEPT ![c] = NoTranscript]
    /\ result' = [result EXCEPT ![c] = NoResult]
    /\ UNCHANGED object

Move(c, to) ==
    /\ CanTransition(status[c], to)
    /\ status[c] = "uploaded" => c \in object
    /\ to = "transcribed" => transcript[c] # NoTranscript
    /\ to = "completed" => result[c].version # 0
    /\ status' = [status EXCEPT ![c] = to]
    /\ UNCHANGED <<transcript, result, object>>

RecordTranscript(c) ==
    /\ status[c] = "transcribing"
    /\ transcript[c] = NoTranscript
    /\ transcript'[c] # NoTranscript
    /\ transcript' = [transcript EXCEPT ![c] = transcript'[c]]
    /\ UNCHANGED <<status, result, object>>

RecordResult(c) ==
    /\ status[c] = "analyzing"
    /\ result[c] = NoResult
    /\ result'[c].version # 0
    /\ result'[c].of = transcript[c]
    /\ result' = [result EXCEPT ![c] = result'[c]]
    /\ UNCHANGED <<status, transcript, object>>

Next ==
    \E c \in Calls :
        \/ ChangeAudio(c) \/ Create(c) \/ Withdraw(c)
        \/ \E to \in Statuses : Move(c, to)
        \/ RecordTranscript(c) \/ RecordResult(c)

Spec == Init /\ [][Next]_vars

===============================================================================
