------------------------------ MODULE CallStatus ------------------------------
(***************************************************************************)
(* The lifecycle states of a call and the transition table that every      *)
(* status write is validated against.                                      *)
(***************************************************************************)

\* The values of the type Status.
Statuses ==
    {"uploaded", "queued", "transcribing", "transcribed", "analyzing",
     "completed", "failed"}

\* A call id whose row is not (or no longer) in the table calls.
Absent == "absent"

\* The map allowedTransitions, as the set of its (from, to) entries.  A status
\* without an entry ("completed") has no successor.
AllowedTransitions ==
    {<<"uploaded", "queued">>,        <<"uploaded", "transcribing">>,
     <<"queued", "transcribing">>,    <<"queued", "failed">>,
     <<"transcribing", "transcribed">>, <<"transcribing", "failed">>,
     <<"transcribed", "analyzing">>,  <<"transcribed", "failed">>,
     <<"analyzing", "completed">>,    <<"analyzing", "failed">>,
     <<"failed", "queued">>}

CanTransition(from, to) == <<from, to>> \in AllowedTransitions

===============================================================================
