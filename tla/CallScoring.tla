----------------------------- MODULE CallScoring ------------------------------
(***************************************************************************)
(* The playbooks of a workspace and a call of it that a worker scores by   *)
(* one of them: from the criteria that Processor.process loads to the      *)
(* scores that the call shows.                                             *)
(***************************************************************************)
EXTENDS Playbooks

CONSTANT MaxEdits    \* bound: requests served before the call is scored

VARIABLES
    stage,       \* how far the call is
    criteria,    \* the criteria it is scored by
    answer,      \* the provider's scores
    total,       \* what CalculateWithCriteria returned
    row,         \* call_scores
    view         \* criterion_scores as the API shows them

call == <<stage, criteria, answer, total, row, view>>
all == <<vars, call>>

Stages == {"load", "analyze", "score", "save", "saved", "shown", "failed"}

CallTypeOK ==
    /\ stage \in Stages
    /\ criteria \in Rubrics \cup {<< >>}
    /\ DOMAIN answer \subseteq Keys /\ \A k \in DOMAIN answer : answer[k] \in Int
    /\ total \in Int
    /\ DOMAIN row \in {{}, BuiltIn \cup {"total"}}
    /\ \A c \in DOMAIN row : row[c] \in 0..TotalMax
    /\ DOMAIN view \in {{}, BuiltIn}

CallInit ==
    /\ stage = "load"
    /\ criteria = << >>
    /\ answer = NoScores /\ total = 0 /\ row = NoScores /\ view = NoScores

-------------------------------------------------------------------------------
\* GetByID of the playbook that the upload named, or GetDefault, which falls back
\* to the earliest of the active ones (which one that is is not kept here).
\* Without one, or when the store fails, the built-in criteria are used.
LoadPlaybook ==
    /\ stage = "load"
    /\ InFlight = {} /\ served <= MaxEdits
    /\ \/ \E b \in ActiveBooks : criteria' = rows[b].criteria
       \/ UNCHANGED criteria
    /\ stage' = "analyze"
    /\ UNCHANGED <<answer, total, row, view>>

\* The provider answers and the answer is checked.
Analyze ==
    /\ stage = "analyze"
    /\ \E ks \in SUBSET Keys, wellFormed \in BOOLEAN :
          \E scores \in [ks -> Scores] :
             \/ /\ ParseAccepts(scores, wellFormed, Rubric(criteria))
                /\ stage' = "score" /\ answer' = scores
             \/ /\ ~ParseAccepts(scores, wellFormed, Rubric(criteria))
                /\ stage' = "failed" /\ UNCHANGED answer
    /\ UNCHANGED <<criteria, total, row, view>>

CalculateScore ==
    /\ stage = "score"
    /\ total' = TotalOf(answer, Rubric(criteria))
    /\ stage' = "save"
    /\ UNCHANGED <<criteria, answer, row, view>>

Save ==
    /\ stage = "save"
    /\ LET columns == Columns(answer, total)
       IN \/ Checked(columns) /\ row' = columns /\ stage' = "saved"
          \/ ~Checked(columns) /\ stage' = "failed" /\ UNCHANGED row
    /\ UNCHANGED <<criteria, answer, total, view>>

\* The queue delivers the task again.
Retry ==
    /\ stage = "failed"
    /\ stage' = "load" /\ criteria' = << >> /\ answer' = NoScores /\ total' = 0
    /\ UNCHANGED <<row, view>>

Show ==
    /\ stage = "saved"
    /\ view' = [k \in BuiltIn |-> row[k]]
    /\ stage' = "shown"
    /\ UNCHANGED <<criteria, answer, total, row>>

\* Bound: the playbooks are edited before the call is scored.
ScoringInit == Init /\ CallInit
ScoringNext ==
    \/ stage = "load" /\ Next /\ UNCHANGED call
    \/ LoadPlaybook /\ UNCHANGED vars
    \/ Analyze /\ UNCHANGED vars
    \/ CalculateScore /\ UNCHANGED vars
    \/ Save /\ UNCHANGED vars
    \/ Retry /\ UNCHANGED vars
    \/ Show /\ UNCHANGED vars
    \/ stage = "shown" /\ UNCHANGED all

Spec == ScoringInit /\ [][ScoringNext]_all /\ \A r \in Requests : WF_vars(Step(r))

-------------------------------------------------------------------------------
\* No two criteria of an accepted playbook are the same once trimmed, and none is
\* blank: an answer that gives the trimmed keys could not tell them apart.
KeysToldApart ==
    /\ \A i, j \in DOMAIN criteria : Trim[criteria[i].key] = Trim[criteria[j].key] => i = j
    /\ Blank \notin {Trim[k] : k \in KeysOf(criteria)}

\* What is scored is a whole answer: one score in range for each criterion of the
\* playbook and none besides,
AnswerIsWhole ==
    stage \in {"save", "saved", "shown"} =>
        LET list == Rubric(criteria)
        IN /\ answer \in [KeysOf(list) -> Nat]
           /\ \A i \in DOMAIN list : answer[list[i].key] <= list[i].max

\* and the total is their sum.
TotalIsSum ==
    stage \in {"save", "saved", "shown"} =>
        total = MapThenSumSet(LAMBDA k : answer[k], KeysOf(Rubric(criteria)))

\* What a call shows for a built-in criterion is what the playbook's answer gave
\* it, zero if it gave none,
ShownIsGiven ==
    stage = "shown" =>
        \A k \in BuiltIn : view[k] = IF k \in DOMAIN answer THEN answer[k] ELSE 0

\* and the criteria that the playbook adds count in the stored total.
StoredIsSum ==
    stage = "shown" => row["total"] = MapThenSumSet(LAMBDA k : answer[k], DOMAIN answer)

\* A score by a playbook that fits call_scores can be saved: the maxima of the
\* calculator and the CHECKs of the columns, kept in two files, agree.
FittingIsSaved ==
    stage = "save" /\ Fits(Rubric(criteria)) => Checked(Columns(answer, total))

\* Whatever playbooks clients make and whatever providers answer, a call shows
\* the whole score by the playbook it was given, or none.
CallsShowTheirScore ==
    /\ CallTypeOK /\ KeysToldApart
    /\ AnswerIsWhole /\ TotalIsSum /\ ShownIsGiven /\ StoredIsSum /\ FittingIsSaved

===============================================================================
