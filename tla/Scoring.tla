------------------------------- MODULE Scoring --------------------------------
(***************************************************************************)
(* What scores a call: Playbook.Validate, the check of the provider's      *)
(* answer, CalculateWithCriteria, and the columns of call_scores with      *)
(* their CHECKs.  Penalties and is_critical are left out: no code of the   *)
(* repository reads them.                                                  *)
(***************************************************************************)
EXTENDS Integers, SequencesExt

CONSTANTS
    Keys,         \* criterion keys as they are typed
    Trim,         \* what strings.TrimSpace makes of each
    Blank,        \* a key of white space
    BuiltIn,      \* the keys with a column in call_scores
    Maximum,      \* their maxima in scoring.Criteria,
    ColumnMax,    \* and in the CHECKs of the columns
    TotalMax,     \* the bound of total_score, and of a built-in total
    Lists,        \* the lists of criteria that clients send
    Scores        \* the scores that providers give

Criterion == [key : Keys, titled : BOOLEAN, max : Int]

ASSUME ScoringAssumption ==
    /\ BuiltIn \subseteq Keys /\ IsFiniteSet(BuiltIn) /\ Blank \in Keys
    /\ Trim \in [Keys -> Keys]
    /\ Maximum \in [BuiltIn -> Nat] /\ ColumnMax \in [BuiltIn -> Nat] /\ TotalMax \in Nat
    /\ Lists \subseteq Seq(Criterion)
    /\ Scores \subseteq Int

NoScores == [k \in {} |-> 0]

-------------------------------------------------------------------------------
KeysOf(list) == {list[i].key : i \in DOMAIN list}
MaxOf(list, k) == list[CHOOSE i \in DOMAIN list : list[i].key = k].max
SumOfMax(list) == MapThenSumSet(LAMBDA i : list[i].max, DOMAIN list)

\* Playbook.Validate.
Valid_Untrimmed(list) ==
    /\ list # << >>
    /\ \A i \in DOMAIN list : list[i].titled /\ list[i].max > 0
    /\ \A i, j \in DOMAIN list : list[i].key = list[j].key => i = j

Valid(list) ==
    /\ list # << >>
    /\ \A i \in DOMAIN list : Trim[list[i].key] # Blank /\ list[i].titled /\ list[i].max > 0
    /\ \A i, j \in DOMAIN list : Trim[list[i].key] = Trim[list[j].key] => i = j

\* DefaultCriteria and scoring.Criteria: the built-in rubric.
BuiltInCriteria ==
    LET keys == SetToSeq(BuiltIn)
    IN [i \in DOMAIN keys |->
           [key |-> keys[i], titled |-> TRUE, max |-> Maximum[keys[i]]]]

\* The built-in keys are told apart, and "total" is the name of no criterion.
ASSUME BuiltInAssumption == Valid(BuiltInCriteria) /\ "total" \notin BuiltIn

\* The criteria that a call is scored by: an empty list means the built-in ones.
Rubric(list) == IF list = << >> THEN BuiltInCriteria ELSE list

\* scoreFor: a criterion that was not scored counts, and is stored, as zero.
ScoreFor_Absent(scores, k) == IF k \in DOMAIN scores THEN scores[k] ELSE -1
ScoreFor(scores, k) == IF k \in DOMAIN scores THEN scores[k] ELSE 0

TotalOf(scores, list) == MapThenSumSet(LAMBDA i : ScoreFor(scores, list[i].key), DOMAIN list)

\* CalculateWithCriteria: whether it accepts the scores. Its total is TotalOf.
Accepts_Partial(scores, list) ==
    \A k \in DOMAIN scores : k \in KeysOf(list) /\ scores[k] \in 0..MaxOf(list, k)

Accepts(scores, list) ==
    /\ \A k \in DOMAIN scores : k \in KeysOf(list) /\ scores[k] \in 0..MaxOf(list, k)
    /\ KeysOf(list) \subseteq DOMAIN scores
    /\ LET max == SumOfMax(list)
       IN /\ TotalOf(scores, list) <= max
          /\ max <= TotalMax => TotalOf(scores, list) <= TotalMax

\* ParseAndValidateWithCriteria, of an answer that is or is not one JSON value with
\* every field and array it needs, none unknown and no text blank. A total that
\* the answer states is not used.
ParseAccepts(scores, wellFormed, list) == wellFormed /\ Accepts(scores, list)

\* The row that UpsertWithScore writes, and the CHECKs of its columns.
Columns_Total(scores, sum) ==
    [c \in BuiltIn \cup {"total"} |-> IF c = "total" THEN TotalOf(scores, BuiltInCriteria)
                                      ELSE ScoreFor(scores, c)]
Columns(scores, sum) ==
    [c \in BuiltIn \cup {"total"} |-> IF c = "total" THEN sum ELSE ScoreFor(scores, c)]

Checked_NoTotal(columns) == \A k \in BuiltIn : columns[k] \in 0..ColumnMax[k]

Checked(columns) ==
    /\ \A k \in BuiltIn : columns[k] \in 0..ColumnMax[k]
    /\ columns["total"] \in 0..TotalMax

\* A playbook that the calculator's maxima and the total of call_scores fit.
Fits(list) ==
    /\ \A i \in DOMAIN list : list[i].key \in BuiltIn => list[i].max <= Maximum[list[i].key]
    /\ SumOfMax(list) <= TotalMax

===============================================================================
