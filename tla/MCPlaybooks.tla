----------------------------- MODULE MCPlaybooks ------------------------------
(***************************************************************************)
(* An instance of CallScoring for TLC: two built-in criteria whose maxima  *)
(* add up to the bound of the total, one that a playbook adds and one that *)
(* is typed with a space; a default playbook and another one.              *)
(***************************************************************************)
EXTENDS CallScoring, TLC

CONSTANTS b1, b2, b3, b4, b5, n1, n2, greeting, closing, upsell, spaced

MCTrim == [k \in Keys |-> IF k = spaced THEN greeting ELSE k]
MCMaximum == greeting :> 2 @@ closing :> 1
MCColumnMax == greeting :> 2 @@ closing :> 1
MCScores == -1..3

C(key, max) == [key |-> key, titled |-> TRUE, max |-> max]

\* Fitting, too large for a column, too large for the total; refused for their
\* keys, their title or their maximum.
MCLists ==
    {<< >>, <<C(upsell, 1)>>, <<C(spaced, 1), C(closing, 1)>>, <<C(greeting, 1), C(upsell, 2)>>,
     <<C(greeting, 3)>>, <<C(upsell, 3), C(closing, 1)>>,
     <<C(spaced, 1), C(greeting, 1)>>, <<C(Blank, 1)>>, <<C(upsell, 0)>>,
     <<[C(upsell, 1) EXCEPT !.titled = FALSE]>>}

ARow(default) == [state |-> "active", default |-> default, name |-> n1,
                  criteria |-> BuiltInCriteria]
Absent == [ARow(FALSE) EXCEPT !.state = "absent"]

TwoBooks == b1 :> ARow(TRUE) @@ b2 :> ARow(FALSE) @@ [b \in Books \ {b1, b2} |-> Absent]

Ask(op, b, default, name, named, list) ==
    [op |-> op, book |-> b, default |-> default, name |-> name, named |-> named,
     criteria |-> list]

Deletes == {Ask("delete", b, "keep", "keep", FALSE, << >>) : b \in {b1, b2}}
Creates(ns, lists) == {Ask("create", b1, d, n, TRUE, list) :
                           d \in {"yes", "no"}, n \in ns, list \in lists}
Updates_(ns, lists) == {Ask("update", b, d, n, list # << >>, list) :
                           b \in {b1, b2}, d \in {"yes", "no", "keep"}, n \in ns, list \in lists}

\* The flag and the deletions alone.
Flags == Creates({n2}, {<< >>}) \cup Updates_({"keep"}, {<< >>}) \cup Deletes

MCInputs ==
    Flags \cup Creates({n2, NoName}, MCLists) \cup
    Updates_({n2, NoName, "keep"}, {<< >>, <<C(upsell, 1)>>, <<C(Blank, 1)>>})
    \cup {Ask("update", b1, "keep", "keep", TRUE, << >>)}

===============================================================================
