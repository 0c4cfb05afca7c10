---------------------------- MODULE MCCronMatch -----------------------------
(* Every step and every number up to beyond the limits of minutes; ranges and  *)
(* lists with their ends around the limits of each field.                     *)
EXTENDS CronMatch

Edge == {0, 1, 2, 5, 6, 7, 11, 12, 13, 23, 24, 28, 31, 58, 59, 60}

MCToks ==
  {[form |-> "*", nums |-> <<>>], [form |-> "?", nums |-> <<>>]}
  \cup {[form |-> fm, nums |-> <<n>>] : fm \in {"step", "number"}, n \in 0 .. 61}
  \cup {[form |-> "range", nums |-> <<a, b>>] : a \in Edge, b \in Edge}
  \cup {[form |-> "list", nums |-> <<a, b>>] : a \in {0, 1, 6, 59}, b \in Edge}

\* 1999, 2000, 2024, 2100
MCYears == {99, 100, 124, 200}
=============================================================================
