--------------------------- MODULE MCResultsTable ---------------------------
(* Three rows of which two have nested fields, in a run of two statements,  *)
(* in a run of one, and in a run whose first statement is refused.          *)
EXTENDS ResultsTable, SequencesExt

MCNested == [r \in Rows |-> CASE r = "r1" -> {"f"} [] r = "r2" -> {"f", "g"} [] OTHER -> {}]
MCWords == [r \in Rows |-> IF r = "r1" THEN {} ELSE {"t"}]

Table(rows) == [fulfilled |-> TRUE, records |-> rows]
MCResponses == {<<Table(<<"r1", "r2", "r3">>), Table(<<"r2">>)>>,
                <<Table(<<"r2", "r1">>)>>,
                <<[fulfilled |-> FALSE, records |-> <<>>], Table(<<>>)>>}

\* Filtered, written to be reasoned about, is the filter of the standard module.
ASSUME FilteredSelects ==
  \A s \in BoundedSeq(Rows, 4), set \in SUBSET Rows :
    Filtered(s, set) = SelectSeq(s, LAMBDA r : r \in set)
=============================================================================
