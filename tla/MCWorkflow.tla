---------------------------- MODULE MCWorkflow ----------------------------
(***************************************************************************)
(* Small instances of SubmissionWorkflow.  The contents a stored workbook  *)
(* can have are chosen so that every comparison the code makes can go both *)
(* ways: "longer" has another document row and header row than "march",    *)
(* "empty" has no document row at all, and "broken" cannot be opened.      *)
(***************************************************************************)
EXTENDS SubmissionWorkflow, TLC

MCRows == {2, 3}

MCRowsOf == [b \in Books |-> CASE b = "longer" -> {3}
                                [] b = "empty" -> {}
                                [] OTHER -> {2}]

MCHeaderOf == [b \in Books |-> IF b = "longer" THEN 2 ELSE 1]

\* Every content but "broken" opens.
MCProcessable == Books \ {"broken"}

RequestSymmetry == Permutations(Requests)

Symmetry ==
    Permutations(Requests) \cup Permutations(Subs) \cup Permutations(Rules)
===========================================================================
