----------------------------- MODULE MCRevision -----------------------------
(***************************************************************************)
(* Small instances of LatestRevision.                                      *)
(***************************************************************************)
EXTENDS LatestRevision

MCSeparators == {"-", "/"}
\* P-1 and P/1 are one document, P-2 is another, / is separators only and -
\* means no value.
MCNumbers == {<<"P", "-", "1">>, <<"P", "/", "1">>, <<"P", "-", "2">>,
              <<"/">>, <<"-">>}
MCNullNumbers == {<<"-">>}
\* P-1-11 and P-11-1.
MCSegmented == {<<"P", "-", "1", "-", "1", "1">>,
                <<"P", "-", "1", "1", "-", "1">>, <<"-">>}

Number(d, v) == [form |-> "number", digits |-> d, value |-> v]
Letter(v) == [form |-> "letter", value |-> v]
\* 9 and 10, 2026 (too long), A, B, Z, and no revision at all.
MCRevCells == {Number(1, 9), Number(2, 10), Number(4, 2026),
               Letter(0), Letter(1), Letter(25), [form |-> "null"]}
=============================================================================
