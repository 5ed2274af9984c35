----------------------------- MODULE MCOutput -----------------------------
(***************************************************************************)
(* Small workbooks for OutputWorkbook: a source sheet of four columns      *)
(* whose captions come in any order, with or without the anchor and with   *)
(* or without automation captions of the employee's own; a title row or    *)
(* none; two data rows; a merged title, formats and a filter over any      *)
(* columns; other sheets before and behind it.                             *)
(***************************************************************************)
EXTENDS OutputWorkbook

MCColumns == <<"DOC TYPE", "DOC IDB COMPLETED STATUS", "CHECK STATUS">>
MCAnchors == <<"QATARENERGY SIGNED / NOT SIGNED", "QATARENERGY SIGNED">>
MCSheets == <<"QatarEnergy-TN", "QE-TN">>
MCContains == {<<"QatarEnergy-TN WORKING", "QatarEnergy-TN">>,
               <<"QatarEnergy-TN Automated", "QatarEnergy-TN">>,
               <<"QE-TN WORKING", "QE-TN">>}
MCExpected == {"DOCUMENT NO.", "REV"}
MCFilled == {{"DOC TYPE"}, {"DOC TYPE", "DOC IDB COMPLETED STATUS"}}

Theirs == {"REMARKS", "QATARENERGY SIGNED", "DOC TYPE", "CHECK STATUS"}
Cols == 4

\* A sheet with captions t in row h, two data rows, and ranges over the
\* columns from c1 to c2.
MakeSheet(name, h, t, c1, c2, dims) ==
    LET range(r1, r2) == [c1 |-> c1, c2 |-> c2, r1 |-> r1, r2 |-> r2]
    IN [name |-> name, rows |-> h + 2, cols |-> Cols,
        cell |-> [<<r, c>> \in Grid(h + 2, Cols) |->
                     IF r < h THEN IF c = 1 THEN Caption("REV") ELSE Empty
                     ELSE IF r = h THEN Caption(t[c])
                     ELSE IF c = 2 /\ r = h + 1 THEN Empty
                     ELSE Text("data", r, c)],
        style |-> [<<r, c>> \in Grid(h + 2, Cols) |->
                     IF r < h THEN IF c1 = 1 \/ c > 1 THEN "title" ELSE "none"
                     ELSE IF r = h THEN IF c = Cols THEN "date" ELSE "head"
                     ELSE IF c = 1 THEN "none" ELSE "body"],
        merges |-> IF h > 1 THEN {range(1, h - 1)} ELSE {},
        formats |-> {range(h + 1, h + 2), range(h + 2, h + 2)},
        filter |-> IF c1 = c2 THEN NoRange ELSE range(h, h + 2),
        pane |-> c2, dims |-> dims]

\* Two columns that tell the header row, and two others.
Headers == {t \in [1..Cols -> Theirs \cup MCExpected] :
               \E c, d \in 1..Cols :
                  /\ c < d
                  /\ t[c] = "DOCUMENT NO." /\ t[d] = "REV"
                  /\ \A e \in 1..Cols \ {c, d} : t[e] \in Theirs}

Other(name) == MakeSheet(name, 1, [c \in 1..Cols |-> "REMARKS"], 1, 2, {})

Intervals == {i \in (1..Cols) \X (1..Cols) : i[1] <= i[2]}

MCUploads ==
    {LET tn == MakeSheet("QatarEnergy-TN", h, t, i[1], i[2],
                         {[min |-> i[1], max |-> i[1], width |-> "wide"]})
         c1 == i[1]
     IN CASE c1 = 1 -> <<tn, Other("Status Codes")>>
          [] c1 = 2 -> <<Other("QatarEnergy-TN WORKING"), tn>>
          [] c1 = 3 -> <<Other("Status Codes"), [tn EXCEPT !.name = "QE-TN WORKING"]>>
          [] OTHER -> <<[tn EXCEPT !.name = "QatarEnergy-TN WORKING"],
                        Other("Latest Revisions"), Other("VENDOR LIST")>> :
        h \in {1, 2}, t \in Headers,
        i \in Intervals}
===========================================================================
