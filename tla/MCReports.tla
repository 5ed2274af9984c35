------------------------------ MODULE MCReports ------------------------------
(***************************************************************************)
(* Small instances of ReferenceReports: sheets and workbooks that make the *)
(* keys, keywords and columns collide.                                     *)
(***************************************************************************)
EXTENDS MCRevision, ReferenceReports

\* 9 and 10 only are graded.
MCGradedCells == {Number(1, 9), Number(2, 10)}

VendorRow(a, b, c, transmittal) ==
    [numbers |-> <<a, b, c>>, transmittal |-> transmittal]
P1 == <<"P", "-", "1">>
PSlash1 == <<"P", "/", "1">>
P2 == <<"P", "-", "2">>
None == <<"-">>
\* Exact in a weak field against VEN- in a strong one; a number two documents
\* share; VEN- and nothing else; separators; nothing.
MCVendorSheet == <<VendorRow(<<"V", "E", "N", "-", "P", "-", "2">>, None, PSlash1, TRUE),
                   VendorRow(<<"P", "1">>, P2, None, FALSE),
                   VendorRow(None, <<"V", "E", "N", "P", "1">>, P2, TRUE),
                   VendorRow(<<"V", "E", "N", "-">>, None, None, TRUE),
                   VendorRow(<<"/">>, None, None, FALSE),
                   VendorRow(None, None, None, FALSE)>>

MCDigits == {"1", "2"}
Keywords(row, number, title, type) ==
    [row |-> row, number |-> number, title |-> title, type |-> type]
Sheets(required, notRequired) ==
    [REQUIRED |-> required, NOT_REQUIRED |-> notRequired]
TableRow(row, name, dokar, sow) ==
    [row |-> row, name |-> name, dokar |-> dokar, sow |-> sow]

Yes == <<"YES", "-", "MTL", "/", "DOC IDB">>
MCTable == {TableRow(2, "EQPT DATA SHEET", "MDS", Yes),
            TableRow(3, "MDS", "MXB",
                     <<"YES", "-", "FMTL", "/", "HIERARCHY", "/", "DOC IDB">>),
            TableRow(4, "", "LAYOUT", <<"CANCELLED">>),
            TableRow(5, "", "", Yes)}
DataSheet == << <<"DATA SHEET">> >>
MCRequired == {Keywords(2, {<< <<"-13-", "X", "X">> >>}, NotApplicable, "MXB"),
               Keywords(3, NotApplicable, {DataSheet}, "MDS"),
               Keywords(4, {}, {<< <<>>, <<"PIPE">>, <<"PLAN">>, <<>> >>}, "GAD"),
               Keywords(5, {}, {<< <<>>, <<>> >>}, "MDS")}
MCNotRequired == {Keywords(2, NotApplicable, {<< <<"PLAN">> >>, << <<"CV">> >>}, "PLAN"),
                  Keywords(3, NotApplicable, {DataSheet}, "LAYOUT"),
                  Keywords(4, NotApplicable, {<< <<"OLD">> >>}, "MDS"),
                  Keywords(5, NotApplicable, {<< <<"VOID">> >>}, "NOT SOW")}
MCFull == [sheets |-> Sheets(MCRequired, MCNotRequired), table |-> MCTable,
           tabled |-> TRUE]
\* Without the required sheet, without the other one, without the table.
MCRenamed == [MCFull EXCEPT !.sheets = [NOT_REQUIRED |-> MCNotRequired]]
MCTorn == [MCFull EXCEPT !.sheets = [REQUIRED |-> MCRequired]]
MCUntabled == [MCFull EXCEPT !.tabled = FALSE, !.table = {}]
MCBooks == {NoBook, MCFull, MCRenamed, MCTorn, MCUntabled}

Titled(title) == [number |-> <<"P">>, title |-> title, type |-> "",
                  sow |-> << >>, idb |-> ""]
MCDocuments == {Titled(t) : t \in {<<"DATA SHEET", "S">>, <<"PLAN">>, <<"-">>,
                   <<"PIPE", "ING ", "PLAN">>, <<"PLAN", "PIPE">>, <<"OLD">>,
                   <<"VOID", "CV">>, <<"VOID">>, <<"NOTE">>}}
               \cup {[Titled(<<"PLAN">>) EXCEPT !.number = n] : n \in
                        {<<"P", "-13-", "1", "2">>, <<"P", "-13-", "X", "X">>}}
MCSows == {<<>>, <<"NO">>, <<"CANCELLED">>, Yes, <<"YES", " ", "MTL", "/", "DOC IDB">>,
           <<"YEE", "-", "DOC IDB", "/", "MLT">>,
           <<"YES", "-", "FMTL", "/", "DOC IDB">>, <<"YES">>}
MCTypes == {"", "-", "MDS", "MXB", "LAYOUT", "PLAN", "NOT SOW"}
MCReferenceRows ==
    [docType |-> {[d EXCEPT !.type = t] : d \in MCDocuments,
                     t \in {"", "MDS", "PLAN", "LAYOUT", "OTHER", "TNR"}},
     sow |-> {[Titled(<<>>) EXCEPT !.type = t, !.sow = v] :
                 t \in MCTypes, v \in MCSows},
     idb |-> {[Titled(<<>>) EXCEPT !.type = t, !.sow = v, !.idb = i] :
                 t \in {"MDS", "PLAN", "NOT SOW", "-"},
                 v \in {<<"NO">>, Yes},
                 i \in {"", "0", "NO NEED TO CHECK", "TO BE CHECK", "COMPLETED",
                        "COMPLETE", "REFERENCE"}},
     automate |-> MCDocuments]
=============================================================================
