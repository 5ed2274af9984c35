--------------------------- MODULE VendorMatching ---------------------------
(***************************************************************************)
(* The last step of the pipeline (services/mdr_pipeline.py,                *)
(* _build_vendor_rows): when the revisions are decided, every row of TN    *)
(* FROM VENDORS is resolved against the documents by a ladder of keys      *)
(* (engine/identity/matching.py).                                          *)
(***************************************************************************)
EXTENDS LatestRevision, FiniteSets

CONSTANTS
    VendorSheet     \* the rows of TN FROM VENDORS, a sequence

\* VENDOR_FIELD_PRIORITY: the project's document/drawing number, the project's
\* document number, the vendor's own.
Fields == 1..3

ASSUME VendorAssumption ==
    VendorSheet \in Seq([numbers : [Fields -> Seq(STRING)],
                         transmittal : BOOLEAN])

VARIABLES
    vendors         \* EngineResult.vendor_rows, once they are built

vendorVars == <<stage, rowsRead, records, ranked, vendors>>

----------------------------------------------------------------------------
(* Keys and tiers                                                          *)

Tiers == 1..3
Methods == <<"EXACT", "NORMALIZED_EXACT", "ALTERNATIVE_IDENTIFIER">>

\* strip_ven_prefix, on a canonical key.
WithoutVen(key) ==
    IF Len(key) >= 3 /\ SubSeq(key, 1, 3) = <<"V", "E", "N">>
    THEN SubSeq(key, 4, Len(key)) ELSE key

\* A number that is null or separators only identifies nothing.
Identifies(n) == n \notin NullNumbers /\ Canonical(n) # << >>

KeyOf(tier, n) ==
    CASE tier = 1 -> n
      [] tier = 2 -> Canonical(n)
      [] tier = 3 -> WithoutVen(Canonical(n))

\* QeIndex: the documents under the key a number has in a tier.
Hits(tier, n) ==
    {records[i].number : i \in {j \in Rows :
        /\ Identifies(records[j].number)
        /\ KeyOf(tier, records[j].number) = KeyOf(tier, n)}}

Usable(row) == {f \in Fields : Identifies(row.numbers[f])}

----------------------------------------------------------------------------
(* match_vendor_row                                                        *)

\* Mutant: a field is tried in every tier before the next field.
EarlierByField(s, t) == s[2] < t[2] \/ (s[2] = t[2] /\ s[1] < t[1])

\* <<tier, field>>: every field is tried in a tier before the next tier.
Earlier(s, t) == s[1] < t[1] \/ (s[1] = t[1] /\ s[2] < t[2])

Outcome(status, tier, field, match, candidates) ==
    [status |-> status, tier |-> tier, field |-> field, match |-> match,
     candidates |-> candidates]

MatchVendorRow(row) ==
    LET rungs == {s \in Tiers \X Usable(row) :
                     Hits(s[1], row.numbers[s[2]]) # {}}
        first == CHOOSE s \in rungs : \A t \in rungs \ {s} : Earlier(s, t)
        hits == Hits(first[1], row.numbers[first[2]])
    IN  CASE Usable(row) = {} -> Outcome("NO_IDENTIFIER", 0, 0, << >>, {})
          [] Usable(row) # {} /\ rungs = {} ->
                Outcome("NOT_MATCHED", 0, 0, << >>, {})
          [] rungs # {} /\ Cardinality(hits) = 1 ->
                Outcome(Methods[first[1]], first[1], first[2],
                        CHOOSE n \in hits : TRUE, {})
          [] OTHER -> Outcome("AMBIGUOUS", first[1], first[2], << >>, hits)

\* A row with neither a number nor a transmittal is decoration.
Decorative(row) ==
    ~row.transmittal /\ \A f \in Fields : row.numbers[f] \in NullNumbers

BuildVendorRows ==
    /\ stage = "done"
    /\ ~vendors.built
    /\ LET kept == SelectSeq(VendorSheet, LAMBDA row : ~Decorative(row))
       IN  vendors' = [built |-> TRUE,
                       rows |-> [i \in DOMAIN kept |->
                                   [row |-> kept[i],
                                    outcome |-> MatchVendorRow(kept[i])]]]
    /\ UNCHANGED <<stage, rowsRead, records, ranked>>

----------------------------------------------------------------------------

VendorInit == Init /\ vendors = [built |-> FALSE, rows |-> << >>]

VendorNext ==
    \/ Next /\ UNCHANGED vendors
    \/ BuildVendorRows

VendorSpec == VendorInit /\ [][VendorNext]_vendorVars

----------------------------------------------------------------------------
(* Properties                                                              *)

\* A vendor row is given to a document only if that is the only document with
\* the key of its number, and only if no number of the row has a document
\* under a stricter key; with several documents it is given to none, and it
\* is left over only if none of its numbers has a document under any key
\* (matching.py: uncertain matches are never made silently).
VendorsNeverGuess ==
    \A i \in DOMAIN vendors.rows :
       LET o == vendors.rows[i].outcome
           row == vendors.rows[i].row
           same(f, t) == {j \in Rows : Identifies(records[j].number)
                          /\ KeyOf(t, records[j].number) = KeyOf(t, row.numbers[f])}
       IN  /\ o.tier # 0 =>
                /\ \A f \in Usable(row), t \in 1..(o.tier - 1) : same(f, t) = {}
                /\ \A f \in Usable(row) : f < o.field => same(f, o.tier) = {}
                /\ {records[j].number : j \in same(o.field, o.tier)}
                      = IF o.match # << >> THEN {o.match} ELSE o.candidates
                /\ o.match = << >> => Cardinality(o.candidates) > 1
           /\ o.tier = 0 =>
                /\ o.match = << >>
                /\ \A f \in Usable(row), t \in Tiers : same(f, t) = {}
=============================================================================
