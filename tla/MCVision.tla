------------------------------ MODULE MCVision ------------------------------
(* A document of one or two pages, sent as images, as a photograph, as     *)
(* text or as a statement, some of them badly; answers with up to two      *)
(* receipts, pages out of the document, missing and double reviews.        *)
EXTENDS VisionService

CONSTANTS j1, j2, c1, k1, lean, plain

Doc(kind, pages, single, text, count, sound) ==
    [kind |-> kind, pages |-> pages, single |-> single, text |-> text, count |-> count,
     model |-> None, sound |-> sound]

MCDocument ==
    {Doc("image", << >>, TRUE, FALSE, 0, TRUE), Doc("pdf_rendered", <<2, 1>>, FALSE, FALSE, 2, TRUE),
     Doc("pdf_rendered", <<2>>, FALSE, FALSE, 2, TRUE), Doc("legacy", <<2>>, FALSE, TRUE, 2, TRUE),
     Doc("legacy", <<2>>, FALSE, FALSE, 1, TRUE),
     Doc("legacy", << >>, FALSE, TRUE, 2, TRUE), Doc("legacy", <<1, 1>>, FALSE, FALSE, 2, TRUE),
     Doc("statement", <<1, 2>>, FALSE, FALSE, 0, TRUE), Doc("statement", <<2>>, FALSE, TRUE, 0, TRUE),
     [Doc("pdf_rendered", <<1>>, FALSE, FALSE, 0, TRUE) EXCEPT !.model = plain],
     Doc("image", <<1>>, FALSE, FALSE, 0, FALSE)}

Raw(start, end, pages) == [start |-> start, end |-> end, pages |-> pages, malformed |-> FALSE]
Broken == [Raw(Unset, Unset, {}) EXCEPT !.malformed = TRUE]

Shape == {Raw(Unset, Unset, {1}), Raw(Unset, Unset, {1, 2}), Raw(Unset, Unset, {2, 3}), Broken,
          Raw(2, 1, {}), Raw(0, 3, {1}), Raw(Junk, 2, {2})}

Says(p, d) == [page |-> p, disposition |-> d]

Reviews == {<<Says(1, "advertisement"), Says(2, "financial")>>,
            <<Says(1, "advertisement"), Says(2, "advertisement")>>,
            <<Says(1, "financial"), Says(1, "advertisement")>>, << >>}

Of(receipts, reviews, primary) ==
    [receipts |-> receipts, reviews |-> reviews, reviewed |-> reviews # << >>,
     primary |-> primary, status |-> "accepted"]

MCAnswer ==
    {Of(<<x>>, v, 1) : x \in Shape, v \in Reviews}
    \cup {Of(<<Raw(Unset, Unset, {1}), x>>, <<Says(1, "advertisement"), Says(2, "financial")>>, p) :
              x \in Shape, p \in {1, Unset}}
    \cup {Of(<< >>, v, Unset) : v \in Reviews}
=============================================================================
