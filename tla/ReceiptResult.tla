--------------------------- MODULE ReceiptResult ---------------------------
(***************************************************************************)
(* What becomes of the answer of the cloud model to a document: the pages  *)
(* of each receipt are brought into the document, receipts on pages that   *)
(* carry no finances are left out, one receipt becomes the primary one,    *)
(* and every page gets a review.  An answer comes in two forms, a full one *)
(* and a compact one that leaves out what follows from the rest.           *)
(***************************************************************************)
EXTENDS Integers, Sequences, SequencesExt

CONSTANTS
    Unset,      \* a field the answer does not have (a null counts as 0)
    Junk        \* a page that is no number

\* "advertisement" stands for the four kinds of pages without finances,
\* "financial" for the other dispositions a model may give.
Disposition == {"financial", "advertisement"}

Status == {"accepted", "needs_manual_confirmation", "needs_reupload"}

\* A receipt of an answer; [malformed] is one that is no JSON object.
RawReceipt == [start : Int \cup {Unset, Junk}, end : Int \cup {Unset, Junk}, pages : SUBSET Int,
               malformed : BOOLEAN]

Review == [page : Int, disposition : Disposition]

\* "reviewed" says whether the answer has a list of reviews at all.
RawAnswer == [receipts : Seq(RawReceipt), reviews : Seq(Review), reviewed : BOOLEAN,
              primary : Int \cup {Unset}, status : Status]

-----------------------------------------------------------------------------
(* The compact form.                                                       *)
\* Faulty variant: both ends from the first page cited.
ExpandFirst(r, n) ==
    LET valid == r.pages \cap (1..n) IN
    IF r.malformed \/ valid = {} THEN r
    ELSE [r EXCEPT !.start = IF @ = Unset THEN Min(valid) ELSE @,
                   !.end   = IF @ = Unset THEN Min(valid) ELSE @]

Expand(r, n) ==
    LET valid == r.pages \cap (1..n) IN
    IF r.malformed \/ valid = {} THEN r
    ELSE [r EXCEPT !.start = IF @ = Unset THEN Min(valid) ELSE @,
                   !.end   = IF @ = Unset THEN Max(valid) ELSE @]

Expanded(a, n) == [a EXCEPT !.receipts = [i \in DOMAIN @ |-> Expand(@[i], n)]]

-----------------------------------------------------------------------------
(* The pages of a receipt in a document of n pages.                        *)
Clamp(x, low, high) == Max({low, Min({x, high})})

FirstPage(r, n) ==
    IF Junk \in {r.start, r.end} \/ r.start \in {Unset, 0} THEN 1 ELSE Clamp(r.start, 1, n)

LastPage(r, n) ==
    LET first == FirstPage(r, n) IN
    IF Junk \in {r.start, r.end} \/ r.end \in {Unset, 0} THEN first ELSE Clamp(r.end, first, n)

Pages(r, n) ==
    LET range == FirstPage(r, n)..LastPage(r, n) IN
    IF r.pages = {} THEN range ELSE r.pages \cap range

(* An answer without receipts and without reviews is an old one: the whole *)
(* document is its receipt.                                                *)
Receipts(a, n) ==
    IF a.receipts = << >> /\ ~a.reviewed
    THEN <<[start |-> 1, end |-> n, pages |-> {}, malformed |-> FALSE]>>
    ELSE a.receipts

\* The filter goes by the last review of a page, what is published by the first.
FilteredAs(a, p) ==
    LET of == {i \in DOMAIN a.reviews : a.reviews[i].page = p} IN
    IF of = {} THEN "unknown" ELSE a.reviews[Max(of)].disposition

PublishedAs(a, p) ==
    LET of == {i \in DOMAIN a.reviews : a.reviews[i].page = p} IN
    IF of = {} THEN "unknown" ELSE a.reviews[Min(of)].disposition

LeftOut(a, r, n) ==
    /\ Pages(r, n) # {}
    /\ \A p \in Pages(r, n) : FilteredAs(a, p) = "advertisement"

\* Receipts keep the number they have in the answer.
Kept(a, n) == {i \in DOMAIN Receipts(a, n) :
                  LET r == Receipts(a, n)[i] IN ~r.malformed /\ ~LeftOut(a, r, n)}

\* Faulty variant: the answer's choice, kept or not.
PrimaryAsked(a, n) ==
    IF a.primary # Unset THEN a.primary
    ELSE IF Kept(a, n) = {} THEN Unset ELSE Min(Kept(a, n))

Primary(a, n) ==
    IF a.primary \in Kept(a, n) THEN a.primary
    ELSE IF Kept(a, n) = {} THEN Unset ELSE Min(Kept(a, n))

StatusOf(a, n) ==
    IF a.status = "accepted" /\ Primary(a, n) = Unset
    THEN "needs_manual_confirmation" ELSE a.status

(* The public result.                                                      *)
ResultOf(a, n) ==
    [receipts |-> [i \in Kept(a, n) |->
                      LET r == Receipts(a, n)[i] IN
                      [start |-> FirstPage(r, n), end |-> LastPage(r, n), pages |-> Pages(r, n)]],
     primary  |-> Primary(a, n),
     status   |-> StatusOf(a, n),
     reviews  |-> [p \in 1..n |-> PublishedAs(a, p)]]
=============================================================================
