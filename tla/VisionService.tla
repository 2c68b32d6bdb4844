--------------------------- MODULE VisionService ---------------------------
(***************************************************************************)
(* Recognition of documents by the cloud model: what a request must be     *)
(* like, the credentials it reads, the answer and the result made of it,   *)
(* while the settings are being changed.                                   *)
(***************************************************************************)
EXTENDS VisionSettings, ReceiptResult

CONSTANTS
    Call,           \* recognitions that are served at once
    Compact,        \* models that answer in the compact form (gpt-6.1-sol)
    MaxPages,       \* pages of a document (12; 40 of a statement)
    Document,       \* documents that are sent in, a subset of Documents
    Answer          \* answers of the cloud model, a subset of RawAnswer

\* "pages" are the numbers of the images in the order they came in, "single" is an
\* image without number, "count" the page count or 0; "sound" says that every
\* image decodes and no size is exceeded.
Documents == [kind : {"legacy", "image", "pdf_rendered", "statement"}, pages : Seq(1..MaxPages),
              single : BOOLEAN, text : BOOLEAN, count : 0..MaxPages,
              model : Model \cup {None}, sound : BOOLEAN]

ASSUME ServiceAssumption ==
    /\ Compact \subseteq Model /\ MaxPages \in Nat \ {0}
    /\ Document \subseteq Documents /\ Answer \subseteq RawAnswer

VARIABLE call       \* the recognitions

service == <<settings, call>>

-----------------------------------------------------------------------------
(* What the service and the client refuse before anything is sent.         *)
Numbers(d) == IF d.single THEN {1} ELSE ToSet(d.pages)

Unique(d) == Cardinality(ToSet(d.pages)) = Len(d.pages)

Complete(d, n) == Numbers(d) = 1..n

(* One of an image, a list of pages and a text; unique page numbers within *)
(* the document, all of them unless the page count is given.               *)
WellFormed(d) ==
    /\ IF d.pages # << >> THEN ~d.single ELSE d.single \/ (d.count > 0 /\ d.text)
    /\ d.kind = "pdf_rendered" => d.pages # << >> /\ ~d.text
    /\ Unique(d)
    /\ d.pages # << >> => IF d.count = 0 THEN Complete(d, Len(d.pages))
                          ELSE Numbers(d) \subseteq 1..d.count

PageCount(d) == IF d.single THEN 1 ELSE IF d.count > 0 THEN d.count ELSE Max(Numbers(d))

KindOf(d) == IF d.single THEN "image" ELSE d.kind

ReceiptFits(d) ==
    /\ WellFormed(d)
    /\ KindOf(d) = "pdf_rendered" => Complete(d, PageCount(d))
    /\ d.kind = "image" /\ ~d.single => Len(d.pages) = 1 /\ ~d.text

StatementFits(d) ==
    /\ Unique(d) /\ Complete(d, Len(d.pages))
    /\ d.pages # << >> \/ d.text

Fits(d) == d.sound /\ IF d.kind = "statement" THEN StatementFits(d) ELSE ReceiptFits(d)

-----------------------------------------------------------------------------
NoCall == [at |-> "idle"]

CallOK ==
    call \in [Call ->
        {NoCall}
        \cup [at : {"ready"}, kind : {"legacy", "image", "pdf_rendered", "statement"},
              pages : SUBSET (1..MaxPages), n : 0..MaxPages, model : Model \cup {None}]
        \cup [at : {"sent"}, kind : {"legacy", "image", "pdf_rendered", "statement"},
              pages : SUBSET (1..MaxPages), n : 0..MaxPages, model : Model]
        \cup [at : {"answered"}, pages : SUBSET (1..MaxPages), n : 1..MaxPages,
              compact : BOOLEAN, answer : Answer]]

ServiceOK == SettingsOK /\ CallOK

ServiceInit == SettingsInit /\ call = [c \in Call |-> NoCall]

Receive(c, d) ==
    /\ call[c] = NoCall /\ Fits(d)
    /\ call' = [call EXCEPT ![c] = [at |-> "ready", kind |-> KindOf(d), pages |-> Numbers(d),
                    n |-> IF d.kind = "statement" THEN Len(d.pages) ELSE PageCount(d),
                    model |-> d.model]]
    /\ UNCHANGED settings

ModelFor(c) == IF call[c].model = None THEN file.model ELSE call[c].model

(* The credentials are read once, the request is sent with what was read;  *)
(* a statement always goes to the same model.                              *)
Send(c) ==
    /\ call[c].at = "ready" /\ file # Missing
    /\ call' = [call EXCEPT ![c] = [@ EXCEPT !.at = "sent", !.model = ModelFor(c)]]
    /\ UNCHANGED settings

(* No key, an error of the service, no connection within 180 or 360        *)
(* seconds, or an answer that is none: the call ends with that error.      *)
Refuse(c) ==
    /\ call[c] # NoCall
    /\ call' = [call EXCEPT ![c] = NoCall]
    /\ UNCHANGED settings

CompactForm(c) == call[c].model \in Compact /\ call[c].kind \in {"image", "pdf_rendered"}

\* A model asked for the compact form gives no page ranges.
IsCompact(a) == \A i \in DOMAIN a.receipts : a.receipts[i].start = Unset /\ a.receipts[i].end = Unset

Answered(c, a) ==
    /\ call[c].at = "sent" /\ call[c].kind # "statement"
    /\ CompactForm(c) => IsCompact(a)
    /\ call' = [call EXCEPT ![c] = [at |-> "answered", pages |-> @.pages, n |-> @.n,
                                    compact |-> CompactForm(c), answer |-> a]]
    /\ UNCHANGED settings

(* The result goes out; the transactions of a statement as they came.      *)
Reply(c) ==
    /\ call[c].at = "answered" \/ (call[c].at = "sent" /\ call[c].kind = "statement")
    /\ call' = [call EXCEPT ![c] = NoCall]
    /\ UNCHANGED settings

Result(c) ==
    LET k == call[c] IN ResultOf(IF k.compact THEN Expanded(k.answer, k.n) ELSE k.answer, k.n)

CallNext ==
    \E c \in Call :
        \/ \E d \in Document : Receive(c, d)
        \/ Send(c) \/ Refuse(c) \/ Reply(c)
        \/ \E a \in Answer : Answered(c, a)

\* A crash also ends the recognitions.
ServiceNext ==
    \/ /\ SettingsNext
       /\ call' = IF crashes' = crashes THEN call ELSE [c \in Call |-> NoCall]
    \/ CallNext

ServiceSpec == ServiceInit /\ [][ServiceNext]_service

-----------------------------------------------------------------------------
IsAnswered(c) == call[c].at = "answered"

(* What is sent and what is answered are about the same document: images   *)
(* of pages it has, and a result whose receipts cite its pages only, whose *)
(* primary receipt is one of those it lists, and which is accepted only    *)
(* with a primary receipt - whatever the model answers.                    *)
ResultIsCoherent ==
    \A c \in Call : IsAnswered(c) =>
        LET r == Result(c)  n == call[c].n IN
        /\ call[c].pages \subseteq 1..n
        /\ \A i \in DOMAIN r.receipts :
              LET x == r.receipts[i] IN
              /\ x.start \in 1..n /\ x.end \in x.start..n
              /\ x.pages \subseteq x.start..x.end
        /\ IF DOMAIN r.receipts = {} THEN r.primary = Unset ELSE r.primary \in DOMAIN r.receipts
        /\ r.status = "accepted" => r.primary # Unset

\* What the full form of a compact answer says.
WithRange(r) == IF r.pages = {} THEN r
                ELSE [r EXCEPT !.start = Min(r.pages), !.end = Max(r.pages)]

InFull(a) == [a EXCEPT !.receipts = [i \in DOMAIN @ |-> WithRange(@[i])]]

(* "精简前后公共返回逐字段相同" (docs/receipt-token-lean.md): leaving out what     *)
(* follows from the cited pages changes nothing in the result, if the      *)
(* pages exist.                                                            *)
BothFormsAgree ==
    \A c \in Call :
        (/\ IsAnswered(c) /\ call[c].compact
         /\ \A i \in DOMAIN call[c].answer.receipts :
                call[c].answer.receipts[i].pages \subseteq 1..call[c].n)
        => Result(c) = ResultOf(InFull(call[c].answer), call[c].n)
=============================================================================
