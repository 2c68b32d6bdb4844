---------------------------- MODULE ModelRequest ----------------------------
(***************************************************************************)
(* What a request to the local model promises its caller: it ends, once,   *)
(* and it ends either with all that the model said, after the model has    *)
(* declared that complete, or with an error and nothing of it.             *)
(***************************************************************************)
EXTENDS Sequences

CONSTANT Piece

VARIABLES
    said,       \* what the model has said so far
    complete,   \* the model has declared it complete
    answer      \* what the caller has: nothing yet, the answer, or an error

request == <<said, complete, answer>>

Kind(k) == [kind |-> k, text |-> << >>]
Answered == [kind |-> "answered", text |-> said]

Init == said = << >> /\ complete = FALSE /\ answer = Kind("none")

Ask ==
    /\ answer = Kind("none") /\ answer' = Kind("pending")
    /\ UNCHANGED <<said, complete>>

Speak ==
    /\ answer # Kind("none") /\ ~complete
    /\ \E p \in Piece : said' = Append(said, p)
    /\ UNCHANGED <<complete, answer>>

Conclude ==
    /\ answer # Kind("none") /\ ~complete
    /\ complete' = TRUE
    /\ UNCHANGED <<said, answer>>

Refuse ==
    /\ answer = Kind("pending") /\ answer' = Kind("refused")
    /\ UNCHANGED <<said, complete>>

Deliver ==
    /\ answer = Kind("pending") /\ complete
    /\ answer' = Answered
    /\ UNCHANGED <<said, complete>>

Next == Ask \/ Speak \/ Conclude \/ Refuse \/ Deliver

Promise ==
    /\ Init /\ [][Next]_request
    /\ answer = Kind("pending") ~> answer # Kind("pending")
=============================================================================
