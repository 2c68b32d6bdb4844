----------------------------- MODULE ModelStream ----------------------------
(***************************************************************************)
(* A streamed request to the local model (_request_stream).  The server    *)
(* sends lines: pieces of the answer, the reason why it finished, its end  *)
(* mark, and lines that say nothing (comments, blank lines), as many as it *)
(* likes; it may be silent, stop in the middle of a line, or be cut off.   *)
(* Before every line the client looks whether its caller still waits and   *)
(* whether its budget of time is used up; it limits every read to what is  *)
(* left of it.                                                             *)
(***************************************************************************)
EXTENDS Integers, Sequences

CONSTANTS
    Piece,          \* pieces of an answer
    MaxPieces,      \* bound: pieces the server sends
    MaxWire         \* bound: lines on the wire

ASSUME StreamAssumption == MaxPieces \in Nat /\ MaxWire \in Nat \ {0}

VARIABLES
    stage,      \* of the client: "idle", "opening", "checking", "reading" or "closed"
    wire,       \* lines that were sent and not read
    tail,       \* what is after them: "silence", "trickle", "stalled" or "cut"
    said,       \* pieces the server has sent
    marks,      \* which of "reason" and "done" the server has sent
    content,    \* pieces the client has heard
    heard,      \* which marks the client has heard
    late,       \* the budget is used up
    abandoned,  \* cancelled() is true
    outcome     \* what the caller gets

stream == <<stage, wire, tail, said, marks, content, heard, late, abandoned, outcome>>

server == <<said, marks>>
client == <<stage, content, heard, outcome>>
circumstances == <<late, abandoned>>

Outcome(kind) == [kind |-> kind, text |-> << >>]
Error == Outcome("refused")

Text(p) == [is |-> "piece", piece |-> p]
Mark(m) == [is |-> m]
Comment == [is |-> "comment"]
Bad == [is |-> "bad"]

Line == {Text(p) : p \in Piece} \cup {Mark("reason"), Mark("done"), Comment, Bad}

StreamOK ==
    /\ stage \in {"idle", "opening", "checking", "reading", "closed"}
    /\ wire \in Seq(Line) /\ Len(wire) <= MaxWire
    /\ tail \in {"silence", "trickle", "stalled", "cut"}
    /\ said \in Seq(Piece) /\ Len(said) <= MaxPieces
    /\ content \in Seq(Piece) /\ Len(content) <= Len(said)
    /\ heard \subseteq marks /\ marks \subseteq {"reason", "done"}
    /\ late \in BOOLEAN /\ abandoned \in BOOLEAN
    /\ stage = "idle" <=> outcome = Outcome("none")
    /\ stage \in {"opening", "checking", "reading"} <=> outcome = Outcome("pending")

StreamInit ==
    /\ stage = "idle"
    /\ wire = << >> /\ tail = "silence"
    /\ said = << >> /\ marks = {}
    /\ content = << >> /\ heard = {}
    /\ late = FALSE /\ abandoned = FALSE
    /\ outcome = Outcome("none")

Connected == stage \notin {"idle", "opening"}

-----------------------------------------------------------------------------
(* The server and the network.                                             *)
Emit(l) ==
    /\ Connected /\ tail # "cut" /\ "done" \notin marks /\ Len(wire) < MaxWire
    /\ wire' = Append(wire, l)
    /\ tail' = "silence"

Speaks ==
    /\ \/ \E p \in Piece : /\ Len(said) < MaxPieces
                           /\ Emit(Text(p)) /\ said' = Append(said, p) /\ UNCHANGED marks
       \/ \E m \in {"reason", "done"} : Emit(Mark(m)) /\ marks' = marks \cup {m} /\ UNCHANGED said
       \/ Emit(Comment) /\ UNCHANGED server
       \/ Emit(Bad) /\ UNCHANGED server
    /\ UNCHANGED <<client, circumstances>>

\* A line is begun and goes on; byte after byte may come, each within the time of a read.
Trickles ==
    /\ Connected /\ tail = "silence" /\ "done" \notin marks
    /\ tail' = "trickle"
    /\ UNCHANGED <<wire, server, client, circumstances>>

Stalls ==
    /\ tail = "trickle" /\ tail' = "stalled"
    /\ UNCHANGED <<wire, server, client, circumstances>>

Cut ==
    /\ Connected /\ tail # "cut"
    /\ tail' = "cut"
    /\ UNCHANGED <<wire, server, client, circumstances>>

Expires ==
    /\ stage # "idle" /\ ~late /\ late' = TRUE
    /\ UNCHANGED <<wire, tail, server, client, abandoned>>

Abandon ==
    /\ stage # "idle" /\ ~abandoned /\ abandoned' = TRUE
    /\ UNCHANGED <<wire, tail, server, client, late>>

-----------------------------------------------------------------------------
(* The client.  Whatever ends the request closes the connection.           *)
Close(o) ==
    /\ stage' = "closed" /\ outcome' = o
    /\ UNCHANGED <<content, heard>>

Dial ==
    /\ stage = "idle"
    /\ stage' = "opening" /\ outcome' = Outcome("pending")
    /\ UNCHANGED <<wire, tail, server, content, heard, circumstances>>

(* urlopen: the answer begins, is an HTTP error, or does not come in time. *)
Opened ==
    /\ stage = "opening"
    /\ stage' = "checking"
    /\ UNCHANGED <<wire, tail, server, content, heard, outcome, circumstances>>

OpenFails ==
    /\ stage = "opening"
    /\ Close(Error)
    /\ UNCHANGED <<wire, tail, server, circumstances>>

\* Faulty variant: time is only limited by the reads.
StopsIfGone == abandoned

Stops == abandoned \/ late

Check ==
    /\ stage = "checking"
    /\ IF Stops THEN Close(Error)
       ELSE stage' = "reading" /\ UNCHANGED <<content, heard, outcome>>
    /\ UNCHANGED <<wire, tail, server, circumstances>>

\* Faulty variant: an answer whose end is missing is an answer.
WholeIfReason(marksHeard) == "reason" \in marksHeard

Whole(marksHeard) == marksHeard = {"reason", "done"}

Verdict(marksHeard) ==
    IF Whole(marksHeard) THEN [kind |-> "answered", text |-> content] ELSE Error

(* A line: a piece is kept, a reason is noted, a line without data is      *)
(* skipped, and one that is an error or not JSON ends the request, as the  *)
(* end mark does.                                                          *)
ReadLine ==
    /\ stage = "reading" /\ wire # << >>
    /\ LET l == Head(wire) IN
       CASE l.is = "piece"   -> /\ content' = Append(content, l.piece)
                                /\ stage' = "checking" /\ UNCHANGED <<heard, outcome>>
         [] l.is = "reason"  -> /\ heard' = heard \cup {"reason"}
                                /\ stage' = "checking" /\ UNCHANGED <<content, outcome>>
         [] l.is = "comment" -> stage' = "checking" /\ UNCHANGED <<content, heard, outcome>>
         [] l.is = "bad"     -> Close(Error)
         [] l.is = "done"    -> /\ heard' = heard \cup {"done"}
                                /\ outcome' = Verdict(heard')
                                /\ stage' = "closed" /\ UNCHANGED content
    /\ wire' = Tail(wire)
    /\ UNCHANGED <<tail, server, circumstances>>

ReadEnd ==
    /\ stage = "reading" /\ wire = << >> /\ tail = "cut"
    /\ Close(Verdict(heard))
    /\ UNCHANGED <<wire, tail, server, circumstances>>

\* The read waited for what was left of the budget.
ReadTimeout ==
    /\ stage = "reading" /\ wire = << >> /\ tail \in {"silence", "stalled"} /\ late
    /\ Close(Error)
    /\ UNCHANGED <<wire, tail, server, circumstances>>

Client == Opened \/ OpenFails \/ Check \/ ReadLine \/ ReadEnd \/ ReadTimeout

StreamNext ==
    \/ Speaks \/ Trickles \/ Stalls \/ Cut \/ Expires \/ Abandon
    \/ Dial \/ Client

(* The client runs, time passes, and a line that was begun ends: a server  *)
(* that sends one line byte by byte for ever would hold the request for    *)
(* ever, because the time of a read begins anew with every byte.           *)
StreamFairness ==
    /\ WF_stream(Client)
    /\ WF_stream(Expires)
    /\ WF_stream(tail = "trickle" /\ (Stalls \/ Speaks \/ Cut))

StreamSpec == StreamInit /\ [][StreamNext]_stream /\ StreamFairness

-----------------------------------------------------------------------------
(* "Keep the upstream response cancellable, with a total wall-clock        *)
(* budget" (client.py:156), "不能应用部分输出" (client.py:218): whatever the  *)
(* server sends, in whatever pieces, and wherever it stops, the request    *)
(* ends with the whole answer or with an error - even against a server     *)
(* that never stops sending lines that say nothing.                        *)
Contract == INSTANCE ModelRequest WITH
    complete <- marks = {"reason", "done"}, answer <- outcome

KeepsPromise == Contract!Promise
=============================================================================
