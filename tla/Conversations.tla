--------------------------- MODULE Conversations ---------------------------
(***************************************************************************)
(* The stored conversations: the dashboard's general ones, which any       *)
(* developer administrator may chat in, and one Mutsu conversation for     *)
(* each administrator, in which one message at a time is being answered.   *)
(* A chat takes two transactions with a call of the model in between; the  *)
(* process may die and the database may fail between and in them.  The     *)
(* row lock each transaction takes makes it one step.                      *)
(***************************************************************************)
EXTENDS Integers, Sequences

CONSTANTS
    General,        \* identifiers of general conversations
    Admin,          \* administrators; each stands for his Mutsu conversation
    Request,        \* chat requests
    MutsuRequest,   \* those of them sent to /mutsu/messages
    TargetOf,       \* request -> the conversation it names or belongs to
    NoRun,          \* no run
    Window,         \* messages that go to the model (32)
    Faults,         \* bound: transactions that fail
    Crashes         \* bound: restarts of the controller

Conversation == General \cup Admin

ASSUME ConversationsAssumption ==
    /\ General \cap Admin = {}
    /\ MutsuRequest \subseteq Request
    /\ TargetOf \in [Request -> Conversation]
    /\ \A r \in MutsuRequest : TargetOf[r] \in Admin
    /\ NoRun \notin Request
    /\ Window \in Nat \ {0}
    /\ Faults \in Nat /\ Crashes \in Nat

VARIABLES
    row,        \* conversation -> its row in ai_conversations
    msgs,       \* conversation -> its ai_messages, by sequence number
    pc,         \* request -> where its handler is
    context,    \* request -> the messages it sends to the model
    reply,      \* request -> what its client is told
    events,     \* request -> what it gave to record_behavior
    hurt,       \* messages to Mutsu whose first or clearing transaction failed
    faults,     \* transactions that may still fail
    crashes     \* restarts still to come

stored == <<row, msgs>>
budget == <<faults, crashes>>
vars == <<stored, pc, context, reply, events, hurt, budget>>

Row == [state : {"absent", "live", "deleted"},
        title : {"new", "first", "named"},
        run   : Request \cup {NoRun}]

Message == [role : {"user", "assistant"}, by : Request]

Question(r) == [role |-> "user", by |-> r]
Answer(r)   == [role |-> "assistant", by |-> r]

InFlight == {"started", "ask", "finish", "recording", "failing", "clearing"}

(* Everything in its domain, and only requests to Mutsu record events.     *)
TypeOK ==
    /\ row \in [Conversation -> Row]
    /\ msgs \in [Conversation -> Seq(Message)]
    /\ pc \in [Request -> InFlight \cup {"idle", "done", "lost"}]
    /\ context \in [Request -> Seq(Message)]
    /\ reply \in [Request -> {"none", "ok", "busy", "missing", "error"}]
    /\ events \in [Request -> SUBSET {"started", "completed", "failed"}]
    /\ \A r \in Request \ MutsuRequest : events[r] = {}
    /\ hurt \subseteq Request
    /\ faults \in 0..Faults /\ crashes \in 0..Crashes

Absent == [state |-> "absent", title |-> "new", run |-> NoRun]

Init ==
    /\ row = [k \in Conversation |-> Absent]
    /\ msgs = [k \in Conversation |-> << >>]
    /\ pc = [r \in Request |-> "idle"]
    /\ context = [r \in Request |-> << >>]
    /\ reply = [r \in Request |-> "none"]
    /\ events = [r \in Request |-> {}]
    /\ hurt = {}
    /\ faults = Faults /\ crashes = Crashes

-----------------------------------------------------------------------------
(* A transaction commits, is refused, or commits although the connection   *)
(* is lost before the controller hears of it.                              *)
Outcome == {"committed"} \cup (IF faults > 0 THEN {"refused", "unheard"} ELSE {})

Spend(out) ==
    /\ faults' = IF out = "committed" THEN faults ELSE faults - 1
    /\ UNCHANGED crashes

Hurt(r, out) == hurt' = IF out = "committed" THEN hurt ELSE hurt \cup {r}

Goto(r, where) == pc' = [pc EXCEPT ![r] = where]

Tell(r, what) == reply' = [reply EXCEPT ![r] = what]

Store(k, newRow, message) ==
    /\ row' = [row EXCEPT ![k] = newRow]
    /\ msgs' = [msgs EXCEPT ![k] = Append(@, message)]

(* The general statements only see live conversations of the general kind. *)
\* Faulty variant: of any kind.
VisibleAnyKind(k) == row[k].state = "live"

Visible(k) == k \in General /\ row[k].state = "live"

\* Faulty variant: the oldest messages.
Oldest(s) == SubSeq(s, 1, IF Len(s) < Window THEN Len(s) ELSE Window)

Recent(s) == SubSeq(s, IF Len(s) < Window THEN 1 ELSE Len(s) - Window + 1, Len(s))

-----------------------------------------------------------------------------
(* Managing conversations.                                                 *)
Create(k) ==
    /\ k \in General /\ row[k].state = "absent"
    /\ \E t \in {"new", "named"} : row' = [row EXCEPT ![k] = [Absent EXCEPT !.state = "live", !.title = t]]
    /\ UNCHANGED <<msgs, pc, context, reply, events, hurt, budget>>

Rename(k) ==
    /\ Visible(k)
    /\ row' = [row EXCEPT ![k].title = "named"]
    /\ UNCHANGED <<msgs, pc, context, reply, events, hurt, budget>>

Delete(k) ==
    /\ Visible(k)
    /\ row' = [row EXCEPT ![k].state = "deleted"]
    /\ UNCHANGED <<msgs, pc, context, reply, events, hurt, budget>>

(* Reading one's Mutsu conversation creates it.                            *)
OpenMutsu(a) ==
    /\ a \in Admin /\ row[a].state = "absent"
    /\ row' = [row EXCEPT ![a].state = "live"]
    /\ UNCHANGED <<msgs, pc, context, reply, events, hurt, budget>>

-----------------------------------------------------------------------------
(* A chat in a general conversation.                                       *)
StartGeneral(r) ==
    LET k == TargetOf[r] IN
    /\ r \notin MutsuRequest /\ pc[r] = "idle"
    /\ \E out \in Outcome :
         /\ Spend(out)
         /\ IF ~ Visible(k) \/ out = "refused"
            THEN UNCHANGED stored
            ELSE Store(k, [row[k] EXCEPT !.title = IF msgs[k] = << >> /\ @ = "new" THEN "first" ELSE @],
                       Question(r))
         /\ IF Visible(k) /\ out = "committed"
            THEN Goto(r, "ask") /\ UNCHANGED reply
            ELSE Goto(r, "done") /\ Tell(r, IF out = "committed" THEN "missing" ELSE "error")
         /\ context' = IF pc'[r] = "ask" THEN [context EXCEPT ![r] = Recent(msgs'[k])] ELSE context
    /\ UNCHANGED <<events, hurt>>

\* Faulty variant: the answer counts as stored whatever the transaction does.
FinishTrusting(r) ==
    LET k == TargetOf[r] IN
    /\ r \notin MutsuRequest /\ pc[r] = "finish"
    /\ \E out \in Outcome :
         /\ Spend(out)
         /\ IF Visible(k) /\ out # "refused" THEN Store(k, row[k], Answer(r)) ELSE UNCHANGED stored
         /\ Tell(r, IF Visible(k) THEN "ok" ELSE "missing")
    /\ Goto(r, "done")
    /\ UNCHANGED <<context, events, hurt>>

FinishGeneral(r) ==
    LET k == TargetOf[r] IN
    /\ r \notin MutsuRequest /\ pc[r] = "finish"
    /\ \E out \in Outcome :
         /\ Spend(out)
         /\ IF Visible(k) /\ out # "refused" THEN Store(k, row[k], Answer(r)) ELSE UNCHANGED stored
         /\ Tell(r, IF out # "committed" THEN "error" ELSE IF Visible(k) THEN "ok" ELSE "missing")
    /\ Goto(r, "done")
    /\ UNCHANGED <<context, events, hurt>>

(* The call of the model; its read timeout makes it end.                   *)
Answered(r) ==
    /\ pc[r] = "ask"
    /\ Goto(r, "finish")
    /\ context' = [context EXCEPT ![r] = << >>]
    /\ UNCHANGED <<stored, reply, events, hurt, budget>>

\* Faulty variant: every request is cleaned up after as if it were Mutsu's.
ModelFailsAlike(r) ==
    /\ pc[r] = "ask"
    /\ Goto(r, "failing") /\ Tell(r, "error")
    /\ context' = [context EXCEPT ![r] = << >>]
    /\ UNCHANGED <<stored, events, hurt, budget>>

ModelFails(r) ==
    /\ pc[r] = "ask"
    /\ Goto(r, IF r \in MutsuRequest THEN "failing" ELSE "done")
    /\ Tell(r, "error")
    /\ context' = [context EXCEPT ![r] = << >>]
    /\ UNCHANGED <<stored, events, hurt, budget>>

-----------------------------------------------------------------------------
(* A message to Mutsu.  Only the run that is noted in the row may answer.  *)
\* Faulty variant: the message is taken although another one is answered.
FreeAlways(a) == row[a].run \in Request \cup {NoRun}

Free(a) == row[a].run = NoRun

StartMutsu(r) ==
    LET a == TargetOf[r] IN
    /\ r \in MutsuRequest /\ pc[r] = "idle"
    /\ \E out \in Outcome :
         /\ Spend(out) /\ Hurt(r, out)
         /\ IF ~ Free(a) \/ out = "refused"
            THEN UNCHANGED stored
            ELSE Store(a, [row[a] EXCEPT !.state = "live", !.run = r], Question(r))
         /\ IF Free(a) /\ out = "committed"
            THEN Goto(r, "started") /\ UNCHANGED reply
            ELSE Goto(r, "done") /\ Tell(r, IF out = "committed" THEN "busy" ELSE "error")
         /\ context' = IF pc'[r] = "started" THEN [context EXCEPT ![r] = Recent(msgs'[a])] ELSE context
    /\ UNCHANGED events

(* The event is stored, or only logged if its store is unavailable: for    *)
(* the handler it makes no difference.                                     *)
Recorded(r, event) == events' = [events EXCEPT ![r] = @ \cup {event}]

(* The history is trimmed to the token budget; a message that does not fit *)
(* by itself is refused.                                                   *)
Prepare(r) ==
    /\ pc[r] = "started"
    /\ Recorded(r, "started")
    /\ \/ /\ \E n \in 1..Len(context[r]) :
               context' = [context EXCEPT ![r] = SubSeq(@, n, Len(@))]
          /\ Goto(r, "ask")
          /\ UNCHANGED reply
       \/ /\ Goto(r, "failing") /\ Tell(r, "error")
          /\ context' = [context EXCEPT ![r] = << >>]
    /\ UNCHANGED <<stored, hurt, budget>>

\* Faulty variant: an answer that cannot be stored is not cleaned up after.
FinishForgets(r) ==
    LET a == TargetOf[r] IN
    /\ r \in MutsuRequest /\ pc[r] = "finish"
    /\ \E out \in Outcome :
         /\ Spend(out)
         /\ IF row[a].run = r /\ out # "refused"
            THEN Store(a, [row[a] EXCEPT !.run = NoRun], Answer(r)) ELSE UNCHANGED stored
         /\ IF row[a].run = r /\ out = "committed"
            THEN Goto(r, "recording") /\ UNCHANGED reply
            ELSE Goto(r, "done") /\ Tell(r, "error")
    /\ UNCHANGED <<context, events, hurt>>

FinishMutsu(r) ==
    LET a == TargetOf[r] IN
    /\ r \in MutsuRequest /\ pc[r] = "finish"
    /\ \E out \in Outcome :
         /\ Spend(out)
         /\ IF row[a].run = r /\ out # "refused"
            THEN Store(a, [row[a] EXCEPT !.run = NoRun], Answer(r))
            ELSE UNCHANGED stored
         /\ IF row[a].run = r /\ out = "committed"
            THEN Goto(r, "recording") /\ UNCHANGED reply
            ELSE Goto(r, "failing") /\ Tell(r, "error")
    /\ UNCHANGED <<context, events, hurt>>

\* Faulty variant: the finally clause also runs after a success.
CompleteThenFail(r) ==
    /\ pc[r] = "recording"
    /\ Recorded(r, "completed")
    /\ Goto(r, "failing") /\ Tell(r, "ok")
    /\ UNCHANGED <<stored, context, hurt, budget>>

Complete(r) ==
    /\ pc[r] = "recording"
    /\ Recorded(r, "completed")
    /\ Goto(r, "done") /\ Tell(r, "ok")
    /\ UNCHANGED <<stored, context, hurt, budget>>

(* The finally clause: the failure is recorded, then the mark cleared.     *)
Fail(r) ==
    /\ pc[r] = "failing"
    /\ Recorded(r, "failed")
    /\ Goto(r, "clearing")
    /\ UNCHANGED <<stored, context, reply, hurt, budget>>

Clear(r) ==
    LET a == TargetOf[r] IN
    /\ pc[r] = "clearing"
    /\ \E out \in Outcome :
         /\ Spend(out) /\ Hurt(r, out)
         /\ row' = IF row[a].run = r /\ out # "refused" THEN [row EXCEPT ![a].run = NoRun] ELSE row
    /\ Goto(r, "done")
    /\ UNCHANGED <<msgs, context, reply, events>>

(* The controller restarts: what it was doing is not taken up again.       *)
Crash ==
    /\ crashes > 0
    /\ crashes' = crashes - 1
    /\ pc' = [r \in Request |-> IF pc[r] \in InFlight THEN "lost" ELSE pc[r]]
    /\ context' = [r \in Request |-> << >>]
    /\ UNCHANGED <<stored, reply, events, hurt, faults>>

-----------------------------------------------------------------------------
Handle(r) ==
    \/ Answered(r) \/ ModelFails(r) \/ FinishGeneral(r)
    \/ Prepare(r) \/ FinishMutsu(r) \/ Complete(r) \/ Fail(r) \/ Clear(r)

Next ==
    \/ \E k \in Conversation : Create(k) \/ Rename(k) \/ Delete(k) \/ OpenMutsu(k)
    \/ \E r \in Request : StartGeneral(r) \/ StartMutsu(r) \/ Handle(r)
    \/ Crash

(* Handlers run to their end; nobody needs to send a request, and nothing  *)
(* is asked of the general ones.                                           *)
Spec == Init /\ [][Next]_vars /\ \A r \in MutsuRequest : WF_vars(Handle(r))

-----------------------------------------------------------------------------
(* Properties.                                                             *)
Mutsu(r) == msgs[TargetOf[r]]

(* In a Mutsu conversation an answer comes right after its question,       *)
(* whatever other requests of the administrator, failures of the database  *)
(* or restarts happen while the model thinks, and nobody else writes.      *)
TurnsDoNotInterleave ==
    \A a \in Admin : \A i \in DOMAIN msgs[a] :
        /\ msgs[a][i].by \in MutsuRequest
        /\ msgs[a][i].role = "assistant" => i > 1 /\ msgs[a][i - 1] = Question(msgs[a][i].by)

(* While a message to Mutsu is being answered its mark stays on the        *)
(* conversation: nobody else's cleaning up and no later message takes it,  *)
(* which would make the answer be thrown away.                             *)
MarkStays ==
    \A r \in MutsuRequest :
        pc[r] \in {"started", "ask", "finish"} => row[TargetOf[r]].run = r

(* A request that was answered is stored with its answer after it; one     *)
(* that was refused has left no trace.                                     *)
RepliesAreStored ==
    \A r \in Request :
        LET log == msgs[TargetOf[r]] IN
        /\ reply[r] = "ok" =>
             \E i, j \in DOMAIN log : i < j /\ log[i] = Question(r) /\ log[j] = Answer(r)
        /\ reply[r] = "busy" => \A i \in DOMAIN log : log[i].by # r

(* The model is asked with the end of the conversation as it was when the  *)
(* question was stored, the question last.                                 *)
ContextEndsWithQuestion ==
    \A r \in Request : pc[r] = "ask" =>
        LET log == msgs[TargetOf[r]] IN
        \E i, n \in DOMAIN log : log[n] = Question(r) /\ context[r] = SubSeq(log, i, n)

(* What is recorded about a message agrees with what happened to it.       *)
EventsAgree ==
    \A r \in MutsuRequest :
        "completed" \in events[r] =>
            /\ "failed" \notin events[r]
            /\ \E i \in DOMAIN Mutsu(r) : Mutsu(r)[i] = Answer(r)

(* Turns are whole, whatever overlaps and whatever fails in between.       *)
TurnsAreWhole ==
    TurnsDoNotInterleave /\ RepliesAreStored /\ ContextEndsWithQuestion /\ EventsAgree

(* A message's mark on the conversation goes away, unless the controller   *)
(* was restarted or the transaction that set or cleared it failed.         *)
MarkGoesAway ==
    \A r \in MutsuRequest :
        row[TargetOf[r]].run = r ~>
            row[TargetOf[r]].run # r \/ pc[r] = "lost" \/ r \in hurt

(* A message is only refused as busy while another one is being answered.  *)
BusyIsTrue ==
    [][\A r \in MutsuRequest : reply[r] # "busy" /\ reply'[r] = "busy" =>
          \E q \in MutsuRequest : TargetOf[q] = TargetOf[r] /\ pc[q] \in InFlight]_vars
=============================================================================
