------------------------ MODULE Conversations_proofs -----------------------
(***************************************************************************)
(* Types, marks and turns of the stored conversations, for any number of   *)
(* conversations, administrators, requests, faults and restarts.           *)
(***************************************************************************)
EXTENDS Conversations, TLAPS

Log(r) == msgs[TargetOf[r]]

Asked(r) == \E i \in DOMAIN Log(r) : Log(r)[i] = Question(r)

Settled(r) == \E i, j \in DOMAIN Log(r) : i < j /\ Log(r)[i] = Question(r) /\ Log(r)[j] = Answer(r)

Traceless(r) == \A i \in DOMAIN Log(r) : Log(r)[i].by # r

Cited(r) == \E i, n \in DOMAIN Log(r) : Log(r)[n] = Question(r) /\ context[r] = SubSeq(Log(r), i, n)

(* Only messages to Mutsu are where only they can be.                      *)
Sorted == \A r \in Request : pc[r] \in {"started", "recording", "failing", "clearing"} => r \in MutsuRequest

(* What a request has left in its conversation, by how far it is.          *)
Story(r) ==
    /\ pc[r] = "idle" => Traceless(r)
    /\ reply[r] = "busy" => pc[r] = "done" /\ Traceless(r)
    /\ pc[r] \in {"started", "ask", "finish"} => Asked(r)
    /\ pc[r] \in {"started", "ask"} => Cited(r)
    /\ pc[r] = "recording" \/ reply[r] = "ok" \/ "completed" \in events[r] => Settled(r)
    /\ "completed" \in events[r] => pc[r] = "done" /\ "failed" \notin events[r]
    /\ "failed" \in events[r] => pc[r] \in {"clearing", "done", "lost"}

(* The message that holds the mark of a conversation is its last.          *)
MarkedLast ==
    \A a \in Admin : row[a].run # NoRun =>
        Len(msgs[a]) > 0 /\ msgs[a][Len(msgs[a])] = Question(row[a].run)

Inv == /\ TypeOK /\ Sorted /\ MarkStays /\ MarkedLast /\ TurnsDoNotInterleave
       /\ \A r \in Request : Story(r)

-----------------------------------------------------------------------------
(* Types.                                                                  *)
LEMMA Targets == \A r \in Request : TargetOf[r] \in Conversation
BY ConversationsAssumption

LEMMA Writings ==
    ASSUME NEW r \in Request
    PROVE  Question(r) \in Message /\ Answer(r) \in Message /\ Question(r) # Answer(r)
BY DEF Question, Answer, Message

LEMMA SpendTyped ==
    ASSUME TypeOK, NEW out \in Outcome, Spend(out)
    PROVE  faults' \in 0..Faults /\ crashes' \in 0..Crashes
BY ConversationsAssumption DEF TypeOK, Outcome, Spend

LEMMA StoreTyped ==
    ASSUME TypeOK, NEW k \in Conversation, NEW newRow \in Row, NEW m \in Message, Store(k, newRow, m)
    PROVE  row' \in [Conversation -> Row] /\ msgs' \in [Conversation -> Seq(Message)]
BY DEF TypeOK, Store

LEMMA RecentTyped ==
    ASSUME NEW s \in Seq(Message)
    PROVE  Recent(s) \in Seq(Message)
BY ConversationsAssumption DEF Recent

LEMMA RowTyped ==
    ASSUME NEW w \in Row, NEW r \in Request \cup {NoRun}
    PROVE  /\ [w EXCEPT !.run = r] \in Row
           /\ \A s \in {"absent", "live", "deleted"} : [w EXCEPT !.state = s] \in Row
           /\ \A s \in {"absent", "live", "deleted"} : [w EXCEPT !.state = s, !.run = r] \in Row
           /\ \A t \in {"new", "first", "named"} : [w EXCEPT !.title = t] \in Row
BY DEF Row

LEMMA NewTyped == Absent \in Row
BY ConversationsAssumption DEF Absent, Row

LEMMA TypeStep == TypeOK /\ Sorted /\ [Next]_vars => TypeOK' /\ Sorted'
<1> SUFFICES ASSUME TypeOK, Sorted, [Next]_vars PROVE TypeOK' /\ Sorted'
  OBVIOUS
<1>0. /\ row \in [Conversation -> Row] /\ msgs \in [Conversation -> Seq(Message)]
      /\ pc \in [Request -> InFlight \cup {"idle", "done", "lost"}]
      /\ context \in [Request -> Seq(Message)]
      /\ reply \in [Request -> {"none", "ok", "busy", "missing", "error"}]
      /\ events \in [Request -> SUBSET {"started", "completed", "failed"}]
      /\ \A r \in Request \ MutsuRequest : events[r] = {}
      /\ hurt \subseteq Request /\ MutsuRequest \subseteq Request
      /\ faults \in 0..Faults /\ crashes \in 0..Crashes
      /\ NoRun \in Request \cup {NoRun}
  BY ConversationsAssumption DEF TypeOK
<1>1. ASSUME NEW k \in Conversation, Create(k) \/ Rename(k) \/ Delete(k) \/ OpenMutsu(k)
      PROVE  TypeOK' /\ Sorted'
  <2>1. row' \in [Conversation -> Row]
    <3>1. CASE Create(k)
      <4>1. \A t \in {"new", "named"} : [Absent EXCEPT !.state = "live", !.title = t] \in Row
        BY ConversationsAssumption DEF Absent, Row
      <4> QED BY <1>0, <3>1, <4>1 DEF Create
    <3>2. CASE Rename(k)
      BY <1>0, <3>2, RowTyped DEF Rename
    <3>3. CASE Delete(k)
      BY <1>0, <3>3, RowTyped DEF Delete
    <3>4. CASE OpenMutsu(k)
      BY <1>0, <3>4, RowTyped DEF OpenMutsu
    <3> QED BY <1>1, <3>1, <3>2, <3>3, <3>4
  <2>2. UNCHANGED <<msgs, pc, context, reply, events, hurt, budget>>
    BY <1>1 DEF Create, Rename, Delete, OpenMutsu
  <2> QED BY <2>1, <2>2 DEF TypeOK, Sorted, budget
<1>2. ASSUME NEW r \in Request, StartGeneral(r) PROVE TypeOK' /\ Sorted'
  <2> DEFINE k == TargetOf[r]
  <2>1. PICK out \in Outcome :
          /\ Spend(out)
          /\ IF ~ Visible(k) \/ out = "refused" THEN UNCHANGED stored
             ELSE Store(k, [row[k] EXCEPT !.title = IF msgs[k] = << >> /\ @ = "new" THEN "first" ELSE @],
                        Question(r))
          /\ IF Visible(k) /\ out = "committed" THEN Goto(r, "ask") /\ UNCHANGED reply
             ELSE Goto(r, "done") /\ Tell(r, IF out = "committed" THEN "missing" ELSE "error")
          /\ context' = IF pc'[r] = "ask" THEN [context EXCEPT ![r] = Recent(msgs'[k])] ELSE context
    BY <1>2 DEF StartGeneral
  <2>2. k \in Conversation /\ row[k] \in Row
    BY <1>0, Targets
  <2>3. row' \in [Conversation -> Row] /\ msgs' \in [Conversation -> Seq(Message)]
    <3>1. [row[k] EXCEPT !.title = IF msgs[k] = << >> /\ @ = "new" THEN "first" ELSE @] \in Row
      BY <2>2 DEF Row
    <3>2. CASE UNCHANGED stored
      BY <1>0, <3>2 DEF stored
    <3>3. CASE ~ UNCHANGED stored
      BY <2>1, <2>2, <3>1, <3>3, StoreTyped, Writings
    <3> QED BY <3>2, <3>3
  <2>4. context' \in [Request -> Seq(Message)]
    BY <1>0, <2>1, <2>2, <2>3, RecentTyped
  <2>5. /\ pc' \in [Request -> InFlight \cup {"idle", "done", "lost"}]
        /\ reply' \in [Request -> {"none", "ok", "busy", "missing", "error"}]
        /\ \A q \in Request : pc'[q] \in {"started", "recording", "failing", "clearing"} => pc'[q] = pc[q]
    BY <1>0, <2>1 DEF Goto, Tell, InFlight
  <2> QED BY <1>0, <1>2, <2>1, <2>3, <2>4, <2>5, SpendTyped DEF TypeOK, Sorted, StartGeneral
<1>3. ASSUME NEW r \in Request, StartMutsu(r) PROVE TypeOK' /\ Sorted'
  <2> DEFINE a == TargetOf[r]
  <2>1. PICK out \in Outcome :
          /\ Spend(out) /\ Hurt(r, out)
          /\ IF ~ Free(a) \/ out = "refused" THEN UNCHANGED stored
             ELSE Store(a, [row[a] EXCEPT !.state = "live", !.run = r], Question(r))
          /\ IF Free(a) /\ out = "committed" THEN Goto(r, "started") /\ UNCHANGED reply
             ELSE Goto(r, "done") /\ Tell(r, IF out = "committed" THEN "busy" ELSE "error")
          /\ context' = IF pc'[r] = "started" THEN [context EXCEPT ![r] = Recent(msgs'[a])] ELSE context
    BY <1>3 DEF StartMutsu
  <2>2. a \in Conversation /\ row[a] \in Row
    BY <1>0, Targets
  <2>3. row' \in [Conversation -> Row] /\ msgs' \in [Conversation -> Seq(Message)]
    <3>1. [row[a] EXCEPT !.state = "live", !.run = r] \in Row
      BY <2>2 DEF Row
    <3>2. CASE UNCHANGED stored
      BY <1>0, <3>2 DEF stored
    <3>3. CASE ~ UNCHANGED stored
      BY <2>1, <2>2, <3>1, <3>3, StoreTyped, Writings
    <3> QED BY <3>2, <3>3
  <2>4. context' \in [Request -> Seq(Message)]
    BY <1>0, <2>1, <2>2, <2>3, RecentTyped
  <2>5. /\ pc' \in [Request -> InFlight \cup {"idle", "done", "lost"}]
        /\ reply' \in [Request -> {"none", "ok", "busy", "missing", "error"}]
        /\ hurt' \subseteq Request
        /\ \A q \in Request \ {r} : pc'[q] = pc[q]
    BY <1>0, <2>1 DEF Goto, Tell, InFlight, Hurt
  <2> QED BY <1>0, <1>3, <2>1, <2>3, <2>4, <2>5, SpendTyped DEF TypeOK, Sorted, StartMutsu
<1>4. ASSUME NEW r \in Request, FinishGeneral(r) PROVE TypeOK' /\ Sorted'
  <2> DEFINE k == TargetOf[r]
  <2>1. PICK out \in Outcome :
          /\ Spend(out)
          /\ IF Visible(k) /\ out # "refused" THEN Store(k, row[k], Answer(r)) ELSE UNCHANGED stored
          /\ Tell(r, IF out # "committed" THEN "error" ELSE IF Visible(k) THEN "ok" ELSE "missing")
    BY <1>4 DEF FinishGeneral
  <2>2. k \in Conversation /\ row[k] \in Row
    BY <1>0, Targets
  <2>3. row' \in [Conversation -> Row] /\ msgs' \in [Conversation -> Seq(Message)]
    <3>2. CASE UNCHANGED stored
      BY <1>0, <3>2 DEF stored
    <3>3. CASE ~ UNCHANGED stored
      BY <2>1, <2>2, <3>3, StoreTyped, Writings
    <3> QED BY <3>2, <3>3
  <2>4. (IF out # "committed" THEN "error" ELSE IF Visible(k) THEN "ok" ELSE "missing")
          \in {"none", "ok", "busy", "missing", "error"}
    OBVIOUS
  <2>5. /\ pc' \in [Request -> InFlight \cup {"idle", "done", "lost"}]
        /\ reply' \in [Request -> {"none", "ok", "busy", "missing", "error"}]
        /\ \A q \in Request : pc'[q] \in {"started", "recording", "failing", "clearing"} => pc'[q] = pc[q]
    BY <1>0, <1>4, <2>1, <2>4 DEF Goto, Tell, InFlight, FinishGeneral
  <2> QED BY <1>0, <1>4, <2>1, <2>3, <2>5, SpendTyped DEF TypeOK, Sorted, FinishGeneral
<1>5. ASSUME NEW r \in Request, FinishMutsu(r) PROVE TypeOK' /\ Sorted'
  <2> DEFINE a == TargetOf[r]
  <2>1. PICK out \in Outcome :
          /\ Spend(out)
          /\ IF row[a].run = r /\ out # "refused" THEN Store(a, [row[a] EXCEPT !.run = NoRun], Answer(r))
             ELSE UNCHANGED stored
          /\ IF row[a].run = r /\ out = "committed" THEN Goto(r, "recording") /\ UNCHANGED reply
             ELSE Goto(r, "failing") /\ Tell(r, "error")
    BY <1>5 DEF FinishMutsu
  <2>2. a \in Conversation /\ row[a] \in Row
    BY <1>0, Targets
  <2>3. row' \in [Conversation -> Row] /\ msgs' \in [Conversation -> Seq(Message)]
    <3>2. CASE UNCHANGED stored
      BY <1>0, <3>2 DEF stored
    <3>3. CASE ~ UNCHANGED stored
      BY <1>0, <2>1, <2>2, <3>3, StoreTyped, Writings, RowTyped
    <3> QED BY <3>2, <3>3
  <2>5. /\ pc' \in [Request -> InFlight \cup {"idle", "done", "lost"}]
        /\ reply' \in [Request -> {"none", "ok", "busy", "missing", "error"}]
        /\ \A q \in Request \ {r} : pc'[q] = pc[q]
    BY <1>0, <2>1 DEF Goto, Tell, InFlight
  <2> QED BY <1>0, <1>5, <2>1, <2>3, <2>5, SpendTyped DEF TypeOK, Sorted, FinishMutsu
<1>6. ASSUME NEW r \in Request, Answered(r) \/ ModelFails(r) PROVE TypeOK' /\ Sorted'
  <2>1. /\ pc' \in [Request -> InFlight \cup {"idle", "done", "lost"}]
        /\ reply' \in [Request -> {"none", "ok", "busy", "missing", "error"}]
        /\ \A q \in Request : pc'[q] \in {"started", "recording", "failing", "clearing"}
                                => pc'[q] = pc[q] \/ q \in MutsuRequest
    BY <1>0, <1>6 DEF Answered, ModelFails, Goto, Tell, InFlight
  <2>2. context' \in [Request -> Seq(Message)]
    <3>1. << >> \in Seq(Message)
      OBVIOUS
    <3>2. context' = [context EXCEPT ![r] = << >>]
      BY <1>6 DEF Answered, ModelFails
    <3> QED BY <1>0, <3>1, <3>2
  <2> QED BY <1>0, <1>6, <2>1, <2>2 DEF TypeOK, Sorted, Answered, ModelFails, stored, budget
<1>7. ASSUME NEW r \in Request, Prepare(r) PROVE TypeOK' /\ Sorted'
  <2>1. /\ pc' \in [Request -> InFlight \cup {"idle", "done", "lost"}]
        /\ reply' \in [Request -> {"none", "ok", "busy", "missing", "error"}]
        /\ \A q \in Request \ {r} : pc'[q] = pc[q]
    BY <1>0, <1>7 DEF Prepare, Goto, Tell, InFlight
  <2>2. context' \in [Request -> Seq(Message)]
    <3>1. << >> \in Seq(Message)
      OBVIOUS
    <3>2. context[r] \in Seq(Message)
      BY <1>0
    <3>3. \A n \in 1..Len(context[r]) : SubSeq(context[r], n, Len(context[r])) \in Seq(Message)
      BY <3>2
    <3>4. \/ \E n \in 1..Len(context[r]) :
                context' = [context EXCEPT ![r] = SubSeq(@, n, Len(@))]
          \/ context' = [context EXCEPT ![r] = << >>]
      BY <1>7 DEF Prepare
    <3> QED BY <1>0, <3>1, <3>3, <3>4
  <2>3. r \in MutsuRequest
    BY <1>7 DEF Prepare, Sorted
  <2> QED BY <1>0, <1>7, <2>1, <2>2, <2>3 DEF TypeOK, Sorted, Prepare, Recorded, stored, budget
<1>8. ASSUME NEW r \in Request, Complete(r) \/ Fail(r) PROVE TypeOK' /\ Sorted'
  <2>1. /\ pc' \in [Request -> InFlight \cup {"idle", "done", "lost"}]
        /\ reply' \in [Request -> {"none", "ok", "busy", "missing", "error"}]
        /\ \A q \in Request \ {r} : pc'[q] = pc[q]
    BY <1>0, <1>8 DEF Complete, Fail, Goto, Tell, InFlight
  <2>3. r \in MutsuRequest
    BY <1>8 DEF Complete, Fail, Sorted
  <2>4. /\ events' \in [Request -> SUBSET {"started", "completed", "failed"}]
        /\ \A q \in Request \ MutsuRequest : events'[q] = {}
    <3>1. \E e \in {"completed", "failed"} : events' = [events EXCEPT ![r] = @ \cup {e}]
      BY <1>8 DEF Complete, Fail, Recorded
    <3> QED BY <1>0, <2>3, <3>1
  <2>5. UNCHANGED <<stored, context, hurt, budget>>
    BY <1>8 DEF Complete, Fail
  <2> QED BY <1>0, <2>1, <2>3, <2>4, <2>5 DEF TypeOK, Sorted, stored, budget
<1>9. ASSUME NEW r \in Request, Clear(r) PROVE TypeOK' /\ Sorted'
  <2>1. PICK out \in Outcome :
          /\ Spend(out) /\ Hurt(r, out)
          /\ row' = IF row[TargetOf[r]].run = r /\ out # "refused"
                    THEN [row EXCEPT ![TargetOf[r]].run = NoRun] ELSE row
    BY <1>9 DEF Clear
  <2>2. row' \in [Conversation -> Row] /\ hurt' \subseteq Request
    BY <1>0, <2>1, Targets, RowTyped DEF Hurt
  <2>3. /\ pc' \in [Request -> InFlight \cup {"idle", "done", "lost"}]
        /\ \A q \in Request : pc'[q] \in {"started", "recording", "failing", "clearing"} => pc'[q] = pc[q]
    BY <1>0, <1>9 DEF Clear, Goto, InFlight
  <2> QED BY <1>0, <1>9, <2>1, <2>2, <2>3, SpendTyped DEF TypeOK, Sorted, Clear
<1>10. CASE Crash
  <2>1. /\ pc' \in [Request -> InFlight \cup {"idle", "done", "lost"}]
        /\ \A q \in Request : pc'[q] \notin {"started", "recording", "failing", "clearing"}
    BY <1>0, <1>10 DEF Crash, InFlight
  <2>2. context' \in [Request -> Seq(Message)] /\ crashes' \in 0..Crashes
    BY <1>0, <1>10, ConversationsAssumption DEF Crash
  <2> QED BY <1>0, <1>10, <2>1, <2>2 DEF TypeOK, Sorted, Crash, stored
<1>11. CASE UNCHANGED vars
  BY <1>11 DEF TypeOK, Sorted, vars, stored, budget
<1> QED
  BY <1>1, <1>2, <1>3, <1>4, <1>5, <1>6, <1>7, <1>8, <1>9, <1>10, <1>11 DEF Next, Handle

-----------------------------------------------------------------------------
(* What a step writes: nothing, or one message of the request that takes   *)
(* it at the end of the conversation it belongs to.                        *)
Writes(r, m) == msgs' = [msgs EXCEPT ![TargetOf[r]] = Append(@, m)]

LEMMA Logs == TypeOK => \A k \in Conversation : msgs[k] \in Seq(Message)
BY DEF TypeOK

LEMMA Ends ==
    ASSUME TypeOK, NEW r \in Request, NEW m \in Message, Writes(r, m)
    PROVE  LET k == TargetOf[r] IN
           /\ k \in Conversation
           /\ \A j \in Conversation \ {k} : msgs'[j] = msgs[j]
           /\ Len(msgs'[k]) = Len(msgs[k]) + 1 /\ Len(msgs[k]) \in Nat
           /\ DOMAIN msgs[k] = 1..Len(msgs[k]) /\ DOMAIN msgs'[k] = 1..(Len(msgs[k]) + 1)
           /\ \A i \in DOMAIN msgs[k] : msgs'[k][i] = msgs[k][i]
           /\ msgs'[k][Len(msgs[k]) + 1] = m
<1> DEFINE k == TargetOf[r]
<1>1. k \in Conversation /\ msgs[k] \in Seq(Message) /\ msgs'[k] = Append(msgs[k], m)
  BY Targets DEF TypeOK, Writes
<1>2. \A j \in Conversation \ {k} : msgs'[j] = msgs[j]
  BY DEF TypeOK, Writes
<1>3. /\ Len(msgs'[k]) = Len(msgs[k]) + 1 /\ Len(msgs[k]) \in Nat
      /\ DOMAIN msgs[k] = 1..Len(msgs[k]) /\ DOMAIN msgs'[k] = 1..(Len(msgs[k]) + 1)
      /\ \A i \in DOMAIN msgs[k] : msgs'[k][i] = msgs[k][i]
      /\ msgs'[k][Len(msgs[k]) + 1] = m
  BY <1>1
<1> QED BY <1>1, <1>2, <1>3

LEMMA SubSeqKept ==
    ASSUME NEW s \in Seq(Message), NEW t \in Seq(Message), Len(s) <= Len(t),
           \A i \in 1..Len(s) : t[i] = s[i],
           NEW i \in 1..Len(s), NEW n \in 1..Len(s)
    PROVE  SubSeq(t, i, n) = SubSeq(s, i, n)
OBVIOUS

LEMMA LogsGrow ==
    ASSUME TypeOK, NEW r \in Request, NEW m \in Message, Writes(r, m), NEW q \in Request
    PROVE  /\ DOMAIN Log(q) = 1..Len(Log(q)) /\ DOMAIN Log(q) \subseteq DOMAIN Log(q)'
           /\ Len(Log(q)) \in Nat /\ Len(Log(q)') \in Nat /\ DOMAIN Log(q)' = 1..Len(Log(q)')
           /\ Log(q) \in Seq(Message)
           /\ Log(q)' \in Seq(Message)
           /\ Len(Log(q)) <= Len(Log(q)')
           /\ \A i \in DOMAIN Log(q) : Log(q)'[i] = Log(q)[i]
           /\ \A i \in DOMAIN Log(q)' \ DOMAIN Log(q) : Log(q)'[i] = m
<1> DEFINE k == TargetOf[r]
<1>1. TargetOf[q] \in Conversation /\ k \in Conversation
  BY Targets
<1>2. msgs[TargetOf[q]] \in Seq(Message) /\ msgs[k] \in Seq(Message) /\ Append(msgs[k], m) \in Seq(Message)
  BY <1>1 DEF TypeOK
<1>3. CASE TargetOf[q] # k
  <2>1. msgs'[TargetOf[q]] = msgs[TargetOf[q]]
    BY <1>1, <1>3, Ends
  <2> QED BY <1>2, <2>1 DEF Log
<1>4. CASE TargetOf[q] = k
  <2>1. msgs'[k] = Append(msgs[k], m)
    BY <1>1 DEF TypeOK, Writes
  <2> QED BY <1>2, <1>4, <2>1 DEF Log
<1> QED BY <1>3, <1>4

(* What requests have left stays, and only the writer leaves more.         *)
LEMMA TracesKept ==
    ASSUME TypeOK, NEW r \in Request, NEW m \in Message, Writes(r, m), NEW q \in Request
    PROVE  /\ Asked(q) => Asked(q)'
           /\ Settled(q) => Settled(q)'
           /\ Cited(q) /\ context'[q] = context[q] => Cited(q)'
           /\ Traceless(q) /\ m.by # q => Traceless(q)'
           /\ q = r /\ m = Question(r) => Asked(r)'
           /\ q = r /\ m = Answer(r) /\ Asked(r) => Settled(r)'
<1> USE LogsGrow
<1>1. Asked(q) => Asked(q)'
  BY DEF Asked, Question
<1>2. Settled(q) => Settled(q)'
  BY DEF Settled, Question, Answer
<1>3. ASSUME Cited(q), context'[q] = context[q] PROVE Cited(q)'
  <2>1. PICK i \in DOMAIN Log(q), n \in DOMAIN Log(q) :
          Log(q)[n] = Question(q) /\ context[q] = SubSeq(Log(q), i, n)
    BY <1>3 DEF Cited
  <2>2. i \in 1..Len(Log(q)) /\ n \in 1..Len(Log(q))
    OBVIOUS
  <2>3. SubSeq(Log(q)', i, n) = SubSeq(Log(q), i, n)
    BY <2>2, SubSeqKept
  <2>4. i \in DOMAIN Log(q)' /\ n \in DOMAIN Log(q)' /\ Log(q)'[n] = Question(q)
    BY <2>1
  <2>5. context'[q] = SubSeq(Log(q)', i, n)
    BY <1>3, <2>1, <2>3
  <2>6. Question(q)' = Question(q)
    BY DEF Question
  <2> QED BY <2>4, <2>5, <2>6 DEF Cited
<1>4. Traceless(q) /\ m.by # q => Traceless(q)'
  BY DEF Traceless
<1>5. Len(Log(r)) + 1 \in DOMAIN Log(r)' /\ Log(r)'[Len(Log(r)) + 1] = m
  BY Ends DEF Log
<1>6. m = Question(r) => Asked(r)'
  BY <1>5 DEF Asked, Question
<1>7. ASSUME m = Answer(r), Asked(r) PROVE Settled(r)'
  <2>1. PICK i \in DOMAIN Log(r) : Log(r)[i] = Question(r)
    BY <1>7 DEF Asked
  <2>2. i \in DOMAIN Log(r)' /\ Log(r)'[i] = Question(r) /\ i < Len(Log(r)) + 1
    BY <2>1
  <2> QED BY <1>5, <1>7, <2>2 DEF Settled, Question, Answer
<1> QED BY <1>1, <1>2, <1>3, <1>4, <1>6, <1>7

(* A step of one request leaves the story of another as it is.             *)
LEMMA OthersKept ==
    ASSUME TypeOK, NEW r \in Request, NEW q \in Request \ {r}, Story(q),
           UNCHANGED msgs \/ \E m \in {Question(r), Answer(r)} : Writes(r, m),
           pc'[q] = pc[q], context'[q] = context[q], reply'[q] = reply[q], events'[q] = events[q]
    PROVE  Story(q)'
<1>1. /\ Asked(q) => Asked(q)'
      /\ Settled(q) => Settled(q)'
      /\ Cited(q) => Cited(q)'
      /\ Traceless(q) => Traceless(q)'
  <2>1. CASE UNCHANGED msgs
    BY <2>1 DEF Asked, Settled, Cited, Traceless, Log, Question, Answer
  <2>2. CASE \E m \in {Question(r), Answer(r)} : Writes(r, m)
    <3>1. PICK m \in {Question(r), Answer(r)} : Writes(r, m)
      BY <2>2
    <3>2. m \in Message /\ m.by # q
      BY Writings DEF Question, Answer
    <3> QED BY <3>1, <3>2, TracesKept
  <2> QED BY <2>1, <2>2
<1> QED BY <1>1 DEF Story

-----------------------------------------------------------------------------
(* What a step of one request may change.                                  *)
Acts(r) == StartGeneral(r) \/ StartMutsu(r) \/ Handle(r)

LEMMA Alone ==
    ASSUME TypeOK, NEW r \in Request, Acts(r), NEW q \in Request \ {r}
    PROVE  pc'[q] = pc[q] /\ context'[q] = context[q] /\ reply'[q] = reply[q] /\ events'[q] = events[q]
<1>0. /\ pc \in [Request -> InFlight \cup {"idle", "done", "lost"}]
      /\ context \in [Request -> Seq(Message)]
      /\ reply \in [Request -> {"none", "ok", "busy", "missing", "error"}]
      /\ events \in [Request -> SUBSET {"started", "completed", "failed"}]
  BY DEF TypeOK
<1>1. CASE StartGeneral(r)
  BY <1>0, <1>1 DEF StartGeneral, Goto, Tell
<1>2. CASE StartMutsu(r)
  BY <1>0, <1>2 DEF StartMutsu, Goto, Tell
<1>3. CASE FinishGeneral(r)
  BY <1>0, <1>3 DEF FinishGeneral, Goto, Tell
<1>4. CASE FinishMutsu(r)
  BY <1>0, <1>4 DEF FinishMutsu, Goto, Tell
<1>5. CASE Answered(r) \/ ModelFails(r)
  BY <1>0, <1>5 DEF Answered, ModelFails, Goto, Tell
<1>6. CASE Prepare(r)
  BY <1>0, <1>6 DEF Prepare, Recorded, Goto, Tell
<1>7. CASE Complete(r) \/ Fail(r) \/ Clear(r)
  BY <1>0, <1>7 DEF Complete, Fail, Clear, Recorded, Goto, Tell
<1> QED BY <1>1, <1>2, <1>3, <1>4, <1>5, <1>6, <1>7 DEF Acts, Handle

(* What it does to the conversation it belongs to.                         *)
Touch(r) ==
    LET k == TargetOf[r] IN
    /\ \A j \in Conversation \ {k} : row'[j] = row[j] /\ msgs'[j] = msgs[j]
    /\ \/ UNCHANGED msgs /\ row'[k].run = row[k].run
       \/ /\ k \in General /\ row'[k].run = row[k].run
          /\ \E m \in {Question(r), Answer(r)} : Writes(r, m)
       \/ /\ r \in MutsuRequest /\ pc[r] = "idle"
          /\ row[k].run = NoRun /\ row'[k].run = r /\ Writes(r, Question(r))
       \/ /\ r \in MutsuRequest /\ pc[r] = "finish"
          /\ row[k].run = r /\ row'[k].run = NoRun /\ Writes(r, Answer(r))
       \/ /\ pc[r] = "clearing"
          /\ row[k].run = r /\ row'[k].run = NoRun /\ UNCHANGED msgs
    /\ r \in MutsuRequest /\ pc'[r] \in {"started", "ask", "finish"} =>
         pc[r] \in {"started", "ask"} \/ row'[k].run = r

LEMMA Touches == ASSUME TypeOK, NEW r \in Request, Acts(r) PROVE Touch(r)
<1> DEFINE k == TargetOf[r]
<1>0. /\ k \in Conversation /\ row \in [Conversation -> Row] /\ row[k] \in Row
      /\ msgs \in [Conversation -> Seq(Message)]
      /\ pc \in [Request -> InFlight \cup {"idle", "done", "lost"}]
  BY Targets DEF TypeOK
<1>1. CASE StartGeneral(r)
  <2>1. PICK out \in Outcome :
          IF ~ Visible(k) \/ out = "refused" THEN UNCHANGED stored
          ELSE Store(k, [row[k] EXCEPT !.title = IF msgs[k] = << >> /\ @ = "new" THEN "first" ELSE @],
                     Question(r))
    BY <1>1 DEF StartGeneral
  <2>2. r \notin MutsuRequest
    BY <1>1 DEF StartGeneral
  <2>3. CASE UNCHANGED stored
    BY <2>2, <2>3 DEF Touch, stored
  <2>4. CASE ~ UNCHANGED stored
    <3>1. k \in General
      BY <2>1, <2>4 DEF Visible
    <3>2. PICK w \in Row : w.run = row[k].run /\ Store(k, w, Question(r))
      <4>1. [row[k] EXCEPT !.title = IF msgs[k] = << >> /\ @ = "new" THEN "first" ELSE @] \in Row
        BY <1>0 DEF Row
      <4>2. [row[k] EXCEPT !.title = IF msgs[k] = << >> /\ @ = "new" THEN "first" ELSE @].run = row[k].run
        BY <1>0 DEF Row
      <4> QED BY <2>1, <2>4, <4>1, <4>2
    <3> QED BY <1>0, <2>2, <3>1, <3>2 DEF Touch, Store, Writes
  <2> QED BY <2>3, <2>4
<1>2. CASE StartMutsu(r)
  <2>1. PICK out \in Outcome :
          /\ IF ~ Free(k) \/ out = "refused" THEN UNCHANGED stored
             ELSE Store(k, [row[k] EXCEPT !.state = "live", !.run = r], Question(r))
          /\ IF Free(k) /\ out = "committed" THEN Goto(r, "started") ELSE Goto(r, "done")
    BY <1>2 DEF StartMutsu
  <2>2. r \in MutsuRequest /\ pc[r] = "idle"
    BY <1>2 DEF StartMutsu
  <2>3. CASE ~ Free(k) \/ out = "refused"
    <3>1. pc'[r] = "done"
      BY <1>0, <2>1, <2>3 DEF Goto
    <3> QED BY <2>1, <2>3, <3>1 DEF Touch, stored
  <2>4. CASE Free(k) /\ out # "refused"
    <3>1. [row[k] EXCEPT !.state = "live", !.run = r].run = r
      BY <1>0 DEF Row
    <3>2. row[k].run = NoRun
      BY <2>4 DEF Free
    <3>3. row' = [row EXCEPT ![k] = [row[k] EXCEPT !.state = "live", !.run = r]] /\ Writes(r, Question(r))
      BY <2>1, <2>4 DEF Store, Writes
    <3>4. row'[k].run = r /\ \A j \in Conversation \ {k} : row'[j] = row[j] /\ msgs'[j] = msgs[j]
      BY <1>0, <3>1, <3>3 DEF Writes
    <3> QED BY <2>2, <3>2, <3>3, <3>4 DEF Touch
  <2> QED BY <2>3, <2>4
<1>3. CASE FinishGeneral(r)
  <2>1. PICK out \in Outcome :
          IF Visible(k) /\ out # "refused" THEN Store(k, row[k], Answer(r)) ELSE UNCHANGED stored
    BY <1>3 DEF FinishGeneral
  <2>2. r \notin MutsuRequest
    BY <1>3 DEF FinishGeneral
  <2>3. CASE UNCHANGED stored
    BY <2>2, <2>3 DEF Touch, stored
  <2>4. CASE ~ UNCHANGED stored
    BY <1>0, <2>1, <2>2, <2>4 DEF Touch, Store, Writes, Visible
  <2> QED BY <2>3, <2>4
<1>4. CASE FinishMutsu(r)
  <2>1. PICK out \in Outcome :
          /\ IF row[k].run = r /\ out # "refused" THEN Store(k, [row[k] EXCEPT !.run = NoRun], Answer(r))
             ELSE UNCHANGED stored
          /\ Goto(r, "recording") \/ Goto(r, "failing")
    BY <1>4 DEF FinishMutsu
  <2>2. r \in MutsuRequest /\ pc[r] = "finish" /\ pc'[r] \in {"recording", "failing"}
    BY <1>0, <1>4, <2>1 DEF FinishMutsu, Goto
  <2>3. CASE UNCHANGED stored
    BY <2>2, <2>3 DEF Touch, stored
  <2>4. CASE ~ UNCHANGED stored
    <3>1. [row[k] EXCEPT !.run = NoRun].run = NoRun
      BY <1>0 DEF Row
    <3>2. row[k].run = r /\ row' = [row EXCEPT ![k] = [row[k] EXCEPT !.run = NoRun]] /\ Writes(r, Answer(r))
      BY <2>1, <2>4 DEF Store, Writes
    <3>3. row'[k].run = NoRun /\ \A j \in Conversation \ {k} : row'[j] = row[j] /\ msgs'[j] = msgs[j]
      BY <1>0, <3>1, <3>2 DEF Writes
    <3> QED BY <2>2, <3>2, <3>3 DEF Touch
  <2> QED BY <2>3, <2>4
<1>5. CASE Answered(r) \/ ModelFails(r) \/ Prepare(r) \/ Complete(r) \/ Fail(r)
  <2>1. UNCHANGED stored
    BY <1>5 DEF Answered, ModelFails, Prepare, Complete, Fail
  <2>2. pc'[r] \in {"started", "ask", "finish"} => pc[r] \in {"started", "ask"}
    BY <1>0, <1>5 DEF Answered, ModelFails, Prepare, Complete, Fail, Goto
  <2> QED BY <2>1, <2>2 DEF Touch, stored
<1>6. CASE Clear(r)
  <2>1. pc[r] = "clearing" /\ pc'[r] = "done" /\ UNCHANGED msgs
    BY <1>0, <1>6 DEF Clear, Goto
  <2>2. row' = row \/ (row[k].run = r /\ row' = [row EXCEPT ![k].run = NoRun])
    BY <1>6 DEF Clear
  <2>3. CASE row' = row
    BY <2>1, <2>3 DEF Touch
  <2>4. CASE row[k].run = r /\ row' = [row EXCEPT ![k].run = NoRun]
    <3>1. row'[k].run = NoRun /\ \A j \in Conversation \ {k} : row'[j] = row[j]
      BY <1>0, <2>4 DEF Row
    <3> QED BY <2>1, <2>4, <3>1 DEF Touch
  <2> QED BY <2>2, <2>3, <2>4
<1> QED BY <1>1, <1>2, <1>3, <1>4, <1>5, <1>6 DEF Acts, Handle

-----------------------------------------------------------------------------
(* Marks and turns.                                                        *)
LEMMA MarksActed ==
    ASSUME Inv, NEW r \in Request, Touch(r),
           \A q \in Request \ {r} : pc'[q] = pc[q]
    PROVE  MarkStays' /\ MarkedLast' /\ TurnsDoNotInterleave'
<1> DEFINE k == TargetOf[r]
<1>0. /\ TypeOK /\ MarkStays /\ MarkedLast /\ TurnsDoNotInterleave
      /\ k \in Conversation /\ r # NoRun /\ Admin \cap General = {} /\ Admin \subseteq Conversation
      /\ MutsuRequest \subseteq Request
      /\ \A q \in Request : TargetOf[q] \in Conversation
  BY Targets, ConversationsAssumption DEF Inv, Conversation
<1>1. \A j \in Conversation \ {k} : row'[j] = row[j] /\ msgs'[j] = msgs[j]
  BY DEF Touch
<1>2. MarkStays'
  <2> SUFFICES ASSUME NEW q \in MutsuRequest, pc'[q] \in {"started", "ask", "finish"}
               PROVE  row'[TargetOf[q]].run = q
    BY DEF MarkStays
  <2>1. CASE q = r
    <3>1. CASE pc[r] \in {"started", "ask"}
      <4>1. row[k].run = r
        BY <1>0, <2>1, <3>1 DEF MarkStays
      <4>2. row'[k].run = row[k].run
        BY <3>1 DEF Touch
      <4> QED BY <2>1, <4>1, <4>2
    <3> QED BY <2>1, <3>1 DEF Touch
  <2>2. CASE q # r
    <3>1. q \in Request /\ pc[q] = pc'[q]
      BY <1>0, <2>2
    <3>2. row[TargetOf[q]].run = q /\ q # NoRun
      BY <1>0, <3>1, ConversationsAssumption DEF MarkStays
    <3>3. CASE TargetOf[q] # k
      BY <1>0, <1>1, <3>1, <3>2, <3>3
    <3>4. CASE TargetOf[q] = k
      BY <2>2, <3>2, <3>4 DEF Touch
    <3> QED BY <3>3, <3>4
  <2> QED BY <2>1, <2>2
<1>3. ASSUME NEW a \in Admin
      PROVE  /\ row'[a].run # NoRun =>
                  Len(msgs'[a]) > 0 /\ msgs'[a][Len(msgs'[a])] = Question(row'[a].run)
             /\ \A i \in DOMAIN msgs'[a] :
                  /\ msgs'[a][i].by \in MutsuRequest
                  /\ msgs'[a][i].role = "assistant" =>
                       i > 1 /\ msgs'[a][i - 1] = Question(msgs'[a][i].by)
  <2>1. /\ row[a].run # NoRun => Len(msgs[a]) > 0 /\ msgs[a][Len(msgs[a])] = Question(row[a].run)
        /\ \A i \in DOMAIN msgs[a] :
             /\ msgs[a][i].by \in MutsuRequest
             /\ msgs[a][i].role = "assistant" => i > 1 /\ msgs[a][i - 1] = Question(msgs[a][i].by)
    BY <1>0 DEF MarkedLast, TurnsDoNotInterleave
  <2>2. CASE a # k \/ (UNCHANGED msgs /\ row'[k].run = row[k].run)
    <3>1. msgs'[a] = msgs[a] /\ row'[a].run = row[a].run
      BY <1>0, <1>1, <2>2
    <3> QED BY <2>1, <3>1
  <2>3. CASE a = k /\ r \in MutsuRequest /\ row'[k].run = r /\ Writes(r, Question(r))
    <3>1. Question(r) \in Message /\ Question(r).role = "user" /\ Question(r).by = r
      BY Writings DEF Question
    <3>2. /\ Len(msgs'[k]) = Len(msgs[k]) + 1 /\ Len(msgs[k]) \in Nat
          /\ DOMAIN msgs[k] = 1..Len(msgs[k]) /\ DOMAIN msgs'[k] = 1..(Len(msgs[k]) + 1)
          /\ \A i \in DOMAIN msgs[k] : msgs'[k][i] = msgs[k][i]
          /\ msgs'[k][Len(msgs[k]) + 1] = Question(r)
      BY <1>0, <2>3, <3>1, Ends
    <3>3. ASSUME NEW i \in DOMAIN msgs'[k]
          PROVE  /\ msgs'[k][i].by \in MutsuRequest
                 /\ msgs'[k][i].role = "assistant" => i > 1 /\ msgs'[k][i - 1] = Question(msgs'[k][i].by)
      <4>1. CASE i = Len(msgs[k]) + 1
        BY <2>3, <3>1, <3>2, <4>1
      <4>2. CASE i \in DOMAIN msgs[k]
        <5>1. msgs'[k][i] = msgs[k][i]
          BY <3>2, <4>2
        <5>2. i > 1 => i - 1 \in DOMAIN msgs[k] /\ msgs'[k][i - 1] = msgs[k][i - 1]
          BY <3>2, <4>2
        <5> QED BY <2>1, <2>3, <4>2, <5>1, <5>2
      <4> QED BY <3>2, <4>1, <4>2
    <3>4. Len(msgs'[k]) > 0 /\ msgs'[k][Len(msgs'[k])] = Question(row'[k].run)
      BY <2>3, <3>2
    <3> QED BY <2>3, <3>3, <3>4
  <2>4. CASE a = k /\ r \in MutsuRequest /\ row[k].run = r /\ row'[k].run = NoRun /\ Writes(r, Answer(r))
    <3>1. Answer(r) \in Message /\ Answer(r).role = "assistant" /\ Answer(r).by = r
      BY Writings DEF Answer
    <3>2. /\ Len(msgs'[k]) = Len(msgs[k]) + 1 /\ Len(msgs[k]) \in Nat
          /\ DOMAIN msgs[k] = 1..Len(msgs[k]) /\ DOMAIN msgs'[k] = 1..(Len(msgs[k]) + 1)
          /\ \A i \in DOMAIN msgs[k] : msgs'[k][i] = msgs[k][i]
          /\ msgs'[k][Len(msgs[k]) + 1] = Answer(r)
      BY <1>0, <2>4, <3>1, Ends
    <3>3. Len(msgs[k]) > 0 /\ msgs[k][Len(msgs[k])] = Question(r)
      BY <1>0, <2>1, <2>4
    <3>4. ASSUME NEW i \in DOMAIN msgs'[k]
          PROVE  /\ msgs'[k][i].by \in MutsuRequest
                 /\ msgs'[k][i].role = "assistant" => i > 1 /\ msgs'[k][i - 1] = Question(msgs'[k][i].by)
      <4>1. CASE i = Len(msgs[k]) + 1
        <5>1. i - 1 = Len(msgs[k]) /\ Len(msgs[k]) \in DOMAIN msgs[k] /\ i > 1
          BY <3>2, <3>3, <4>1
        <5>2. msgs'[k][i - 1] = Question(r)
          BY <3>2, <3>3, <5>1
        <5>3. msgs'[k][i] = Answer(r)
          BY <3>2, <4>1
        <5> QED BY <2>4, <3>1, <5>1, <5>2, <5>3
      <4>2. CASE i \in DOMAIN msgs[k]
        <5>1. msgs'[k][i] = msgs[k][i]
          BY <3>2, <4>2
        <5>2. i > 1 => i - 1 \in DOMAIN msgs[k] /\ msgs'[k][i - 1] = msgs[k][i - 1]
          BY <3>2, <4>2
        <5> QED BY <2>1, <2>4, <4>2, <5>1, <5>2
      <4> QED BY <3>2, <4>1, <4>2
    <3> QED BY <2>4, <3>4
  <2>5. CASE a = k /\ row'[k].run = NoRun /\ UNCHANGED msgs
    BY <2>1, <2>5
  <2> QED BY <1>0, <2>2, <2>3, <2>4, <2>5 DEF Touch
<1>4. MarkedLast'
  BY <1>3 DEF MarkedLast, Question
<1>5. TurnsDoNotInterleave'
  BY <1>3 DEF TurnsDoNotInterleave, Question
<1> QED BY <1>2, <1>4, <1>5

-----------------------------------------------------------------------------
(* The story of the request that takes the step.                           *)
LEMMA Recollects ==
    ASSUME TypeOK, NEW r \in Request, Writes(r, Question(r)), context'[r] = Recent(msgs'[TargetOf[r]])
    PROVE  Asked(r)' /\ Cited(r)'
<1>1. Asked(r)'
  BY Writings, TracesKept
<1>2. /\ Len(Log(r)) \in Nat /\ Len(Log(r)') = Len(Log(r)) + 1
      /\ DOMAIN Log(r)' = 1..(Len(Log(r)) + 1)
      /\ Log(r)'[Len(Log(r)) + 1] = Question(r)
  BY Ends, Writings DEF Log
<1> DEFINE first == IF Len(Log(r)') < Window THEN 1 ELSE Len(Log(r)') - Window + 1
<1>3. first \in DOMAIN Log(r)'
  BY <1>2, ConversationsAssumption
<1>4. context'[r] = SubSeq(Log(r)', first, Len(Log(r)'))
  BY DEF Recent, Log
<1>5. Question(r)' = Question(r)
  BY DEF Question
<1>6. Len(Log(r)') \in DOMAIN Log(r)' /\ Log(r)'[Len(Log(r)')] = Question(r)
  BY <1>2
<1> HIDE DEF first
<1> QED BY <1>1, <1>3, <1>4, <1>5, <1>6 DEF Cited

LEMMA CutOfCut ==
    ASSUME NEW s \in Seq(Message), NEW i \in 1..Len(s), NEW n \in 1..Len(s),
           NEW j \in 1..Len(SubSeq(s, i, n))
    PROVE  /\ SubSeq(SubSeq(s, i, n), j, Len(SubSeq(s, i, n))) = SubSeq(s, i + j - 1, n)
           /\ i + j - 1 \in 1..Len(s)
<1> DEFINE c == SubSeq(s, i, n)
<1>1. Len(c) = IF i <= n THEN n - i + 1 ELSE 0
  OBVIOUS
<1>2. i <= n /\ Len(c) = n - i + 1 /\ i + j - 1 <= n
  BY <1>1
<1> QED BY <1>2

LEMMA Remains ==
    ASSUME UNCHANGED msgs, NEW q \in Request
    PROVE  /\ Asked(q)' = Asked(q) /\ Settled(q)' = Settled(q) /\ Traceless(q)' = Traceless(q)
           /\ context'[q] = context[q] => Cited(q)' = Cited(q)
BY DEF Asked, Settled, Traceless, Cited, Log, Question, Answer

LEMMA OwnStory == ASSUME Inv, NEW r \in Request, Acts(r) PROVE Story(r)'
<1> DEFINE k == TargetOf[r]
<1>0. /\ TypeOK /\ Sorted /\ Story(r) /\ MutsuRequest \subseteq Request
      /\ k \in Conversation
      /\ msgs[k] \in Seq(Message)
      /\ pc \in [Request -> InFlight \cup {"idle", "done", "lost"}]
      /\ context \in [Request -> Seq(Message)]
      /\ reply \in [Request -> {"none", "ok", "busy", "missing", "error"}]
      /\ events \in [Request -> SUBSET {"started", "completed", "failed"}]
      /\ r \notin MutsuRequest => events[r] = {}
  BY Targets, ConversationsAssumption DEF Inv, TypeOK
<1>1. CASE StartGeneral(r)
  <2>1. PICK out \in Outcome :
          /\ IF ~ Visible(k) \/ out = "refused" THEN UNCHANGED stored
             ELSE Store(k, [row[k] EXCEPT !.title = IF msgs[k] = << >> /\ @ = "new" THEN "first" ELSE @],
                        Question(r))
          /\ IF Visible(k) /\ out = "committed" THEN Goto(r, "ask") /\ UNCHANGED reply
             ELSE Goto(r, "done") /\ Tell(r, IF out = "committed" THEN "missing" ELSE "error")
          /\ context' = IF pc'[r] = "ask" THEN [context EXCEPT ![r] = Recent(msgs'[k])] ELSE context
    BY <1>1 DEF StartGeneral
  <2>2. r \notin MutsuRequest /\ pc[r] = "idle" /\ events'[r] = {}
    BY <1>0, <1>1 DEF StartGeneral
  <2>3. CASE Visible(k) /\ out = "committed"
    <3>1. /\ Writes(r, Question(r)) /\ pc'[r] = "ask" /\ reply'[r] = reply[r]
          /\ context'[r] = Recent(msgs'[k])
      BY <1>0, <2>1, <2>3 DEF Store, Writes, Goto
    <3>2. Asked(r)' /\ Cited(r)' /\ (Settled(r) => Settled(r)')
      BY <1>0, <3>1, Recollects, TracesKept, Writings
    <3> QED BY <1>0, <2>2, <3>1, <3>2 DEF Story
  <2>4. CASE ~ (Visible(k) /\ out = "committed")
    <3>1. pc'[r] = "done" /\ reply'[r] \in {"missing", "error"}
      BY <1>0, <2>1, <2>4 DEF Goto, Tell
    <3> QED BY <2>2, <3>1 DEF Story
  <2> QED BY <2>3, <2>4
<1>2. CASE StartMutsu(r)
  <2>1. PICK out \in Outcome :
          /\ IF ~ Free(k) \/ out = "refused" THEN UNCHANGED stored
             ELSE Store(k, [row[k] EXCEPT !.state = "live", !.run = r], Question(r))
          /\ IF Free(k) /\ out = "committed" THEN Goto(r, "started") /\ UNCHANGED reply
             ELSE Goto(r, "done") /\ Tell(r, IF out = "committed" THEN "busy" ELSE "error")
          /\ context' = IF pc'[r] = "started" THEN [context EXCEPT ![r] = Recent(msgs'[k])] ELSE context
    BY <1>2 DEF StartMutsu
  <2>2. pc[r] = "idle" /\ events'[r] = events[r]
    BY <1>0, <1>2 DEF StartMutsu
  <2>3. "completed" \notin events'[r] /\ "failed" \notin events'[r]
    BY <1>0, <2>2 DEF Story
  <2>4. CASE Free(k) /\ out = "committed"
    <3>1. /\ Writes(r, Question(r)) /\ pc'[r] = "started" /\ reply'[r] = reply[r]
          /\ context'[r] = Recent(msgs'[k])
      BY <1>0, <2>1, <2>4 DEF Store, Writes, Goto
    <3>2. Asked(r)' /\ Cited(r)' /\ (Settled(r) => Settled(r)')
      BY <1>0, <3>1, Recollects, TracesKept, Writings
    <3> QED BY <1>0, <2>2, <2>3, <3>1, <3>2 DEF Story
  <2>5. CASE Free(k) /\ out # "committed"
    <3>1. pc'[r] = "done" /\ reply'[r] = "error"
      BY <1>0, <2>1, <2>5 DEF Goto, Tell
    <3> QED BY <2>3, <3>1 DEF Story
  <2>6. CASE ~ Free(k)
    <3>1. pc'[r] = "done" /\ reply'[r] \in {"busy", "error"} /\ UNCHANGED msgs
      BY <1>0, <2>1, <2>6 DEF Goto, Tell, stored
    <3>2. Traceless(r)'
      BY <1>0, <2>2, <3>1, Remains DEF Story
    <3> QED BY <2>3, <3>1, <3>2 DEF Story
  <2> QED BY <2>4, <2>5, <2>6
<1>3. CASE FinishGeneral(r)
  <2>1. PICK out \in Outcome :
          /\ IF Visible(k) /\ out # "refused" THEN Store(k, row[k], Answer(r)) ELSE UNCHANGED stored
          /\ Tell(r, IF out # "committed" THEN "error" ELSE IF Visible(k) THEN "ok" ELSE "missing")
    BY <1>3 DEF FinishGeneral
  <2>2. r \notin MutsuRequest /\ pc[r] = "finish" /\ pc'[r] = "done" /\ events'[r] = {}
    BY <1>0, <1>3 DEF FinishGeneral, Goto
  <2>3. CASE Visible(k) /\ out = "committed"
    <3>1. Writes(r, Answer(r)) /\ reply'[r] = "ok"
      BY <1>0, <2>1, <2>3 DEF Store, Writes, Tell
    <3>2. Settled(r)'
      BY <1>0, <2>2, <3>1, TracesKept, Writings DEF Story
    <3> QED BY <2>2, <3>1, <3>2 DEF Story
  <2>4. CASE ~ (Visible(k) /\ out = "committed")
    <3>1. Tell(r, "error") \/ Tell(r, "missing")
      <4>1. CASE out # "committed"
        BY <2>1, <4>1
      <4>2. CASE out = "committed" /\ ~ Visible(k)
        BY <2>1, <4>2
      <4> QED BY <2>4, <4>1, <4>2
    <3>2. reply'[r] \in {"missing", "error"}
      BY <1>0, <3>1 DEF Tell
    <3> QED BY <2>2, <3>2 DEF Story
  <2> QED BY <2>3, <2>4
<1>4. CASE FinishMutsu(r)
  <2>1. PICK out \in Outcome :
          /\ IF row[k].run = r /\ out # "refused" THEN Store(k, [row[k] EXCEPT !.run = NoRun], Answer(r))
             ELSE UNCHANGED stored
          /\ IF row[k].run = r /\ out = "committed" THEN Goto(r, "recording") /\ UNCHANGED reply
             ELSE Goto(r, "failing") /\ Tell(r, "error")
    BY <1>4 DEF FinishMutsu
  <2>2. pc[r] = "finish" /\ events'[r] = events[r]
    BY <1>0, <1>4 DEF FinishMutsu
  <2>3. "completed" \notin events'[r] /\ "failed" \notin events'[r] /\ reply[r] # "busy"
    BY <1>0, <2>2 DEF Story
  <2>4. CASE row[k].run = r /\ out = "committed"
    <3>1. Writes(r, Answer(r)) /\ reply'[r] = reply[r] /\ pc'[r] = "recording"
      BY <1>0, <2>1, <2>4 DEF Store, Writes, Goto
    <3>2. Settled(r)'
      BY <1>0, <2>2, <3>1, TracesKept, Writings DEF Story
    <3> QED BY <2>3, <3>1, <3>2 DEF Story
  <2>5. CASE ~ (row[k].run = r /\ out = "committed")
    <3>1. reply'[r] = "error" /\ pc'[r] = "failing"
      BY <1>0, <2>1, <2>5 DEF Tell, Goto
    <3> QED BY <2>3, <3>1 DEF Story
  <2> QED BY <2>4, <2>5
<1>5. CASE Answered(r) \/ ModelFails(r)
  <2>1. /\ UNCHANGED msgs /\ pc[r] = "ask" /\ events'[r] = events[r]
        /\ (pc'[r] = "finish" /\ reply'[r] = reply[r]) \/ (pc'[r] \in {"failing", "done"} /\ reply'[r] = "error")
    BY <1>0, <1>5 DEF Answered, ModelFails, Goto, Tell, stored
  <2>2. "completed" \notin events'[r] /\ "failed" \notin events'[r] /\ reply[r] # "busy"
    BY <1>0, <2>1 DEF Story
  <2>3. Asked(r)' /\ (Settled(r) => Settled(r)')
    BY <1>0, <2>1, Remains DEF Story
  <2> QED BY <1>0, <2>1, <2>2, <2>3 DEF Story
<1>6. CASE Prepare(r)
  <2>1. UNCHANGED msgs /\ pc[r] = "started" /\ events'[r] = events[r] \cup {"started"}
    BY <1>0, <1>6 DEF Prepare, Recorded, stored
  <2>2. "completed" \notin events'[r] /\ "failed" \notin events'[r] /\ reply[r] # "busy"
    BY <1>0, <2>1 DEF Story
  <2>3. Asked(r) /\ Cited(r) /\ Asked(r)' /\ (Settled(r) => Settled(r)')
    BY <1>0, <2>1, Remains DEF Story
  <2>4. CASE \E n \in 1..Len(context[r]) :
                /\ context' = [context EXCEPT ![r] = SubSeq(@, n, Len(@))]
                /\ Goto(r, "ask") /\ UNCHANGED reply
    <3>1. PICK n \in 1..Len(context[r]) :
             /\ context' = [context EXCEPT ![r] = SubSeq(@, n, Len(@))]
             /\ Goto(r, "ask") /\ UNCHANGED reply
      BY <2>4
    <3>2. PICK i \in DOMAIN Log(r), e \in DOMAIN Log(r) :
             Log(r)[e] = Question(r) /\ context[r] = SubSeq(Log(r), i, e)
      BY <2>3 DEF Cited
    <3>3. Log(r) \in Seq(Message) /\ DOMAIN Log(r) = 1..Len(Log(r))
      BY <1>0 DEF Log
    <3>4. context'[r] = SubSeq(context[r], n, Len(context[r]))
      BY <1>0, <3>1
    <3>5. context'[r] = SubSeq(Log(r), i + n - 1, e) /\ i + n - 1 \in DOMAIN Log(r)
      <4>1. i \in 1..Len(Log(r)) /\ e \in 1..Len(Log(r)) /\ n \in 1..Len(SubSeq(Log(r), i, e))
        BY <3>2, <3>3
      <4>2. /\ SubSeq(SubSeq(Log(r), i, e), n, Len(SubSeq(Log(r), i, e))) = SubSeq(Log(r), i + n - 1, e)
            /\ i + n - 1 \in 1..Len(Log(r))
        BY <3>3, <4>1, CutOfCut
      <4> QED BY <3>2, <3>3, <3>4, <4>2
    <3>6. Log(r)' = Log(r) /\ Question(r)' = Question(r)
      BY <2>1 DEF Log, Question
    <3>7. Cited(r)'
      BY <3>2, <3>5, <3>6 DEF Cited
    <3>8. pc'[r] = "ask" /\ reply'[r] = reply[r]
      BY <1>0, <3>1 DEF Goto
    <3> QED BY <1>0, <2>2, <2>3, <3>7, <3>8 DEF Story
  <2>5. CASE Goto(r, "failing") /\ Tell(r, "error")
    <3>1. pc'[r] = "failing" /\ reply'[r] = "error"
      BY <1>0, <2>5 DEF Goto, Tell
    <3> QED BY <2>2, <3>1 DEF Story
  <2> QED BY <1>6, <2>4, <2>5 DEF Prepare
<1>7. CASE Complete(r)
  <2>1. /\ UNCHANGED msgs /\ pc[r] = "recording" /\ events'[r] = events[r] \cup {"completed"}
        /\ pc'[r] = "done" /\ reply'[r] = "ok"
    BY <1>0, <1>7 DEF Complete, Recorded, Goto, Tell, stored
  <2>2. "failed" \notin events'[r]
    BY <1>0, <2>1 DEF Story
  <2>3. Settled(r)'
    BY <1>0, <2>1, Remains DEF Story
  <2> QED BY <2>1, <2>2, <2>3 DEF Story
<1>8. CASE Fail(r)
  <2>1. /\ UNCHANGED msgs /\ pc[r] = "failing" /\ events'[r] = events[r] \cup {"failed"}
        /\ pc'[r] = "clearing" /\ reply'[r] = reply[r]
    BY <1>0, <1>8 DEF Fail, Recorded, Goto, stored
  <2>2. "completed" \notin events'[r] /\ reply[r] # "busy"
    BY <1>0, <2>1 DEF Story
  <2>3. Settled(r) => Settled(r)'
    BY <2>1, Remains
  <2> QED BY <1>0, <2>1, <2>2, <2>3 DEF Story
<1>9. CASE Clear(r)
  <2>1. UNCHANGED msgs /\ pc[r] = "clearing" /\ events'[r] = events[r] /\ pc'[r] = "done" /\ reply'[r] = reply[r]
    BY <1>0, <1>9 DEF Clear, Goto
  <2>2. "completed" \notin events'[r] /\ reply[r] # "busy"
    BY <1>0, <2>1 DEF Story
  <2>3. Settled(r) => Settled(r)'
    BY <2>1, Remains
  <2> QED BY <1>0, <2>1, <2>2, <2>3 DEF Story
<1> QED BY <1>1, <1>2, <1>3, <1>4, <1>5, <1>6, <1>7, <1>8, <1>9 DEF Acts, Handle

-----------------------------------------------------------------------------
(* The invariant holds at the start and is kept by every step.             *)
LEMMA InitInv == Init => Inv
<1> SUFFICES ASSUME Init PROVE Inv
  OBVIOUS
<1>1. TypeOK
  <2>1. row \in [Conversation -> Row]
    BY NewTyped DEF Init
  <2>2. << >> \in Seq(Message)
    OBVIOUS
  <2> QED BY <2>1, <2>2, ConversationsAssumption DEF Init, TypeOK
<1>2. Sorted /\ MarkStays
  BY ConversationsAssumption DEF Init, Sorted, MarkStays
<1>3. \A k \in Conversation : row[k].run = NoRun /\ msgs[k] = << >>
  BY DEF Init, Absent
<1>4. MarkedLast /\ TurnsDoNotInterleave
  BY <1>3 DEF MarkedLast, TurnsDoNotInterleave, Conversation
<1>5. ASSUME NEW r \in Request PROVE Story(r)
  <2>1. Traceless(r)
    BY <1>3, Targets DEF Traceless, Log
  <2> QED BY <2>1 DEF Init, Story
<1> QED BY <1>1, <1>2, <1>4, <1>5 DEF Inv

LEMMA StepInv == Inv /\ [Next]_vars => Inv'
<1> SUFFICES ASSUME Inv, [Next]_vars PROVE Inv'
  OBVIOUS
<1>0. /\ TypeOK /\ Sorted /\ MarkStays /\ MarkedLast /\ TurnsDoNotInterleave
      /\ \A q \in Request : Story(q)
  BY DEF Inv
<1>1. TypeOK' /\ Sorted'
  BY <1>0, TypeStep
<1>2. ASSUME NEW r \in Request, Acts(r) PROVE Inv'
  <2>1. Touch(r) /\ \A q \in Request \ {r} : pc'[q] = pc[q]
    BY <1>0, <1>2, Touches, Alone
  <2>2. MarkStays' /\ MarkedLast' /\ TurnsDoNotInterleave'
    BY <2>1, MarksActed
  <2>3. UNCHANGED msgs \/ \E m \in {Question(r), Answer(r)} : Writes(r, m)
    BY <2>1 DEF Touch
  <2>4. ASSUME NEW q \in Request PROVE Story(q)'
    <3>1. CASE q = r
      BY <1>2, <3>1, OwnStory
    <3>2. CASE q # r
      BY <1>0, <1>2, <2>3, <3>2, OthersKept, Alone
    <3> QED BY <3>1, <3>2
  <2> QED BY <1>1, <2>2, <2>4 DEF Inv
<1>3. ASSUME NEW k \in Conversation, Create(k) \/ Rename(k) \/ Delete(k) \/ OpenMutsu(k) PROVE Inv'
  <2>1. UNCHANGED <<msgs, pc, context, reply, events>>
    BY <1>3 DEF Create, Rename, Delete, OpenMutsu
  <2>2. \A a \in Admin : row'[a].run = row[a].run
    <3>1. row \in [Conversation -> Row] /\ General \cap Admin = {} /\ Admin \subseteq Conversation
      BY <1>0, ConversationsAssumption DEF TypeOK, Conversation
    <3>2. CASE Create(k) \/ Rename(k) \/ Delete(k)
      <4>1. \A a \in Admin : a # k
        BY <3>1, <3>2 DEF Create, Rename, Delete, Visible
      <4> QED BY <3>1, <3>2, <4>1 DEF Create, Rename, Delete
    <3>3. CASE OpenMutsu(k)
      BY <3>1, <3>3 DEF OpenMutsu, Row
    <3> QED BY <1>3, <3>2, <3>3
  <2>3. MarkStays' /\ MarkedLast' /\ TurnsDoNotInterleave'
    BY <1>0, <2>1, <2>2, ConversationsAssumption DEF MarkStays, MarkedLast, TurnsDoNotInterleave, Question
  <2>4. ASSUME NEW q \in Request PROVE Story(q)'
    BY <1>0, <2>1, Remains DEF Story
  <2> QED BY <1>1, <2>3, <2>4 DEF Inv
<1>4. CASE Crash
  <2>1. /\ UNCHANGED <<row, msgs, reply, events>>
        /\ \A q \in Request : pc'[q] = IF pc[q] \in InFlight THEN "lost" ELSE pc[q]
    BY <1>4 DEF Crash, stored
  <2>2. pc \in [Request -> InFlight \cup {"idle", "done", "lost"}]
    BY <1>0 DEF TypeOK
  <2>3. MarkStays' /\ MarkedLast' /\ TurnsDoNotInterleave'
    BY <1>0, <2>1, <2>2, ConversationsAssumption
    DEF MarkStays, MarkedLast, TurnsDoNotInterleave, Question, InFlight
  <2>4. ASSUME NEW q \in Request PROVE Story(q)'
    BY <1>0, <2>1, <2>2, Remains DEF Story, InFlight
  <2> QED BY <1>1, <2>3, <2>4 DEF Inv
<1>5. CASE UNCHANGED vars
  <2>1. UNCHANGED <<row, msgs, pc, context, reply, events>>
    BY <1>5 DEF vars, stored
  <2>2. MarkStays' /\ MarkedLast' /\ TurnsDoNotInterleave'
    BY <1>0, <2>1 DEF MarkStays, MarkedLast, TurnsDoNotInterleave, Question
  <2>3. ASSUME NEW q \in Request PROVE Story(q)'
    BY <1>0, <2>1, Remains DEF Story
  <2> QED BY <1>1, <2>2, <2>3 DEF Inv
<1> QED BY <1>2, <1>3, <1>4, <1>5 DEF Next, Acts

LEMMA InvHolds == Spec => []Inv
BY InitInv, StepInv, PTL DEF Spec

(* Everything keeps its type, and only requests to Mutsu record events.    *)
THEOREM TypeCorrect == Spec => []TypeOK
<1>1. Inv => TypeOK
  BY DEF Inv
<1> QED BY <1>1, InvHolds, PTL

(* While a message to Mutsu is being answered its mark stays on the        *)
(* conversation, whoever else asks, cleans up, fails or restarts.          *)
THEOREM MarkIsKept == Spec => []MarkStays
<1>1. Inv => MarkStays
  BY DEF Inv
<1> QED BY <1>1, InvHolds, PTL

(* Turns are whole: an answer follows its question at once, what was told  *)
(* and recorded of a message is what is stored, and the model is asked     *)
(* with an end of the conversation whose last message is the question.     *)
THEOREM TurnsStayWhole == Spec => []TurnsAreWhole
<1>1. Inv => TurnsAreWhole
  <2> SUFFICES ASSUME Inv PROVE TurnsAreWhole
    OBVIOUS
  <2>1. TurnsDoNotInterleave /\ \A r \in Request : Story(r)
    BY DEF Inv
  <2>2. RepliesAreStored
    BY <2>1 DEF RepliesAreStored, Story, Settled, Traceless, Log
  <2>3. ContextEndsWithQuestion
    BY <2>1 DEF ContextEndsWithQuestion, Story, Cited, Log
  <2>4. EventsAgree
    BY <2>1, ConversationsAssumption DEF EventsAgree, Mutsu, Story, Settled, Log
  <2> QED BY <2>1, <2>2, <2>3, <2>4 DEF TurnsAreWhole
<1> QED BY <1>1, InvHolds, PTL
=============================================================================
