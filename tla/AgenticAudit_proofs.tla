------------------------ MODULE AgenticAudit_proofs ------------------------
(***************************************************************************)
(* Proofs about AgenticAudit.  TypeOK is inductive once it is known where  *)
(* batch_index points while a chunk is worked on (InRange).  The safety    *)
(* properties that follow each have an inductive strengthening of their    *)
(* own on top of it.                                                       *)
(***************************************************************************)
EXTENDS AgenticAudit, TLAPS, SequenceTheorems

(* The stages that work on a chunk.                                        *)
Busy == {"skip", "prepare", "submit", "await", "ma", "prefetch", "presubmit", "li", "approve"}

InRange ==
    /\ pc \in Busy => idx <= Len(chunks)
    /\ pc = "presubmit" => idx < Len(chunks)

TypeInv == TypeOK /\ InRange

-----------------------------------------------------------------------------
(* The types of what the actions build.                                    *)

(* The candidates of a round are among those of the context.               *)
LEMMA KernelType == Kernel \subseteq Source
BY DEF Kernel, Remaining

(* The transactions of candidates are transactions.                        *)
LEMMA TxsType == \A S \in SUBSET Source : Txs(S) \subseteq Transaction
BY CandidateAssumption DEF Txs

(* _worker_chunks and _split_worker_chunk build chunks.                    *)
LEMMA NewChunkType ==
    \A t \in AllTasks, S \in SUBSET Source : NewChunk(t, S) \in Chunk
BY TxsType DEF NewChunk, Chunk, Job

(* Filtering a chunk leaves a chunk.                                       *)
LEMMA FilteredType == \A ch \in Chunk : Filtered(ch) \in Chunk
BY DEF Filtered, Remaining, Chunk

(* Ma's answers, filtered, are among the claims it made.                   *)
LEMMA EvidenceType ==
    \A claims \in SUBSET Claims : \A S : WorkerEvidence(claims, S) \in SUBSET Claims
BY DEF WorkerEvidence

(* The chunk under way is a chunk.                                         *)
LEMMA CurrentType == TypeOK /\ InRange /\ pc \in Busy => Current \in Chunk
BY DEF TypeOK, InRange, Current, Busy

(* What Ma observed of a chunk is among its claims.                        *)
LEMMA ObsType == TypeOK => \A ch : Obs(ch) \in SUBSET Claims
BY DEF TypeOK, Obs

(* A layout is a sequence of sets of transactions.                         *)
LEMMA LayoutType ==
    ASSUME NEW S \in SUBSET Source, NEW l \in Layouts(S)
    PROVE  \E n \in Nat : DOMAIN l = 1..n
<1> DEFINE T == (SUBSET Txs(S)) \ {{}}
<1>1. l \in UNION {[1..n -> T] : n \in 0..Cardinality(Txs(S))}
  BY DEF Layouts
<1>2. PICK n \in 0..Cardinality(Txs(S)) : l \in [1..n -> T]
  BY <1>1
<1> QED
  BY <1>2

(* Both halves of a split chunk are chunks.                                *)
LEMMA HalvesType ==
    ASSUME NEW ch \in Chunk
    PROVE  Halves(ch) \in Seq(Chunk) /\ Len(Halves(ch)) = 2
           /\ Halves(ch)[1] \in Chunk /\ Halves(ch)[2] \in Chunk
<1>1. ch.job.task \in AllTasks /\ ch.cands \in SUBSET Source
  BY DEF Chunk, Job
<1>2. \A T : Part(ch.cands, T) \in SUBSET Source
  BY <1>1 DEF Part
<1>3. \A T : NewChunk(ch.job.task, Part(ch.cands, T)) \in Chunk
  BY <1>1, <1>2, NewChunkType
<1> QED
  BY <1>3 DEF Halves

-----------------------------------------------------------------------------
(* The frames of the actions.                                              *)
USE DEF runVars, planVars, statusVars, bookVars, endVars, envVars

(* The initial state is well typed.                                        *)
LEMMA TypeInit == Init => TypeInv
<1> SUFFICES ASSUME Init PROVE TypeInv
  OBVIOUS
<1>1. planner \in [AllTasks -> Status] /\ worker \in [Job -> Status]
      /\ approval \in [Job -> Status]
  BY DEF Init, Status, Terminal
<1>2. used \in [tx : SUBSET Transaction, rc : SUBSET Receipt] /\ locked = used
  BY CandidateAssumption DEF Init, Confirmed
<1>3. pc = "plan" /\ pc \in Stages /\ pc \notin Busy /\ error \in Errors /\ future \in Slot
  BY DEF Init, Stages, Asking, Busy, Errors, Slot
<1>4. chunks \in Seq(Chunk) /\ idx \in Nat \ {0} /\ evidence = {} /\ finals = {} /\ draft = {}
  BY DEF Init
<1>5. tasks = {} /\ pending = {} /\ incomplete = {} /\ call = "none" /\ attempt = 1 /\ late = 0
      /\ cancelled = FALSE /\ expired = FALSE
  BY DEF Init
<1> QED
  BY <1>1, <1>2, <1>3, <1>4, <1>5 DEF TypeInv, TypeOK, InRange

(* The environment, the plan and its order.                                *)
LEMMA TypePlanning ==
    ASSUME TypeInv, Cancel \/ Expire \/ Planning
    PROVE  TypeInv'
<1> USE DEF TypeInv, TypeOK, InRange, Busy, Stages, Asking
<1>1. CASE Cancel
  BY <1>1 DEF Cancel
<1>2. CASE Expire
  BY <1>2 DEF Expire
<1>3. CASE PlanReply
  BY <1>3 DEF PlanReply, Answered
<1>4. CASE \E why \in {"limit", "timeout"} : PlanExhausted(why)
  BY <1>4 DEF PlanExhausted, Exhausted, Answered, Abort, Errors
<1>5. CASE \E m \in Commands : TakeCommand(m)
  <2>1. PICK m \in Commands : TakeCommand(m)
    BY <1>5
  <2>2. Normalised(m) \in Command
    <3>1. WholeGroups(m.scope) \in SUBSET Source
      BY KernelType DEF WholeGroups
    <3>2. m \in Command
      BY RunAssumption
    <3> QED
      BY <3>1, <3>2 DEF Normalised, Command
  <2> QED
    BY <2>1, <2>2 DEF TakeCommand
<1>6. CASE EndCommands
  <2>1. PICK op \in Operation :
          tasks' = IF Leftovers = {} THEN tasks
                   ELSE tasks \cup {[id |-> KernelTask, op |-> op, scope |-> Leftovers, deps |-> {}]}
    BY <1>6 DEF EndCommands
  <2>2. [id |-> KernelTask, op |-> op, scope |-> Leftovers, deps |-> {}] \in Command
    BY KernelType DEF Leftovers, Command, AllTasks
  <2>3. tasks' \subseteq Command
    BY <2>1, <2>2
  <2> QED
    BY <1>6, <2>3 DEF EndCommands
<1>7. CASE \E t \in tasks : ScheduleTask(t)
  <2>1. PICK t \in tasks : ScheduleTask(t)
    BY <1>7
  <2>2. PICK l \in Layouts(t.scope) :
          LET jobs == [i \in DOMAIN l |-> NewChunk(t.id, Part(t.scope, l[i]))]
          IN  /\ chunks' = chunks \o jobs
              /\ worker' = [j \in Job |-> IF \E i \in DOMAIN jobs : jobs[i].job = j
                                          THEN "pending" ELSE worker[j]]
    BY <2>1 DEF ScheduleTask
  <2> DEFINE jobs == [i \in DOMAIN l |-> NewChunk(t.id, Part(t.scope, l[i]))]
  <2> t.scope \in SUBSET Source
    BY DEF Command
  <2>3. PICK n \in Nat : DOMAIN l = 1..n
    BY LayoutType
  <2>4. t.id \in AllTasks /\ \A T : Part(t.scope, T) \in SUBSET Source
    BY DEF Command, Part
  <2>6. jobs \in Seq(Chunk)
    BY <2>3, <2>4, NewChunkType
  <2>7. chunks' \in Seq(Chunk)
    BY <2>2, <2>6
  <2>8. worker' \in [Job -> Status]
    BY <2>2 DEF Status, Active
  <2>9. planner' \in [AllTasks -> Status] /\ pending' \subseteq tasks
    BY <2>1 DEF ScheduleTask, Status, Active
  <2> QED
    BY <2>1, <2>7, <2>8, <2>9 DEF ScheduleTask
<1>8. CASE EndSchedule
  <2>1. planner' \in [AllTasks -> Status]
    BY <1>8 DEF EndSchedule, Status, Terminal
  <2> QED
    BY <1>8, <2>1 DEF EndSchedule, Abort, Errors
<1> QED
  BY <1>1, <1>2, <1>3, <1>4, <1>5, <1>6, <1>7, <1>8 DEF Planning

(* The loop over the chunks and the executor.                              *)
LEMMA TypeLooping ==
    ASSUME TypeInv, Looping \/ Preparing \/ Executor
    PROVE  TypeInv'
<1> USE DEF TypeInv, TypeOK, InRange, Busy, Stages, Asking, InLoop
<1>1. CASE LoopEnd
  BY <1>1 DEF LoopEnd
<1>2. CASE LoopStop
  BY <1>2 DEF LoopStop, Abort, StopReason, Errors
<1>3. CASE LoopSkip
  BY <1>3 DEF LoopSkip
<1>4. CASE Skip
  <2>1. ParentStatus(Current, approval') \in Status /\ "completed" \in Status
    BY DEF ParentStatus, Status, Terminal
  <2>2. /\ planner' \in [AllTasks -> Status]
        /\ worker' \in [Job -> Status] /\ approval' \in [Job -> Status]
    BY <1>4, <2>1 DEF Skip
  <2>3. future' \in Slot
    BY <1>4 DEF Skip, Slot
  <2> QED
    BY <1>4, <2>2, <2>3 DEF Skip
<1>5. CASE LoopBlock
  <2>1. Current \in Chunk
    BY <1>5 DEF LoopBlock, Current
  <2>2. chunks' \in Seq(Chunk) /\ Len(chunks') = Len(chunks)
    BY <1>5, <2>1, FilteredType DEF LoopBlock
  <2>3. worker' \in [Job -> Status] /\ approval' \in [Job -> Status]
    BY <1>5 DEF LoopBlock, Status, Terminal
  <2> QED
    BY <1>5, <2>2, <2>3 DEF LoopBlock
<1>6. CASE LoopStart
  <2>1. Current \in Chunk
    BY <1>6 DEF LoopStart, Current
  <2>2. chunks' \in Seq(Chunk) /\ Len(chunks') = Len(chunks)
    BY <1>6, <2>1, FilteredType DEF LoopStart
  <2>3. worker' \in [Job -> Status] /\ planner' \in [AllTasks -> Status]
    BY <1>6 DEF LoopStart, Status, Active, Terminal
  <2> QED
    BY <1>6, <2>2, <2>3 DEF LoopStart
<1>7. CASE PrepareReuse
  BY <1>7 DEF PrepareReuse
<1>8. CASE PrepareFresh
  BY <1>8 DEF PrepareFresh, Abort, StopReason, Errors, Slot
<1>9. CASE Submit
  BY <1>9, CurrentType DEF Submit, Slot, Late
<1>10. CASE Await
  <2>1. worker' \in [Job -> Status]
    BY <1>10 DEF Await, Status, Active
  <2> QED
    BY <1>10, <2>1 DEF Await, Abort, StopReason, Errors, Slot
<1>11. CASE Prefetch
  <2>1. approval' \in [Job -> Status]
    BY <1>11 DEF Prefetch, EnterAssessment, Status, Active
  <2> QED
    BY <1>11, <2>1 DEF Prefetch, EnterAssessment, Lookahead, Abort, StopReason, Errors
<1>12. CASE PrefetchSubmit
  <2>1. approval' \in [Job -> Status]
    BY <1>12 DEF PrefetchSubmit, EnterAssessment, Status, Active
  <2>2. chunks[idx + 1] \in Chunk
    BY <1>12 DEF PrefetchSubmit
  <2> QED
    BY <1>12, <2>1, <2>2 DEF PrefetchSubmit, EnterAssessment, Late, Slot
<1>13. CASE PrepareStart
  <2>1. worker' \in [Job -> Status]
    BY <1>13 DEF PrepareStart, Status, Active
  <2>2. future' \in Slot
    BY <1>13 DEF PrepareStart, Slot, Idle
  <2> QED
    BY <1>13, <2>1, <2>2 DEF PrepareStart
<1>14. CASE PrepareEnd
  <2>1. worker' \in [Job -> Status]
    BY <1>14 DEF PrepareEnd, Status, Active, Terminal
  <2>2. future' \in Slot
    BY <1>14 DEF PrepareEnd, Slot, Idle
  <2> QED
    BY <1>14, <2>1, <2>2 DEF PrepareEnd
<1> QED
  BY <1>1, <1>2, <1>3, <1>4, <1>5, <1>6, <1>7, <1>8, <1>9, <1>10, <1>11, <1>12, <1>13, <1>14
     DEF Looping, Preparing, Executor

(* The requests, the decisions and the end.                                *)
LEMMA TypeDeciding ==
    ASSUME TypeInv, Requesting \/ Deciding \/ Close
    PROVE  TypeInv'
<1> USE DEF TypeInv, TypeOK, InRange, Busy, Stages, Asking, Answered
<1>1. CASE RequestStop
  BY <1>1 DEF RequestStop, Abort, StopReason, Errors
<1>2. CASE RequestCheck
  BY <1>2 DEF RequestCheck
<1>3. CASE RequestSend
  BY <1>3 DEF RequestSend, Late
<1>4. CASE ReplyCancelled
  BY <1>4 DEF ReplyCancelled, Abort, Errors
<1>5. CASE ReplyBroken
  BY <1>5 DEF ReplyBroken, Abort, Errors
<1>6. CASE ReplyTruncated
  BY <1>6 DEF ReplyTruncated, Attempts
<1>7. CASE MaReply
  <2>1. worker' \in [Job -> Status]
    BY <1>7 DEF MaReply, Status, Terminal
  <2>2. evidence' \subseteq [chunk : Chunk, obs : SUBSET Claims, handed : BOOLEAN]
    <3>1. PICK claims \in SUBSET Claims :
            evidence' = evidence \cup
              {[chunk |-> Current, obs |-> WorkerEvidence(claims, Current.cands), handed |-> FALSE]}
      BY <1>7 DEF MaReply
    <3>2. Current \in Chunk /\ WorkerEvidence(claims, Current.cands) \in SUBSET Claims
      BY <1>7, CurrentType, EvidenceType DEF MaReply
    <3>3. [chunk |-> Current, obs |-> WorkerEvidence(claims, Current.cands), handed |-> FALSE]
            \in [chunk : Chunk, obs : SUBSET Claims, handed : BOOLEAN]
      BY <3>2
    <3>4. evidence \subseteq [chunk : Chunk, obs : SUBSET Claims, handed : BOOLEAN]
      OBVIOUS
    <3> QED
      BY <3>1, <3>3, <3>4
  <2> QED
    BY <1>7, <2>1, <2>2 DEF MaReply
<1>8. CASE LiReply
  BY <1>8 DEF LiReply
<1>9. CASE Split
  <2>1. Current \in Chunk /\ Obs(Current) \in SUBSET Claims
    BY <1>9, CurrentType, ObsType DEF Split
  <2>2. Halves(Current) \in Seq(Chunk) /\ Halves(Current)[1] \in Chunk /\ Halves(Current)[2] \in Chunk
    BY <2>1, HalvesType
  <2>3. SubSeq(chunks, 1, idx - 1) \in Seq(Chunk) /\ SubSeq(chunks, idx + 1, Len(chunks)) \in Seq(Chunk)
    BY <1>9 DEF Split
  <2>4. chunks' \in Seq(Chunk)
    <3>1. chunks' = (SubSeq(chunks, 1, idx - 1) \o Halves(Current)) \o SubSeq(chunks, idx + 1, Len(chunks))
      BY <1>9 DEF Split
    <3>2. \A p, q \in Seq(Chunk) : p \o q \in Seq(Chunk)
      OBVIOUS
    <3>3. SubSeq(chunks, 1, idx - 1) \o Halves(Current) \in Seq(Chunk)
      BY <2>2, <2>3, <3>2
    <3> QED
      BY <2>3, <3>1, <3>2, <3>3
  <2>5. worker' \in [Job -> Status] /\ approval' \in [Job -> Status]
    BY <1>9 DEF Split, Status, Active, Terminal
  <2>6. evidence' \subseteq [chunk : Chunk, obs : SUBSET Claims, handed : BOOLEAN]
    <3> DEFINE heir(h) == [chunk |-> h, obs |-> WorkerEvidence(Obs(Current), h.cands), handed |-> TRUE]
               halves  == {Halves(Current)[1], Halves(Current)[2]}
    <3>1. evidence' \subseteq evidence \cup {heir(h) : h \in halves}
      BY <1>9 DEF Split
    <3>2. \A h \in halves : heir(h) \in [chunk : Chunk, obs : SUBSET Claims, handed : BOOLEAN]
      BY <2>1, <2>2, EvidenceType
    <3>3. evidence \subseteq [chunk : Chunk, obs : SUBSET Claims, handed : BOOLEAN]
      OBVIOUS
    <3> HIDE DEF heir
    <3> QED
      BY <3>1, <3>2, <3>3
  <2>7. /\ pc' = "loop" /\ call' = "none" /\ attempt' = 1
        /\ UNCHANGED <<planVars, planner, idx, finals, draft, used, locked, future, endVars,
                       envVars, late>>
    BY <1>9 DEF Split, Exhausted
  <2> QED
    BY <2>4, <2>5, <2>6, <2>7
<1>10. CASE \E why \in {"limit", "timeout"} : GiveUp(why)
  <2>1. PICK why \in {"limit", "timeout"} : GiveUp(why)
    BY <1>10
  <2>2. ParentStatus(Current, approval') \in Status /\ {"completed", "partial"} \subseteq Status
    BY DEF ParentStatus, Status, Terminal
  <2>3. /\ planner' \in [AllTasks -> Status]
        /\ worker' \in [Job -> Status] /\ approval' \in [Job -> Status]
    BY <2>1, <2>2 DEF GiveUp
  <2> QED
    BY <2>1, <2>3 DEF GiveUp, Exhausted
<1>11. CASE \E d \in Verdicts : Approve(d)
  <2>1. PICK d \in Verdicts : Approve(d)
    BY <1>11
  <2>2. d.tx \in Transaction /\ d.ids \subseteq Receipt
    BY RunAssumption DEF Decision
  <2>3. used' \in [tx : SUBSET Transaction, rc : SUBSET Receipt]
    BY <2>1, <2>2 DEF Approve
  <2> QED
    BY <2>1, <2>3 DEF Approve
<1>12. CASE Conclude
  <2>1. ParentStatus(Current, approval') \in Status /\ "completed" \in Status
    BY DEF ParentStatus, Status, Terminal
  <2>2. planner' \in [AllTasks -> Status] /\ approval' \in [Job -> Status]
    BY <1>12, <2>1 DEF Conclude
  <2>3. finals' \subseteq Finals
    BY <1>12, CurrentType DEF Conclude, Finals
  <2>4. \A d \in Matches(draft) : d.tx \in Transaction /\ d.ids \subseteq Receipt
    BY RunAssumption DEF Decision, Matches
  <2>5. locked' \in [tx : SUBSET Transaction, rc : SUBSET Receipt]
    BY <1>12, <2>4 DEF Conclude
  <2> QED
    BY <1>12, <2>2, <2>3, <2>5 DEF Conclude
<1>13. CASE Close
  <2>1. /\ planner' \in [AllTasks -> Status]
        /\ worker' \in [Job -> Status] /\ approval' \in [Job -> Status]
    BY <1>13 DEF Close, Swept, Status, Terminal
  <2> QED
    BY <1>13, <2>1 DEF Close
<1> QED
  BY <1>1, <1>2, <1>3, <1>4, <1>5, <1>6, <1>7, <1>8, <1>9, <1>10, <1>11, <1>12, <1>13
     DEF Requesting, Deciding

(* Every variable keeps its type, and batch_index points at a chunk        *)
(* whenever one is worked on.                                              *)
LEMMA TypeInvariant == Spec => []TypeInv
<1>1. TypeInv /\ UNCHANGED vars => TypeInv'
  BY DEF vars, TypeInv, TypeOK, InRange
<1>2. TypeInv /\ [Next]_vars => TypeInv'
  BY <1>1, TypePlanning, TypeLooping, TypeDeciding DEF Next, Run
<1> QED
  BY TypeInit, <1>2, PTL DEF Spec

(* agentic_audit.py never leaves the state space the model gives it.       *)
THEOREM TypeCorrect == Spec => []TypeOK
BY TypeInvariant, PTL DEF TypeInv

-----------------------------------------------------------------------------
(* What is decided is used.  NoDoubleUse alone is not inductive: the next  *)
(* decision is only compared with "used".                                  *)
UsedInv ==
    /\ ConfirmedTx \subseteq used.tx /\ ConfirmedReceipt \subseteq used.rc
    /\ \A d \in Decided : d.tx \in used.tx /\ d.ids \subseteq used.rc
    /\ NoDoubleUse

(* Concluding an assessment decides nothing more.                          *)
LEMMA ConcludeDecides == Conclude => Decided' = Decided
<1> SUFFICES ASSUME Conclude PROVE Decided' = Decided
  OBVIOUS
<1> DEFINE final == [chunk |-> Current, decisions |-> draft]
<1>1. finals' = finals \cup {final} /\ draft' = {} /\ final.decisions = draft
  BY DEF Conclude
<1> HIDE DEF final
<1> QED
  BY <1>1 DEF Decided

(* An accepted decision is new.                                            *)
LEMMA UsedApprove ==
    ASSUME TypeOK, UsedInv, NEW d \in Verdicts, Approve(d)
    PROVE  UsedInv'
<1>1. /\ d.tx \notin used.tx /\ d.ids \cap used.rc = {}
      /\ used' = [tx |-> used.tx \cup {d.tx}, rc |-> used.rc \cup d.ids]
  BY DEF Approve, Acceptable
<1>2. Decided' = Decided \cup {d}
  BY DEF Approve, Decided
<1>3. used'.tx = used.tx \cup {d.tx} /\ used'.rc = used.rc \cup d.ids
  BY <1>1
<1>4. \A e \in Decided : e # d => e.tx # d.tx /\ e.ids \cap d.ids = {}
  BY <1>1 DEF UsedInv
<1>5. d.tx \notin ConfirmedTx /\ d.ids \cap ConfirmedReceipt = {}
  BY <1>1 DEF UsedInv
<1> QED
  BY <1>2, <1>3, <1>4, <1>5 DEF UsedInv, NoDoubleUse

(* The other steps decide nothing.                                         *)
LEMMA UsedStep == TypeOK /\ UsedInv /\ [Next]_vars => UsedInv'
<1> SUFFICES ASSUME TypeOK, UsedInv, [Next]_vars PROVE UsedInv'
  OBVIOUS
<1>1. CASE \E d \in Verdicts : Approve(d)
  BY <1>1, UsedApprove
<1>2. CASE Conclude
  BY <1>2, ConcludeDecides DEF Conclude, UsedInv, NoDoubleUse
<1>3. CASE UNCHANGED <<draft, finals, used>>
  <2>1. Decided' = Decided
    BY <1>3 DEF Decided
  <2> QED
    BY <1>3, <2>1 DEF UsedInv, NoDoubleUse
<1>4. Conclude \/ (\E d \in Verdicts : Approve(d)) \/ UNCHANGED <<draft, finals, used>>
  <2>1. Cancel \/ Expire \/ Planning \/ UNCHANGED vars => UNCHANGED <<draft, finals, used>>
    BY DEF vars, Cancel, Expire, Planning, PlanReply, EndCommands, EndSchedule, PlanExhausted,
           TakeCommand, ScheduleTask
  <2>2. Looping => UNCHANGED <<draft, finals, used>>
    BY DEF Looping, LoopEnd, LoopStop, LoopSkip, Skip, LoopBlock, LoopStart
  <2>3. Preparing \/ Executor => UNCHANGED <<draft, finals, used>>
    BY DEF Preparing, PrepareReuse, PrepareFresh, Submit, Await, Prefetch, PrefetchSubmit,
           Executor, PrepareStart, PrepareEnd
  <2>4. Requesting \/ Close => UNCHANGED <<draft, finals, used>>
    BY DEF Requesting, RequestStop, RequestCheck, RequestSend, ReplyCancelled, ReplyBroken,
           ReplyTruncated, MaReply, LiReply, Split, GiveUp, Close
  <2> QED
    BY <2>1, <2>2, <2>3, <2>4 DEF Next, Run, Deciding
<1> QED
  BY <1>1, <1>2, <1>3, <1>4

(* No transaction and no receipt is decided twice, for any kernel, plan    *)
(* and behaviour of the two models.                                        *)
THEOREM DecidedOnce == Spec => []NoDoubleUse
<1>1. Init => UsedInv
  BY DEF Init, UsedInv, NoDoubleUse, Decided, Confirmed
<1>2. Spec => []UsedInv
  BY <1>1, TypeCorrect, UsedStep, PTL DEF Spec
<1> QED
  BY <1>2, PTL DEF UsedInv

-----------------------------------------------------------------------------
(* Groups stay whole.  Scopes and chunks are sets of kernel candidates     *)
(* that hold the kernel mates of their members; relations read off such a  *)
(* set are relations of the kernel.                                        *)
Whole(S) == S \subseteq Kernel /\ GroupClosed(S)

AllWhole(s) == \A i \in DOMAIN s : Whole(s[i].cands)

WholeInv ==
    /\ \A t \in tasks : Whole(t.scope)
    /\ AllWhole(chunks)
    /\ WholeRelations

(* A command's scope, normalised, holds groups as a whole.                 *)
LEMMA WholeGroupsWhole ==
    ASSUME NEW S
    PROVE  Whole(WholeGroups(S))
<1> DEFINE K == S \cap Kernel
<1>1. WholeGroups(S) \subseteq Kernel
  BY DEF WholeGroups
<1>2. ASSUME NEW c \in WholeGroups(S), NEW d \in Kernel, Mates(c, d)
      PROVE  d \in WholeGroups(S)
  <2>1. c \in K /\ GroupOf[c] # NoGroup /\ GroupOf[d] # NoGroup
        /\ UNION {ReceiptsOf[e] : e \in {f \in K : Mates(c, f)}}
           = UNION {ReceiptsOf[e] : e \in {f \in Kernel : Mates(c, f)}}
    BY <1>2 DEF WholeGroups, RelationOf, Mates
  <2>2. PICK r \in ReceiptsOf[d] :
          \A e \in Source : e # d /\ Mates(d, e) => r \notin ReceiptsOf[e]
    BY <2>1, KernelType, GroupAssumption
  <2>3. PICK e \in K : Mates(c, e) /\ r \in ReceiptsOf[e]
    BY <1>2, <2>1
  <2>4. e = d
    BY <1>2, <2>2, <2>3, KernelType DEF Mates
  <2>5. \A X : {f \in X : Mates(c, f)} = {f \in X : Mates(d, f)}
    BY <1>2 DEF Mates
  <2>6. RelationOf(d, K) = RelationOf(d, Kernel)
    BY <2>1, <2>5 DEF RelationOf
  <2> QED
    BY <2>3, <2>4, <2>6 DEF WholeGroups
<1> QED
  BY <1>1, <1>2 DEF Whole, GroupClosed

(* What the commands leave over slices no group either.                    *)
LEMMA LeftoversWhole ==
    (\A t \in tasks : Whole(t.scope)) => Whole(Leftovers)
BY DEF Whole, Leftovers, GroupClosed, Mates

(* Cutting by transaction keeps groups whole.                              *)
LEMMA PartWhole == \A S, T : Whole(S) => Whole(Part(S, T))
BY DEF Whole, Part, GroupClosed, Mates

(* Filtering by what is locked keeps or drops groups as a whole.           *)
LEMMA RemainingWhole == \A S, tx, rc : Whole(S) => Whole(Remaining(S, tx, rc))
BY DEF Whole, Remaining, GroupClosed, Mates

(* The filtered chunk is whole.                                            *)
LEMMA FilteredWhole == \A ch \in Chunk : Whole(ch.cands) => Whole(Filtered(ch).cands)
BY RemainingWhole DEF Filtered, Chunk

(* So are the halves of a split chunk.                                     *)
LEMMA HalvesWhole ==
    ASSUME NEW ch \in Chunk, Whole(ch.cands)
    PROVE  Whole(Halves(ch)[1].cands) /\ Whole(Halves(ch)[2].cands)
<1>1. \A T : Whole(NewChunk(ch.job.task, Part(ch.cands, T)).cands)
  BY PartWhole DEF NewChunk
<1> QED
  BY <1>1 DEF Halves

(* And a list of chunks put together from two whole ones.                  *)
LEMMA ConcatWhole ==
    ASSUME NEW s \in Seq(Chunk), NEW u \in Seq(Chunk), AllWhole(s), AllWhole(u)
    PROVE  s \o u \in Seq(Chunk) /\ AllWhole(s \o u)
<1>1. \A i \in DOMAIN (s \o u) :
        (s \o u)[i] = IF i <= Len(s) THEN s[i] ELSE u[i - Len(s)]
  OBVIOUS
<1> QED
  BY <1>1 DEF AllWhole

(* A relation read off a whole set is one of the kernel.                   *)
LEMMA WholeKernelRelations ==
    ASSUME NEW S, Whole(S)
    PROVE  KernelRelations(S) \subseteq KernelRelations(Kernel)
<1>1. ASSUME NEW c \in S
      PROVE  RelationOf(c, S) = RelationOf(c, Kernel)
  <2>1. {e \in S : Mates(c, e)} = {e \in Kernel : Mates(c, e)}
    BY DEF Whole, GroupClosed
  <2> QED
    BY <2>1 DEF RelationOf
<1> QED
  BY <1>1 DEF KernelRelations, Whole

(* The steps that write tasks, chunks or decisions.                        *)
LEMMA WholeFrame ==
    ASSUME [Next]_vars
    PROVE  \/ \E m \in Commands : TakeCommand(m)
           \/ \E t \in tasks : ScheduleTask(t)
           \/ EndCommands \/ LoopBlock \/ LoopStart \/ Split \/ Conclude
           \/ \E d \in Verdicts : Approve(d)
           \/ UNCHANGED <<tasks, chunks, draft, finals>>
<1>1. Cancel \/ Expire \/ PlanReply \/ EndSchedule \/ (\E why \in {"limit", "timeout"} : PlanExhausted(why))
      \/ UNCHANGED vars => UNCHANGED <<tasks, chunks, draft, finals>>
  BY DEF vars, Cancel, Expire, PlanReply, EndSchedule, PlanExhausted
<1>2. LoopEnd \/ LoopStop \/ LoopSkip \/ Skip => UNCHANGED <<tasks, chunks, draft, finals>>
  BY DEF LoopEnd, LoopStop, LoopSkip, Skip
<1>3. Preparing \/ Executor => UNCHANGED <<tasks, chunks, draft, finals>>
  BY DEF Preparing, PrepareReuse, PrepareFresh, Submit, Await, Prefetch, PrefetchSubmit,
         Executor, PrepareStart, PrepareEnd
<1>4. Requesting \/ Close => Split \/ UNCHANGED <<tasks, chunks, draft, finals>>
  BY DEF Requesting, RequestStop, RequestCheck, RequestSend, ReplyCancelled, ReplyBroken,
         ReplyTruncated, MaReply, LiReply, GiveUp, Close
<1> QED
  BY <1>1, <1>2, <1>3, <1>4 DEF Next, Run, Planning, Looping, Deciding

(* The chunks a task is cut into are whole.                                *)
LEMMA WholeSchedule ==
    ASSUME TypeOK, WholeInv, NEW t \in tasks, ScheduleTask(t)
    PROVE  WholeInv'
<1>1. PICK l \in Layouts(t.scope) :
        chunks' = chunks \o [i \in DOMAIN l |-> NewChunk(t.id, Part(t.scope, l[i]))]
  BY DEF ScheduleTask
<1> DEFINE jobs == [i \in DOMAIN l |-> NewChunk(t.id, Part(t.scope, l[i]))]
<1>2. t.scope \in SUBSET Source /\ t.id \in AllTasks
  BY DEF TypeOK, Command
<1>3. PICK n \in Nat : DOMAIN l = 1..n
  BY <1>2, LayoutType
<1>4. \A T : Part(t.scope, T) \in SUBSET Source
  BY <1>2 DEF Part
<1>5. jobs \in Seq(Chunk) /\ Len(jobs) = n
  BY <1>2, <1>3, <1>4, NewChunkType
<1>6. AllWhole(jobs)
  BY <1>3, PartWhole DEF WholeInv, AllWhole, NewChunk
<1>7. chunks \in Seq(Chunk)
  BY DEF TypeOK
<1>8. AllWhole(chunks')
  BY <1>1, <1>5, <1>6, <1>7, ConcatWhole DEF WholeInv
<1> QED
  BY <1>8 DEF ScheduleTask, WholeInv, WholeRelations, Decided

(* The halves of a whole chunk are whole.                                  *)
LEMMA WholeSplit ==
    ASSUME TypeInv, WholeInv, Split
    PROVE  WholeInv'
<1> DEFINE before == SubSeq(chunks, 1, idx - 1)
           after  == SubSeq(chunks, idx + 1, Len(chunks))
           halves == Halves(Current)
<1>1. /\ chunks \in Seq(Chunk) /\ idx \in 1..Len(chunks) /\ Current \in Chunk
      /\ chunks' = before \o halves \o after
  BY CurrentType DEF TypeInv, TypeOK, InRange, Busy, Split
<1>2. Whole(Current.cands)
  BY <1>1 DEF WholeInv, AllWhole, Current
<1>3. halves \in Seq(Chunk) /\ AllWhole(halves)
  <2>1. DOMAIN halves = {1, 2}
    BY <1>1, HalvesType
  <2> QED
    BY <1>1, <1>2, <2>1, HalvesType, HalvesWhole DEF AllWhole
<1>4. before \in Seq(Chunk) /\ AllWhole(before) /\ after \in Seq(Chunk) /\ AllWhole(after)
  BY <1>1 DEF WholeInv, AllWhole
<1> HIDE DEF before, after, halves
<1>5. AllWhole(chunks')
  BY <1>1, <1>3, <1>4, ConcatWhole
<1> QED
  BY <1>5 DEF Split, WholeInv, WholeRelations, Decided

(* A decision about a whole chunk is about a kernel relation.              *)
LEMMA WholeApprove ==
    ASSUME TypeInv, WholeInv, NEW d \in Verdicts, Approve(d)
    PROVE  WholeInv'
<1>1. Whole(Current.cands)
  BY DEF Approve, TypeInv, TypeOK, InRange, Busy, WholeInv, AllWhole, Current
<1>2. d.ids # {} => \E r \in KernelRelations(Current.cands) : r.tx = d.tx /\ r.ids = d.ids
  BY DEF Approve, Acceptable, WorkerEvidence, About
<1>3. d.ids # {} => \E r \in KernelRelations(Kernel) : r.tx = d.tx /\ r.ids = d.ids
  BY <1>1, <1>2, WholeKernelRelations
<1>4. Decided' = Decided \cup {d}
  BY DEF Approve, Decided
<1> QED
  BY <1>3, <1>4 DEF Approve, WholeInv, WholeRelations

(* Every step of the run keeps groups whole.                               *)
LEMMA WholeStep == TypeInv /\ WholeInv /\ [Next]_vars => WholeInv'
<1> SUFFICES ASSUME TypeInv, WholeInv, [Next]_vars PROVE WholeInv'
  OBVIOUS
<1>1. CASE \E m \in Commands : TakeCommand(m)
  <2>1. PICK m \in Commands : TakeCommand(m)
    BY <1>1
  <2>2. Whole(Normalised(m).scope)
    BY WholeGroupsWhole, RunAssumption DEF Normalised, Command
  <2> QED
    BY <2>1, <2>2 DEF TakeCommand, WholeInv, WholeRelations, Decided
<1>2. CASE EndCommands
  <2>1. Whole(Leftovers)
    BY LeftoversWhole DEF WholeInv
  <2>2. \A t \in tasks' : Whole(t.scope)
    BY <1>2, <2>1 DEF EndCommands, WholeInv
  <2> QED
    BY <1>2, <2>2 DEF EndCommands, WholeInv, WholeRelations, Decided
<1>3. CASE \E t \in tasks : ScheduleTask(t)
  BY <1>3, WholeSchedule DEF TypeInv
<1>4. CASE LoopBlock \/ LoopStart
  <2>1. /\ chunks \in Seq(Chunk) /\ idx \in DOMAIN chunks
        /\ chunks' = [chunks EXCEPT ![idx] = Filtered(Current)]
    BY <1>4 DEF LoopBlock, LoopStart, InLoop, TypeInv, TypeOK
  <2>2. Whole(Filtered(Current).cands)
    BY <2>1, FilteredWhole DEF Current, WholeInv, AllWhole
  <2>3. AllWhole(chunks')
    BY <2>1, <2>2 DEF WholeInv, AllWhole
  <2> QED
    BY <1>4, <2>3 DEF LoopBlock, LoopStart, WholeInv, WholeRelations, Decided
<1>5. CASE Split
  BY <1>5, WholeSplit
<1>6. CASE Conclude
  BY <1>6, ConcludeDecides DEF Conclude, WholeInv, WholeRelations
<1>7. CASE \E d \in Verdicts : Approve(d)
  BY <1>7, WholeApprove
<1>8. CASE UNCHANGED <<tasks, chunks, draft, finals>>
  BY <1>8 DEF WholeInv, WholeRelations, Decided
<1> QED
  BY <1>1, <1>2, <1>3, <1>4, <1>5, <1>6, <1>7, <1>8, WholeFrame

(* Groups stay whole throughout the run.                                   *)
LEMMA WholeInvariant == Spec => []WholeInv
<1>1. Init => WholeInv
  BY DEF Init, WholeInv, AllWhole, WholeRelations, Decided
<1> QED
  BY <1>1, TypeInvariant, WholeStep, PTL DEF Spec

(* A decision that names receipts is a whole relation of the kernel: no    *)
(* reimbursement group is ever sliced, however chunks are cut, filtered    *)
(* and split.                                                              *)
THEOREM GroupsDecidedWhole == Spec => []WholeRelations
BY WholeInvariant, PTL DEF WholeInv

-----------------------------------------------------------------------------
(* A request is only under way where one is asked for.                     *)
CallInv == call # "none" => pc \in Asking

(* No step leaves a request under way where none is asked for.             *)
LEMMA CallStep == CallInv /\ [Next]_vars => CallInv'
<1> SUFFICES ASSUME CallInv, [Next]_vars PROVE CallInv'
  OBVIOUS
<1> USE DEF CallInv, Asking
<1>1. CASE Cancel \/ Expire \/ UNCHANGED vars
  BY <1>1 DEF Cancel, Expire, vars
<1>2. CASE Planning
  BY <1>2 DEF Planning, PlanReply, EndCommands, EndSchedule, PlanExhausted, TakeCommand,
              ScheduleTask, Answered, Exhausted
<1>3. CASE Looping
  BY <1>3 DEF Looping, LoopEnd, LoopStop, LoopSkip, Skip, LoopBlock, LoopStart, InLoop
<1>4. CASE Preparing \/ Executor
  BY <1>4 DEF Preparing, PrepareReuse, PrepareFresh, Submit, Await, Prefetch, PrefetchSubmit,
              Executor, PrepareStart, PrepareEnd
<1>5. CASE Requesting
  BY <1>5 DEF Requesting, RequestStop, RequestCheck, RequestSend, ReplyCancelled, ReplyBroken,
              ReplyTruncated, MaReply, LiReply, Split, GiveUp, Answered, Exhausted
<1>6. CASE Deciding \/ Close
  BY <1>6 DEF Deciding, Conclude, Approve, Close
<1> QED
  BY <1>1, <1>2, <1>3, <1>4, <1>5, <1>6 DEF Next, Run

(* CallInv is an invariant of the run.                                     *)
LEMMA CallInvariant == Spec => []CallInv
<1>1. Init => CallInv
  BY DEF Init, CallInv
<1> QED
  BY <1>1, CallStep, PTL DEF Spec

-----------------------------------------------------------------------------
(* Stopping.  The one late submission leaves the thread where the next     *)
(* thing it looks at is a stop flag.                                       *)
LateInv ==
    /\ AtMostOneLate
    /\ ~ Stopped => late = 0
    /\ late = 1 => call # "checked" /\ pc \notin {"submit", "presubmit"}

(* No step submits twice after a stop flag is up.                          *)
LEMMA LateStep == TypeOK /\ CallInv /\ LateInv /\ [Next]_vars => LateInv'
<1> SUFFICES ASSUME TypeOK, CallInv, LateInv, [Next]_vars PROVE LateInv'
  OBVIOUS
<1> USE DEF LateInv, AtMostOneLate, Stopped
<1>0. late \in Nat /\ cancelled \in BOOLEAN /\ expired \in BOOLEAN
  BY DEF TypeOK
<1>1. CASE Cancel \/ Expire \/ UNCHANGED vars
  BY <1>0, <1>1 DEF Cancel, Expire, vars
<1>2. CASE Planning
  BY <1>0, <1>2 DEF Planning, PlanReply, EndCommands, EndSchedule, PlanExhausted, TakeCommand,
              ScheduleTask, Answered, Exhausted, Abort
<1>3. CASE Looping
  BY <1>0, <1>3 DEF Looping, LoopEnd, LoopStop, LoopSkip, Skip, LoopBlock, LoopStart, InLoop, Abort
<1>4. CASE Submit \/ PrefetchSubmit
  <2>1. call = "none" /\ call' = "none" /\ UNCHANGED envVars /\ pc' \in {"await", "li"}
    BY <1>4 DEF Submit, PrefetchSubmit, EnterAssessment, CallInv, Asking
  <2>2. late' \in {0, 1} /\ (~ Stopped => late' = 0)
    BY <1>0, <1>4 DEF Submit, PrefetchSubmit, Late
  <2> QED
    BY <2>1, <2>2
<1>5. CASE PrepareReuse \/ PrepareFresh \/ Await \/ Prefetch \/ Executor
  BY <1>0, <1>5 DEF PrepareReuse, PrepareFresh, Await, Prefetch, EnterAssessment,
              Executor, PrepareStart, PrepareEnd, Abort
<1>6. CASE RequestSend
  <2>1. call' = "sent" /\ UNCHANGED envVars /\ pc' = pc /\ pc \in Asking
    BY <1>6 DEF RequestSend, CallInv
  <2>2. late' \in {0, 1} /\ (~ Stopped => late' = 0)
    BY <1>0, <1>6 DEF RequestSend, Late
  <2> QED
    BY <2>1, <2>2 DEF Asking
<1>7. CASE RequestStop \/ RequestCheck \/ ReplyCancelled \/ ReplyBroken \/ ReplyTruncated
  BY <1>0, <1>7 DEF RequestStop, RequestCheck, ReplyCancelled, ReplyBroken, ReplyTruncated,
                    Answered, Abort
<1>8. CASE MaReply \/ LiReply \/ Split \/ \E why \in {"limit", "timeout"} : GiveUp(why)
  BY <1>0, <1>8 DEF MaReply, LiReply, Split, GiveUp, Answered, Exhausted
<1>9. CASE Deciding \/ Close
  BY <1>0, <1>9 DEF Deciding, Conclude, Approve, Close
<1> QED
  BY <1>1, <1>2, <1>3, <1>4, <1>5, <1>6, <1>7, <1>8, <1>9 DEF Next, Run, Preparing, Requesting

(* After a cancellation or the deadline at most one more request or        *)
(* preparation is submitted, by the thread and the executor together.      *)
THEOREM OneLateSubmission == Spec => []AtMostOneLate
<1>1. Init => LateInv
  BY DEF Init, LateInv, AtMostOneLate, Stopped
<1>2. Spec => []LateInv
  BY <1>1, TypeCorrect, CallInvariant, LateStep, PTL DEF Spec
<1> QED
  BY <1>2, PTL DEF LateInv

-----------------------------------------------------------------------------
(* What is locked is not sent.  The chunk under way was filtered by what   *)
(* is locked, and nothing is locked while it is under way.                 *)
SettledInv ==
    pc \in Busy \ {"skip"} => \A c \in Current.cands : ~ Touches(c, locked.tx, locked.rc)

(* A chunk is filtered when it is started.                                 *)
LEMMA SettledStart ==
    ASSUME TypeOK, LoopStart
    PROVE  SettledInv'
<1>1. /\ chunks \in Seq(Chunk) /\ idx \in DOMAIN chunks /\ Current \in Chunk
      /\ chunks' = [chunks EXCEPT ![idx] = Filtered(Current)]
      /\ idx' = idx /\ locked' = locked
  BY DEF LoopStart, InLoop, TypeOK, Current
<1>2. Current' = Filtered(Current)
  BY <1>1 DEF Current
<1>3. Filtered(Current).cands = Remaining(Current.cands, locked.tx, locked.rc)
  BY <1>1 DEF Filtered, Chunk
<1> QED
  BY <1>1, <1>2, <1>3 DEF SettledInv, Remaining

(* And nothing is locked until it is over.                                 *)
LEMMA SettledStep == TypeInv /\ SettledInv /\ [Next]_vars => SettledInv'
<1> SUFFICES ASSUME TypeInv, SettledInv, [Next]_vars PROVE SettledInv'
  OBVIOUS
<1> USE DEF SettledInv, Current, Busy
<1>1. CASE Cancel \/ Expire \/ UNCHANGED vars
  BY <1>1 DEF Cancel, Expire, vars
<1>2. CASE Planning
  BY <1>2 DEF Planning, PlanReply, EndCommands, EndSchedule, PlanExhausted, TakeCommand,
              ScheduleTask, Abort
<1>3. CASE LoopEnd \/ LoopStop \/ LoopSkip \/ Skip \/ LoopBlock
  BY <1>3 DEF LoopEnd, LoopStop, LoopSkip, Skip, LoopBlock, InLoop, Abort
<1>4. CASE LoopStart
  BY <1>4, SettledStart DEF TypeInv
<1>5. CASE Preparing \/ Executor
  BY <1>5 DEF Preparing, PrepareReuse, PrepareFresh, Submit, Await, Prefetch, PrefetchSubmit,
              EnterAssessment, Executor, PrepareStart, PrepareEnd, Abort
<1>6. CASE Requesting
  BY <1>6 DEF Requesting, RequestStop, RequestCheck, RequestSend, ReplyCancelled, ReplyBroken,
              ReplyTruncated, MaReply, LiReply, Split, GiveUp, Abort
<1>7. CASE Deciding \/ Close
  BY <1>7 DEF Deciding, Conclude, Approve, Close
<1> QED
  BY <1>1, <1>2, <1>3, <1>4, <1>5, <1>6, <1>7 DEF Next, Run, Looping

(* No request carries a candidate of a transaction or receipt that is      *)
(* confirmed or matched already.                                           *)
THEOREM SettledStaysHome == Spec => []SettledIsNotSent
<1>1. Init => SettledInv
  BY DEF Init, SettledInv, Busy
<1>2. SettledInv => SettledIsNotSent
  BY DEF SettledInv, SettledIsNotSent, Busy
<1>3. Spec => []SettledInv
  BY <1>1, TypeInvariant, SettledStep, PTL DEF Spec
<1> QED
  BY <1>2, <1>3, PTL

-----------------------------------------------------------------------------
(* The end.                                                                *)

(* Only Close ends a run, and nothing happens to an ended run.             *)
LEMMA EndedStep ==
    ASSUME EndedIsQuiet, CallInv, [Next]_vars
    PROVE  \/ Close
           \/ pc # "ended" /\ pc' # "ended"
           \/ pc = "ended" /\ pc' = "ended" /\ UNCHANGED <<planner, worker, approval, future, finals>>
<1> USE DEF CallInv, Asking
<1>1. CASE Cancel \/ Expire \/ UNCHANGED vars
  BY <1>1 DEF Cancel, Expire, vars
<1>2. CASE Planning
  BY <1>2 DEF Planning, PlanReply, EndCommands, EndSchedule, PlanExhausted, TakeCommand,
              ScheduleTask, Abort
<1>3. CASE Looping
  BY <1>3 DEF Looping, LoopEnd, LoopStop, LoopSkip, Skip, LoopBlock, LoopStart, InLoop, Abort
<1>4. CASE Preparing
  BY <1>4 DEF Preparing, PrepareReuse, PrepareFresh, Submit, Await, Prefetch, PrefetchSubmit,
              EnterAssessment, Abort
<1>5. CASE Requesting
  BY <1>5 DEF Requesting, RequestStop, RequestCheck, RequestSend, ReplyCancelled, ReplyBroken,
              ReplyTruncated, MaReply, LiReply, Split, GiveUp, Answered, Exhausted, Abort
<1>6. CASE Deciding
  BY <1>6 DEF Deciding, Conclude, Approve
<1>7. CASE Executor
  BY <1>7 DEF Executor, PrepareStart, PrepareEnd, EndedIsQuiet
<1> QED
  BY <1>1, <1>2, <1>3, <1>4, <1>5, <1>6, <1>7 DEF Next, Run

(* Closing leaves nothing active.                                          *)
LEMMA CloseIsQuiet ==
    ASSUME TypeOK, Close
    PROVE  EndedIsQuiet'
<1>1. future'.state \in {"idle", "done"}
  BY DEF Close
<1>2. \A t \in AllTasks : planner'[t] \notin Active
  BY DEF TypeOK, Close, Swept, Active
<1>3. \A j \in Job : worker'[j] \notin Active /\ approval'[j] \notin Active
  BY DEF TypeOK, Close, Swept, Active
<1> QED
  BY <1>1, <1>2, <1>3 DEF EndedIsQuiet

(* When the run is over the executor has stopped and no task is left       *)
(* active.                                                                 *)
THEOREM EndIsQuiet == Spec => []EndedIsQuiet
<1>1. Init => EndedIsQuiet
  BY DEF Init, EndedIsQuiet
<1>2. TypeOK /\ CallInv /\ EndedIsQuiet /\ [Next]_vars => EndedIsQuiet'
  BY CloseIsQuiet, EndedStep DEF EndedIsQuiet
<1> QED
  BY <1>1, <1>2, TypeCorrect, CallInvariant, PTL DEF Spec

(* A run that is stopped falls silent, and one that is over stays so.      *)
THEOREM StopIsQuiet == Spec => []QuietAfterStop
  BY OneLateSubmission, EndIsQuiet, PTL DEF QuietAfterStop

-----------------------------------------------------------------------------
(* Refinement.  The ledger is what the completed assessments decided.      *)
Assessed == UNION {f.decisions : f \in finals}

(* What is assessed is consistent, by the theorems above.                  *)
LEMMA AssessedConsistent ==
    ASSUME TypeOK, UsedInv, WholeInv
    PROVE  Ledger!Consistent(Assessed)
<1>1. Assessed \subseteq Decided /\ Assessed \subseteq Decision
  BY RunAssumption DEF Assessed, Decided, TypeOK, Finals
<1>2. \A d, e \in Assessed : d # e => d.tx # e.tx /\ d.ids \cap e.ids = {}
  BY <1>1 DEF UsedInv, NoDoubleUse
<1>3. \A d \in Assessed : d.tx \notin ConfirmedTx /\ d.ids \cap ConfirmedReceipt = {}
  BY <1>1 DEF UsedInv, NoDoubleUse
<1>4. \A d \in Assessed : d.ids # {} =>
        \E r \in KernelRelations(Kernel) : r.tx = d.tx /\ r.ids = d.ids
  BY <1>1 DEF WholeInv, WholeRelations
<1> QED
  BY <1>1, <1>2, <1>3, <1>4
     DEF Ledger!Consistent, Ledger!Decision, Decision, Ledger!Recommendation, Recommendation,
         Ledger!KernelRelations, KernelRelations, Ledger!RelationOf, RelationOf, Ledger!Kernel, Kernel,
         Ledger!Mates, Mates, Ledger!Remaining, Remaining, Ledger!Touches, Touches

(* Only concluding an assessment adds to the ledger.                       *)
LEMMA AssessedFrame == [Next]_vars => Conclude \/ UNCHANGED finals
<1>1. Cancel \/ Expire \/ Planning \/ UNCHANGED vars => UNCHANGED finals
  BY DEF vars, Cancel, Expire, Planning, PlanReply, EndCommands, EndSchedule, PlanExhausted,
         TakeCommand, ScheduleTask
<1>2. Looping => UNCHANGED finals
  BY DEF Looping, LoopEnd, LoopStop, LoopSkip, Skip, LoopBlock, LoopStart
<1>3. Preparing \/ Executor => UNCHANGED finals
  BY DEF Preparing, PrepareReuse, PrepareFresh, Submit, Await, Prefetch, PrefetchSubmit,
         Executor, PrepareStart, PrepareEnd
<1>4. Requesting \/ Close \/ (\E d \in Verdicts : Approve(d)) => UNCHANGED finals
  BY DEF Requesting, RequestStop, RequestCheck, RequestSend, ReplyCancelled, ReplyBroken,
         ReplyTruncated, MaReply, LiReply, Split, GiveUp, Close, Approve
<1> QED
  BY <1>1, <1>2, <1>3, <1>4 DEF Next, Run, Deciding

(* Every step of the run is a step of the ledger, or leaves it alone.      *)
LEMMA LedgerStep ==
    ASSUME TypeOK, TypeOK', UsedInv', WholeInv', CallInv, EndedIsQuiet, [Next]_vars
    PROVE  [Ledger!Next]_<<UNION {f.decisions : f \in finals}, pc # "ended">>
<1>1. CASE Close
  <2>1. pc # "ended" /\ pc' = "ended" /\ finals' = finals
    BY <1>1 DEF Close
  <2> QED
    BY <2>1 DEF Ledger!Next, Ledger!Seal
<1>2. CASE Conclude
  <2>1. pc # "ended" /\ pc' # "ended" /\ finals \subseteq finals'
    BY <1>2 DEF Conclude
  <2>2. Assessed \subseteq Assessed'
    BY <2>1 DEF Assessed
  <2>3. Ledger!Consistent(Assessed)'
    BY AssessedConsistent, PTL
  <2> QED
    BY <2>1, <2>2, <2>3 DEF Ledger!Next, Ledger!Record, Assessed
<1>3. CASE ~ Close /\ ~ Conclude
  <2>1. finals' = finals
    BY <1>3, AssessedFrame
  <2>2. (pc # "ended") = (pc' # "ended")
    BY <1>3, EndedStep
  <2> QED
    BY <2>1, <2>2
<1> QED
  BY <1>1, <1>2, <1>3

(* The run implements the ledger: what a full or partial result returns    *)
(* only grows, is consistent at every moment and is sealed once.           *)
THEOREM RunKeepsLedger == Spec => KeepsLedger
<1>1. Init => Ledger!Init
  BY DEF Init, Ledger!Init
<1>2. Init => UsedInv
  BY DEF Init, UsedInv, NoDoubleUse, Decided, Confirmed
<1>3. Spec => []UsedInv
  BY <1>2, TypeCorrect, UsedStep, PTL DEF Spec
<1>4. TypeOK /\ TypeOK' /\ UsedInv' /\ WholeInv' /\ CallInv /\ EndedIsQuiet /\ [Next]_vars
      => [Ledger!Next]_<<UNION {f.decisions : f \in finals}, pc # "ended">>
  BY LedgerStep
<1> QED
  BY <1>1, <1>3, <1>4, TypeCorrect, WholeInvariant, CallInvariant, EndIsQuiet, PTL
     DEF Spec, KeepsLedger, Ledger!Spec
=============================================================================
