---------------------------- MODULE AgenticAudit ----------------------------
(***************************************************************************)
(* One run of agentic_audit.py, from the moment it holds AUDIT_SKILL_LOCK: *)
(* the planner (Li) commands tasks, the tasks are cut into chunks, the     *)
(* evidence worker (Ma) reviews each chunk, Li assesses it, and what Li    *)
(* matched is taken out of the chunks that follow.  Three actors           *)
(* interleave: the run's own thread, the one-slot executor that prepares a *)
(* chunk while Li assesses the previous one, and the environment, which    *)
(* answers, truncates, times out, cancels and lets the deadline pass.      *)
(***************************************************************************)
EXTENDS AuditRelations, Sequences

CONSTANTS
    Task,           \* identifiers Li may give to tasks
    KernelTask,     \* "kernel-unassigned", the task of the leftovers
    Operation,      \* operations a task may ask for
    Commands,       \* the commands Li may put in a plan
    Claims,         \* the observations Ma may send, true or not
    Verdicts,       \* the decisions Li may send, acceptable or not
    Rank,           \* order of the transactions: category, then event date
    MaxChunkTx,     \* MAX_WORKER_CHUNK_TRANSACTIONS
    MaxChunkSize,   \* MAX_WORKER_CHUNK_CANDIDATES
    MaxChunks,      \* MAX_AGENTIC_CHUNKS
    PriorApproved   \* jobs whose "approve:" entry an earlier round completed

AllTasks == Task \cup {KernelTask}

(* A task as Li commands it, once its scope is resolved to candidates.     *)
Command == [id : AllTasks, op : Operation, scope : SUBSET Source, deps : SUBSET AllTasks]

ASSUME RunAssumption ==
    /\ Kernel # {}
    /\ KernelTask \notin Task
    /\ Commands \subseteq Command
    /\ Claims \subseteq Observation
    /\ Verdicts \subseteq Decision
    /\ Rank \in [Transaction -> Nat]
    /\ \A t, u \in Transaction : Rank[t] = Rank[u] => t = u
    /\ MaxChunkTx \in Nat \ {0}
    /\ MaxChunkSize \in Nat \ {0}
    /\ MaxChunks \in Nat \ {0}
    /\ PriorApproved \subseteq [task : AllTasks, txs : SUBSET Transaction]

VARIABLES
    pc,         \* where the run's thread is
    call,       \* the model request under way: "none", "checked" or "sent"
    attempt,    \* which attempt of the request it is
    tasks,      \* the normalised plan
    pending,    \* the tasks of the plan that are not cut into chunks yet
    planner,    \* task -> status, in the planner's task list
    worker,     \* job -> status, in the evidence worker's task list
    approval,   \* job -> status of its "approve:" entry in the planner's list
    chunks,     \* the jobs, in execution order
    idx,        \* batch_index
    evidence,   \* reused_workers: what Ma answered, chunk by chunk
    future,     \* the executor's slot
    finals,     \* Li's completed assessments
    draft,      \* decisions of the assessment under way
    used,       \* transactions and receipts some decision used
    locked,     \* transactions and receipts confirmed or matched
    incomplete, \* why chunks were left for manual review
    cancelled,  \* cancel_requested
    expired,    \* less than a second is left before the deadline
    error,      \* what ended the run early, or "none"
    late        \* submissions made after a cancellation or the deadline

runVars    == <<call, attempt>>
planVars   == <<tasks, pending>>
statusVars == <<planner, worker, approval>>
bookVars   == <<evidence, finals, draft, used, locked>>
endVars    == <<incomplete, error>>
envVars    == <<cancelled, expired>>
vars == <<pc, runVars, planVars, statusVars, chunks, idx, bookVars, future, endVars,
          envVars, late>>

(* A job: one task restricted to the transactions of one chunk.  Chunks of *)
(* a task never share a transaction, so this identifies the task_id.       *)
Job == [task : AllTasks, txs : SUBSET Transaction]

Chunk == [job : Job, cands : SUBSET Source]

NewChunk(t, S) == [job |-> [task |-> t, txs |-> Txs(S)], cands |-> S]

Finals == [chunk : Chunk, decisions : SUBSET Verdicts]

Idle == [state |-> "idle"]

Slot == {Idle} \cup [state : {"queued", "running", "done"}, chunk : Chunk]

Active == {"pending", "preparing", "prepared", "running"}

Terminal == {"completed", "partial", "blocked", "cancelled", "failed", "superseded"}

Status == {"absent"} \cup Active \cup Terminal

Asking == {"plan", "ma", "li"}

Stages == Asking \cup {"commands", "schedule", "loop", "skip", "prepare", "submit", "await",
                       "prefetch", "presubmit", "approve", "closing", "ended"}

Errors == {"none", "cancelled", "deadline", "timeout", "limit", "failed"}

TypeOK ==
    /\ pc \in Stages
    /\ call \in {"none", "checked", "sent"}
    /\ attempt \in {1, 2}
    /\ tasks \subseteq Command /\ pending \subseteq tasks
    /\ planner \in [AllTasks -> Status]
    /\ worker \in [Job -> Status] /\ approval \in [Job -> Status]
    /\ chunks \in Seq(Chunk)
    /\ idx \in Nat \ {0}
    /\ evidence \subseteq [chunk : Chunk, obs : SUBSET Claims, handed : BOOLEAN]
    /\ future \in Slot
    /\ finals \subseteq Finals /\ draft \subseteq Verdicts
    /\ used \in [tx : SUBSET Transaction, rc : SUBSET Receipt]
    /\ locked \in [tx : SUBSET Transaction, rc : SUBSET Receipt]
    /\ incomplete \subseteq {"limit", "timeout", "blocked"}
    /\ cancelled \in BOOLEAN /\ expired \in BOOLEAN
    /\ error \in Errors
    /\ late \in Nat

Confirmed == [tx |-> ConfirmedTx, rc |-> ConfirmedReceipt]

Init ==
    /\ pc = "plan"
    /\ call = "none" /\ attempt = 1
    /\ tasks = {} /\ pending = {}
    /\ planner = [t \in AllTasks |-> "absent"]
    /\ worker = [j \in Job |-> "absent"]
    /\ approval = [j \in Job |-> IF j \in PriorApproved THEN "completed" ELSE "absent"]
    /\ chunks = << >> /\ idx = 1
    /\ evidence = {} /\ finals = {} /\ draft = {}
    /\ future = Idle
    /\ used = Confirmed /\ locked = Confirmed
    /\ incomplete = {} /\ error = "none"
    /\ cancelled = FALSE /\ expired = FALSE
    /\ late = 0

-----------------------------------------------------------------------------
(* Stopping.  Both flags are only looked at by check_active, stopped and   *)
(* the head of _request_agent; what is submitted after that check and      *)
(* before the next one is counted in "late".                               *)
Stopped == cancelled \/ expired

Abort(why) == pc' = "closing" /\ error' = why

StopReason == IF cancelled THEN "cancelled" ELSE "deadline"

Late == IF Stopped THEN late + 1 ELSE late

Cancel ==
    /\ pc # "ended" /\ ~ cancelled
    /\ cancelled' = TRUE
    /\ UNCHANGED <<pc, runVars, planVars, statusVars, chunks, idx, bookVars, future, endVars,
                   expired, late>>

Expire ==
    /\ pc # "ended" /\ ~ expired
    /\ expired' = TRUE
    /\ UNCHANGED <<pc, runVars, planVars, statusVars, chunks, idx, bookVars, future, endVars,
                   cancelled, late>>

-----------------------------------------------------------------------------
(* The planner's list of tasks and the order of the jobs.                  *)

(* The scope of a command cannot slice a kernel group: candidates whose    *)
(* relation the scope makes smaller are dropped.                           *)
WholeGroups(S) == {c \in S \cap Kernel : RelationOf(c, S \cap Kernel) = RelationOf(c, Kernel)}

Normalised(m) == [m EXCEPT !.scope = WholeGroups(m.scope)]

ScopeKey(m) == <<m.op, Txs(m.scope), UNION {ReceiptsOf[c] : c \in m.scope}>>

TakeCommand(m) ==
    /\ pc = "commands"
    /\ \A t \in tasks : t.id # m.id /\ ScopeKey(t) # ScopeKey(Normalised(m))
    /\ tasks' = tasks \cup {Normalised(m)}
    /\ UNCHANGED <<pc, runVars, pending, statusVars, chunks, idx, bookVars, future, endVars,
                   envVars, late>>

\* Faulty variant: a transaction named by some task counts as covered.
LeftoversByTx == {c \in Kernel : \A t \in tasks : TxOf[c] \notin Txs(t.scope)}

Leftovers == Kernel \ UNION {t.scope : t \in tasks}

EndCommands ==
    /\ pc = "commands"
    /\ pc' = "schedule"
    /\ \E op \in Operation :
         tasks' = IF Leftovers = {} THEN tasks
                  ELSE tasks \cup {[id |-> KernelTask, op |-> op, scope |-> Leftovers, deps |-> {}]}
    /\ pending' = tasks'
    /\ UNCHANGED <<runVars, statusVars, chunks, idx, bookVars, future, endVars, envVars, late>>

(* The ways to cut the candidates S into chunks: transactions stay whole   *)
(* and in order, and only a single transaction may exceed the limits.  The *)
(* code cuts as late as the limits and the token budget of a chunk allow;  *)
(* texts being abstracted, any chunk may be the one that met its budget.   *)
FitsChunk(S) ==
    \/ Cardinality(Txs(S)) <= 1
    \/ Cardinality(Txs(S)) <= MaxChunkTx /\ Cardinality(S) <= MaxChunkSize

Part(S, T) == {c \in S : TxOf[c] \in T}

Layouts(S) ==
    {l \in UNION {[1..n -> (SUBSET Txs(S)) \ {{}}] : n \in 0..Cardinality(Txs(S))} :
        /\ UNION {l[i] : i \in DOMAIN l} = Txs(S)
        /\ \A i, j \in DOMAIN l : i < j => \A t \in l[i], u \in l[j] : Rank[t] < Rank[u]
        /\ \A i \in DOMAIN l : FitsChunk(Part(S, l[i]))}

Scheduled == {t.id : t \in tasks \ pending}

Ready(t) == t \in pending /\ t.deps \subseteq Scheduled

(* The priorities in Li's plan are arbitrary: any ready task may be next.  *)
ScheduleTask(t) ==
    /\ pc = "schedule"
    /\ Ready(t)
    /\ pending' = pending \ {t}
    /\ \E l \in Layouts(t.scope) :
         LET jobs == [i \in DOMAIN l |-> NewChunk(t.id, Part(t.scope, l[i]))]
         IN  /\ chunks' = chunks \o jobs
             /\ worker' = [j \in Job |-> IF \E i \in DOMAIN jobs : jobs[i].job = j
                                         THEN "pending" ELSE worker[j]]
    /\ planner' = [planner EXCEPT ![t.id] = "pending"]
    /\ UNCHANGED <<pc, runVars, tasks, approval, idx, bookVars, future, endVars, envVars, late>>

EndSchedule ==
    /\ pc = "schedule"
    /\ \A t \in pending : ~ Ready(t)
    /\ planner' = [i \in AllTasks |-> IF \E t \in pending : t.id = i
                                      THEN "blocked" ELSE planner[i]]
    /\ IF Len(chunks) > MaxChunks
       THEN Abort("failed") /\ UNCHANGED incomplete
       ELSE /\ pc' = "loop"
            /\ incomplete' = IF pending = {} THEN incomplete ELSE incomplete \cup {"blocked"}
            /\ UNCHANGED error
    /\ UNCHANGED <<runVars, planVars, worker, approval, chunks, idx, bookVars, future, envVars,
                   late>>

-----------------------------------------------------------------------------
(* The head of the loop over the chunks.                                   *)
Current == chunks[idx]

InLoop == pc = "loop" /\ idx <= Len(chunks)

Obs(ch) == UNION {e.obs : e \in {f \in evidence : f.chunk = ch}}

HasEvidence(ch) == \E e \in evidence : e.chunk = ch

(* Ma was not asked about ch: a split handed its parent's answer down.     *)
Inherited(ch) == \E e \in evidence : e.chunk = ch /\ e.handed

\* Faulty variant: chunks are sent as they were cut.
Unfiltered(ch) == ch

Filtered(ch) == [ch EXCEPT !.cands = Remaining(ch.cands, locked.tx, locked.rc)]

TaskOf(ch) == CHOOSE t \in tasks : t.id = ch.job.task

\* Faulty variant: a task that ended with open jobs counts as done.
DependenciesOver(ch) == \A d \in TaskOf(ch).deps : planner[d] \in {"completed", "partial"}

DependenciesReady(ch) == \A d \in TaskOf(ch).deps : planner[d] = "completed"

(* finish_parent: the status of the chunk's task once its "approve:"       *)
(* entries are as in "entries".                                            *)
ParentStatus(ch, entries) ==
    IF \A i \in DOMAIN chunks :
         chunks[i].job.task = ch.job.task => entries[chunks[i].job] = "completed"
    THEN "completed" ELSE "partial"

LoopEnd ==
    /\ pc = "loop" /\ idx > Len(chunks)
    /\ pc' = "closing"
    /\ UNCHANGED <<runVars, planVars, statusVars, chunks, idx, bookVars, future, endVars,
                   envVars, late>>

LoopStop ==
    /\ InLoop /\ Stopped
    /\ Abort(StopReason)
    /\ UNCHANGED <<runVars, planVars, statusVars, chunks, idx, bookVars, future, incomplete,
                   envVars, late>>

LoopSkip ==
    /\ InLoop /\ ~ Stopped
    /\ Filtered(Current).cands = {}
    /\ pc' = "skip"
    /\ UNCHANGED <<runVars, planVars, statusVars, chunks, idx, bookVars, future, endVars,
                   envVars, late>>

\* Faulty variant: does not wait for the chunk's own preparation.
SkipAtOnce ==
    /\ pc = "skip"
    /\ worker' = [worker EXCEPT ![Current.job] = "completed"]
    /\ approval' = [approval EXCEPT ![Current.job] = "completed"]
    /\ planner' = [planner EXCEPT ![Current.job.task] = ParentStatus(Current, approval')]
    /\ idx' = idx + 1 /\ pc' = "loop"
    /\ UNCHANGED <<runVars, planVars, chunks, bookVars, future, endVars, envVars, late>>

(* Everything in the chunk is settled: once its own preparation is over,   *)
(* its entries are completed without asking anybody.                       *)
Skip ==
    /\ pc = "skip"
    /\ IF future.state # "idle" /\ future.chunk = Current
       THEN future.state = "done" /\ future' = Idle
       ELSE UNCHANGED future
    /\ worker' = [worker EXCEPT ![Current.job] = "completed"]
    /\ approval' = [approval EXCEPT ![Current.job] = "completed"]
    /\ planner' = [planner EXCEPT ![Current.job.task] = ParentStatus(Current, approval')]
    /\ idx' = idx + 1
    /\ pc' = "loop"
    /\ UNCHANGED <<runVars, planVars, chunks, bookVars, endVars, envVars, late>>

LoopBlock ==
    /\ InLoop /\ ~ Stopped
    /\ Filtered(Current).cands # {}
    /\ ~ DependenciesReady(Current)
    /\ chunks' = [chunks EXCEPT ![idx] = Filtered(Current)]
    /\ incomplete' = incomplete \cup {"blocked"}
    /\ worker' = [worker EXCEPT ![Current.job] = "blocked"]
    /\ approval' = [approval EXCEPT ![Current.job] = "blocked"]
    /\ idx' = idx + 1
    /\ UNCHANGED <<pc, runVars, planVars, planner, bookVars, future, error, envVars, late>>

(* Ma's answer is reused when this very chunk was reviewed before.         *)
LoopStart ==
    /\ InLoop /\ ~ Stopped
    /\ Filtered(Current).cands # {}
    /\ DependenciesReady(Current)
    /\ chunks' = [chunks EXCEPT ![idx] = Filtered(Current)]
    /\ planner' = [planner EXCEPT ![Current.job.task] = "running"]
    /\ IF HasEvidence(Filtered(Current))
       THEN pc' = "prefetch" /\ worker' = [worker EXCEPT ![Current.job] = "completed"]
       ELSE pc' = "prepare" /\ UNCHANGED worker
    /\ UNCHANGED <<runVars, planVars, approval, idx, bookVars, future, endVars, envVars, late>>

-----------------------------------------------------------------------------
(* The executor's slot.  A preparation of another chunk is waited for and  *)
(* thrown away.                                                            *)
PrepareReuse ==
    /\ pc = "prepare"
    /\ future.state # "idle" /\ future.chunk = Current
    /\ pc' = "await"
    /\ UNCHANGED <<runVars, planVars, statusVars, chunks, idx, bookVars, future, endVars,
                   envVars, late>>

PrepareFresh ==
    /\ pc = "prepare"
    /\ future.state = "idle" \/ (future.state = "done" /\ future.chunk # Current)
    /\ future' = Idle
    /\ IF Stopped THEN Abort(StopReason) ELSE pc' = "submit" /\ UNCHANGED error
    /\ UNCHANGED <<runVars, planVars, statusVars, chunks, idx, bookVars, incomplete, envVars,
                   late>>

Submit ==
    /\ pc = "submit"
    /\ future' = [state |-> "queued", chunk |-> Current]
    /\ pc' = "await"
    /\ late' = Late
    /\ UNCHANGED <<runVars, planVars, statusVars, chunks, idx, bookVars, endVars, envVars>>

\* Faulty variant: does not wait for the chunk's own preparation.
AwaitAtOnce ==
    /\ pc = "await"
    /\ IF Stopped
       THEN Abort(StopReason) /\ UNCHANGED worker
       ELSE /\ pc' = "ma" /\ UNCHANGED error
            /\ worker' = [worker EXCEPT ![Current.job] = "running"]
    /\ UNCHANGED <<runVars, planVars, planner, approval, chunks, idx, bookVars, future,
                   incomplete, envVars, late>>

Await ==
    /\ pc = "await"
    /\ future.state = "done"
    /\ future' = Idle
    /\ IF Stopped
       THEN Abort(StopReason) /\ UNCHANGED worker
       ELSE /\ pc' = "ma" /\ UNCHANGED error
            /\ worker' = [worker EXCEPT ![Current.job] = "running"]
    /\ UNCHANGED <<runVars, planVars, planner, approval, chunks, idx, bookVars, incomplete,
                   envVars, late>>

(* While Li assesses this chunk, the next one may be prepared.             *)
Lookahead ==
    /\ idx < Len(chunks)
    /\ future.state = "idle"
    /\ DependenciesReady(chunks[idx + 1])

EnterAssessment ==
    /\ pc' = "li"
    /\ approval' = [approval EXCEPT ![Current.job] = "running"]

Prefetch ==
    /\ pc = "prefetch"
    /\ \/ ~ Lookahead /\ EnterAssessment /\ UNCHANGED error
       \/ Lookahead /\ Stopped /\ Abort(StopReason) /\ UNCHANGED approval
       \/ Lookahead /\ ~ Stopped /\ pc' = "presubmit" /\ UNCHANGED <<approval, error>>
    /\ UNCHANGED <<runVars, planVars, planner, worker, chunks, idx, bookVars, future,
                   incomplete, envVars, late>>

PrefetchSubmit ==
    /\ pc = "presubmit"
    /\ future' = [state |-> "queued", chunk |-> chunks[idx + 1]]
    /\ EnterAssessment
    /\ late' = Late
    /\ UNCHANGED <<runVars, planVars, planner, worker, chunks, idx, bookVars, endVars, envVars>>

\* Faulty variant: a preparation that sees the stop flag never returns.
PrepareStartHangs ==
    /\ future.state = "queued" /\ ~ Stopped
    /\ future' = [future EXCEPT !.state = "running"]
    /\ worker' = [worker EXCEPT ![future.chunk.job] = "preparing"]
    /\ UNCHANGED <<pc, runVars, planVars, planner, approval, chunks, idx, bookVars, endVars,
                   envVars, late>>

(* The executor thread: AuditNotebooks.prepare.                            *)
PrepareStart ==
    /\ future.state = "queued"
    /\ IF Stopped
       THEN future' = [future EXCEPT !.state = "done"] /\ UNCHANGED worker
       ELSE /\ future' = [future EXCEPT !.state = "running"]
            /\ worker' = [worker EXCEPT ![future.chunk.job] = "preparing"]
    /\ UNCHANGED <<pc, runVars, planVars, planner, approval, chunks, idx, bookVars, endVars,
                   envVars, late>>

PrepareEnd ==
    /\ future.state = "running"
    /\ future' = [future EXCEPT !.state = "done"]
    /\ worker' = [worker EXCEPT ![future.chunk.job] = IF Stopped THEN "cancelled" ELSE "prepared"]
    /\ UNCHANGED <<pc, runVars, planVars, planner, approval, chunks, idx, bookVars, endVars,
                   envVars, late>>

-----------------------------------------------------------------------------
(* Model requests, one at a time: Li's plan, Ma's review, Li's assessment. *)
\* Faulty variant: one attempt too many.
AttemptsPlus == 3

Attempts == IF pc # "plan" /\ Cardinality(Txs(Current.cands)) > 1 THEN 1 ELSE 2

RequestStop ==
    /\ pc \in Asking /\ call = "none" /\ Stopped
    /\ Abort(StopReason)
    /\ UNCHANGED <<runVars, planVars, statusVars, chunks, idx, bookVars, future, incomplete,
                   envVars, late>>

\* Faulty variant: the stop flags are not looked at.
RequestUnchecked ==
    /\ pc \in Asking /\ call = "none"
    /\ call' = "checked"
    /\ UNCHANGED <<pc, attempt, planVars, statusVars, chunks, idx, bookVars, future, endVars,
                   envVars, late>>

RequestCheck ==
    /\ pc \in Asking /\ call = "none" /\ ~ Stopped
    /\ call' = "checked"
    /\ UNCHANGED <<pc, attempt, planVars, statusVars, chunks, idx, bookVars, future, endVars,
                   envVars, late>>

RequestSend ==
    /\ call = "checked"
    /\ call' = "sent"
    /\ late' = Late
    /\ UNCHANGED <<pc, attempt, planVars, statusVars, chunks, idx, bookVars, future, endVars,
                   envVars>>

Answered == call = "sent" /\ call' = "none" /\ attempt' = 1

(* The stream of an answer is given up when cancellation is noticed.       *)
ReplyCancelled ==
    /\ Answered /\ cancelled
    /\ Abort("cancelled")
    /\ UNCHANGED <<planVars, statusVars, chunks, idx, bookVars, future, incomplete, envVars, late>>

(* The server fails, or answers something else than the JSON asked for.    *)
ReplyBroken ==
    /\ Answered
    /\ Abort("failed")
    /\ UNCHANGED <<planVars, statusVars, chunks, idx, bookVars, future, incomplete, envVars, late>>

ReplyTruncated ==
    /\ call = "sent" /\ attempt < Attempts
    /\ call' = "none" /\ attempt' = attempt + 1
    /\ UNCHANGED <<pc, planVars, statusVars, chunks, idx, bookVars, future, endVars, envVars, late>>

(* A truncated answer is final after the last attempt, a timeout at once.  *)
Exhausted(why) ==
    /\ Answered
    /\ \/ why = "limit" /\ attempt = Attempts
       \/ why = "timeout"

PlanExhausted(why) ==
    /\ pc = "plan" /\ Exhausted(why)
    /\ Abort(why)
    /\ UNCHANGED <<planVars, statusVars, chunks, idx, bookVars, future, incomplete, envVars, late>>

PlanReply ==
    /\ pc = "plan" /\ Answered
    /\ pc' = "commands"
    /\ UNCHANGED <<planVars, statusVars, chunks, idx, bookVars, future, endVars, envVars, late>>

(* _split_worker_chunk: the first and second half of the transactions.     *)
Halves(ch) ==
    LET S == ch.cands
        H == CHOOSE h \in SUBSET Txs(S) :
               /\ Cardinality(h) = Cardinality(Txs(S)) \div 2
               /\ \A t \in h, u \in Txs(S) \ h : Rank[t] < Rank[u]
    IN  <<NewChunk(ch.job.task, Part(S, H)), NewChunk(ch.job.task, Part(S, Txs(S) \ H))>>

Splittable == Cardinality(Txs(Current.cands)) > 1 /\ Len(chunks) < MaxChunks

(* recover_chunk, first branch: two smaller chunks take this one's place   *)
(* and inherit what Ma observed.                                           *)
Split ==
    /\ pc \in {"ma", "li"} /\ \E why \in {"limit", "timeout"} : Exhausted(why)
    /\ Splittable
    /\ pc' = "loop"
    /\ LET known    == HasEvidence(Current)
           halves   == Halves(Current)
           children == {halves[1], halves[2]}
       IN  /\ chunks' = SubSeq(chunks, 1, idx - 1) \o halves
                        \o SubSeq(chunks, idx + 1, Len(chunks))
           /\ worker' = [j \in Job |->
                CASE j = Current.job -> "superseded"
                  [] \E h \in children : h.job = j -> IF known THEN "completed" ELSE "pending"
                  [] OTHER -> worker[j]]
           /\ approval' = [approval EXCEPT ![Current.job] = "superseded"]
           /\ evidence' =
                {e \in evidence : e.chunk # Current}
                \cup (IF known
                      THEN {[chunk |-> h, obs |-> WorkerEvidence(Obs(Current), h.cands),
                             handed |-> TRUE] : h \in children}
                      ELSE {})
    /\ UNCHANGED <<planVars, planner, idx, finals, draft, used, locked, future, endVars,
                   envVars, late>>

(* recover_chunk, second branch: the chunk is left for manual review.      *)
GiveUp(why) ==
    /\ pc \in {"ma", "li"} /\ Exhausted(why)
    /\ ~ Splittable
    /\ pc' = "loop"
    /\ idx' = idx + 1
    /\ incomplete' = incomplete \cup {why}
    /\ worker' = [worker EXCEPT ![Current.job] =
                    IF HasEvidence(Current) THEN "completed" ELSE "partial"]
    /\ approval' = [approval EXCEPT ![Current.job] = "partial"]
    /\ planner' = [planner EXCEPT ![Current.job.task] = ParentStatus(Current, approval')]
    /\ UNCHANGED <<planVars, chunks, bookVars, future, error, envVars, late>>

(* Of several observations of one relation the first is kept.              *)
MaReply ==
    /\ pc = "ma" /\ Answered
    /\ pc' = "prefetch"
    /\ \E claims \in SUBSET Claims :
         /\ \A o, p \in claims : o.rel = p.rel => o = p
         /\ evidence' = evidence \cup
              {[chunk |-> Current, obs |-> WorkerEvidence(claims, Current.cands), handed |-> FALSE]}
    /\ worker' = [worker EXCEPT ![Current.job] = "completed"]
    /\ UNCHANGED <<planVars, planner, approval, chunks, idx, finals, draft, used, locked, future,
                   endVars, envVars, late>>

LiReply ==
    /\ pc = "li" /\ Answered
    /\ pc' = "approve"
    /\ UNCHANGED <<planVars, statusVars, chunks, idx, bookVars, future, endVars, envVars, late>>

-----------------------------------------------------------------------------
(* _approved_decisions, one decision of Li's answer at a time: what is not *)
(* acceptable is dropped without a trace.                                  *)
Approve(d) ==
    /\ pc = "approve"
    /\ Acceptable(d, Obs(Current), Current.cands, used.tx, used.rc)
    /\ draft' = draft \cup {d}
    /\ used' = [tx |-> used.tx \cup {d.tx}, rc |-> used.rc \cup d.ids]
    /\ UNCHANGED <<pc, runVars, planVars, statusVars, chunks, idx, evidence, finals, locked,
                   future, endVars, envVars, late>>

Matches(D) == {d \in D : d.rec = "match"}

\* Faulty variant: only the last assessment is remembered.
ConcludeOverwrites ==
    /\ pc = "approve"
    /\ finals' = {[chunk |-> Current, decisions |-> draft]}
    /\ draft' = {}
    /\ locked' = [tx |-> locked.tx \cup {d.tx : d \in Matches(draft)},
                  rc |-> locked.rc \cup UNION {d.ids : d \in Matches(draft)}]
    /\ approval' = [approval EXCEPT ![Current.job] = "completed"]
    /\ planner' = [planner EXCEPT ![Current.job.task] = ParentStatus(Current, approval')]
    /\ idx' = idx + 1 /\ pc' = "loop"
    /\ UNCHANGED <<runVars, planVars, worker, chunks, evidence, used, future, endVars, envVars, late>>

(* The answer is through: its matches are locked, the assessment is        *)
(* recorded and the chunk's entries are completed.                         *)
Conclude ==
    /\ pc = "approve"
    /\ finals' = finals \cup {[chunk |-> Current, decisions |-> draft]}
    /\ draft' = {}
    /\ locked' = [tx |-> locked.tx \cup {d.tx : d \in Matches(draft)},
                  rc |-> locked.rc \cup UNION {d.ids : d \in Matches(draft)}]
    /\ approval' = [approval EXCEPT ![Current.job] = "completed"]
    /\ planner' = [planner EXCEPT ![Current.job.task] = ParentStatus(Current, approval')]
    /\ idx' = idx + 1
    /\ pc' = "loop"
    /\ UNCHANGED <<runVars, planVars, worker, chunks, evidence, used, future, endVars, envVars, late>>

(* The executor is shut down, then the lock released, then what is still   *)
(* active is closed.                                                       *)
Swept(list) ==
    LET closed == CASE error = "failed"    -> "failed"
                    [] error = "cancelled" -> "cancelled"
                    [] OTHER               -> "partial"
    IN  [x \in DOMAIN list |-> IF list[x] \in Active THEN closed ELSE list[x]]

\* Faulty variant: does not wait for the executor.
CloseAtOnce ==
    /\ pc = "closing" /\ pc' = "ended"
    /\ planner' = Swept(planner) /\ worker' = Swept(worker) /\ approval' = Swept(approval)
    /\ UNCHANGED <<runVars, planVars, chunks, idx, bookVars, future, endVars, envVars, late>>

Close ==
    /\ pc = "closing"
    /\ future.state \in {"idle", "done"}
    /\ pc' = "ended"
    /\ planner' = Swept(planner) /\ worker' = Swept(worker) /\ approval' = Swept(approval)
    /\ UNCHANGED <<runVars, planVars, chunks, idx, bookVars, future, endVars, envVars, late>>

(* What the caller is told.                                                *)
Outcome ==
    CASE pc # "ended"                           -> "processing"
      [] pc = "ended" /\ error = "failed"       -> "failed"
      [] pc = "ended" /\ error = "none" /\ incomplete = {} -> "completed"
      [] OTHER                                  -> "partial"

-----------------------------------------------------------------------------
Planning ==
    \/ PlanReply \/ EndCommands \/ EndSchedule
    \/ \E why \in {"limit", "timeout"} : PlanExhausted(why)
    \/ \E m \in Commands : TakeCommand(m)
    \/ \E t \in tasks : ScheduleTask(t)

Looping == LoopEnd \/ LoopStop \/ LoopSkip \/ Skip \/ LoopBlock \/ LoopStart

Preparing == PrepareReuse \/ PrepareFresh \/ Submit \/ Await \/ Prefetch \/ PrefetchSubmit

Requesting ==
    \/ RequestStop \/ RequestCheck \/ RequestSend
    \/ ReplyCancelled \/ ReplyBroken \/ ReplyTruncated
    \/ MaReply \/ LiReply \/ Split
    \/ \E why \in {"limit", "timeout"} : GiveUp(why)

Deciding == Conclude \/ \E d \in Verdicts : Approve(d)

Run == Planning \/ Looping \/ Preparing \/ Requesting \/ Deciding \/ Close

Executor == PrepareStart \/ PrepareEnd

Next == Run \/ Executor \/ Cancel \/ Expire

(* The run's thread and the executor are threads that nobody suspends, and *)
(* every request is answered, if only by its timeout.                      *)
Fairness == WF_vars(Run) /\ WF_vars(Executor)

Spec == Init /\ [][Next]_vars

FairSpec == Spec /\ Fairness

-----------------------------------------------------------------------------
(* Properties.                                                             *)

Decided == draft \cup UNION {f.decisions : f \in finals}

(* No transaction and no receipt is decided twice in a round, across all   *)
(* chunks, splits and filters, and nothing confirmed earlier is decided    *)
(* again: what _approved_decisions owes to used_transactions and           *)
(* used_receipts.                                                          *)
NoDoubleUse ==
    /\ \A d, e \in Decided : d # e => d.tx # e.tx /\ d.ids \cap e.ids = {}
    /\ \A d \in Decided : d.tx \notin ConfirmedTx /\ d.ids \cap ConfirmedReceipt = {}

(* A decision that names receipts is a whole relation of the round's       *)
(* kernel, however often its chunk was scoped, filtered or split: no       *)
(* subset of a reimbursement group is ever decided.                        *)
WholeRelations ==
    \A d \in Decided : d.ids # {} =>
        \E r \in KernelRelations(Kernel) : r.tx = d.tx /\ r.ids = d.ids

(* A match rests on a solid observation Ma made of the very chunk Li       *)
(* assessed.                                                               *)
MatchesAreFounded ==
    \A f \in finals, d \in Decided :
        d \in f.decisions /\ d.rec = "match" =>
            d.sure /\ \E o \in Obs(f.chunk) : About(o, d) /\ o.solid

(* What Li matched is not sent to a model again: no request carries a      *)
(* candidate of a locked transaction or receipt.                           *)
SettledIsNotSent ==
    pc \in {"ma", "li"} /\ call = "sent" =>
        \A c \in Current.cands : ~ Touches(c, locked.tx, locked.rc)

(* A chunk is worked on only when every job of every task it depends on    *)
(* was completed by Li, in this round.                                     *)
DependenciesFirst ==
    pc \in {"prepare", "submit", "await", "ma", "prefetch", "presubmit", "li", "approve"} =>
        \A d \in TaskOf(Current).deps, i \in DOMAIN chunks :
            chunks[i].job.task = d => i < idx /\ approval[chunks[i].job] = "completed"

(* A round reported without an error code left no kernel candidate behind: *)
(* each was in a chunk Li assessed, or is touched, or has a group mate     *)
(* touched, by what is locked.                                             *)
CompletedMeansReviewed ==
    Outcome = "completed" =>
        Remaining(Kernel, locked.tx, locked.rc) \subseteq UNION {f.chunk.cands : f \in finals}

(* When the run is over (and AUDIT_SKILL_LOCK free) the executor has       *)
(* stopped and no task is left pending, preparing, prepared or running.    *)
EndedIsQuiet ==
    pc = "ended" =>
        /\ future.state \in {"idle", "done"}
        /\ \A t \in AllTasks : planner[t] \notin Active
        /\ \A j \in Job : worker[j] \notin Active /\ approval[j] \notin Active

(* After a cancellation or the deadline at most one more request or        *)
(* preparation is submitted: the one whose check was already passed.       *)
AtMostOneLate == late <= 1

(* A run that is stopped falls silent, and one that is over stays so.      *)
QuietAfterStop == AtMostOneLate /\ EndedIsQuiet

(* The entries of a chunk the loop has left are never written again: not   *)
(* by the run, and not by the executor, which prepared the chunk while     *)
(* another was assessed, may be late, and would put "prepared" in place of *)
(* "completed".  Only a chunk to which a split handed Ma's answer down is  *)
(* excepted: nobody waits for a preparation submitted for it before        *)
(* (agentic_audit.py:1095), and the late "prepared" does come.             *)
PassedIsSettled ==
    [][\A i \in 1..(idx - 1) : i \in DOMAIN chunks =>
          LET j == chunks[i].job
          IN  /\ approval'[j] = approval[j]
              /\ worker'[j] = worker[j] \/ Inherited(chunks[i])]_vars

(* Every run ends, whatever the models and the executor do.                *)
Termination == <>(pc = "ended")

(* A task of the plan whose entry says "completed" has had each of its     *)
(* jobs assessed or skipped in this round.                                 *)
CompletedTaskIsDone ==
    pc = "ended" =>
        \A t \in tasks, i \in DOMAIN chunks :
            planner[t.id] = "completed" /\ chunks[i].job.task = t.id => i < idx

(* A chunk is only reported blocked because a task it depends on was never *)
(* scheduled, or has a job that Li did not complete.                       *)
BlockedHasCause ==
    \A i \in DOMAIN chunks : worker[chunks[i].job] = "blocked" =>
        \E d \in TaskOf(chunks[i]).deps :
            \/ d \notin Scheduled
            \/ \E k \in DOMAIN chunks : chunks[k].job.task = d /\ approval[chunks[k].job] # "completed"

(* The run implements the ledger: the decisions of Li's completed          *)
(* assessments, which are what a full or a partial result returns, open    *)
(* until the run has ended.                                                *)
Ledger == INSTANCE AuditLedger WITH ledger <- UNION {f.decisions : f \in finals},
                                    open   <- pc # "ended"

KeepsLedger == Ledger!Spec
=============================================================================
