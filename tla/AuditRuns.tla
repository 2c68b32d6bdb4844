----------------------------- MODULE AuditRuns -----------------------------
(***************************************************************************)
(* Calls of /internal/audit/agentic that run side by side: each has a      *)
(* thread that waits for AUDIT_SKILL_LOCK, a handler that watches its      *)
(* client, and a snapshot in the bounded registry _PROGRESS, which it      *)
(* shares with every other call of the same run id.  Cancellation (by the  *)
(* handler or by /internal/audit/cancel), the deadline and the steps of a  *)
(* partial result all go through the snapshot.                             *)
(***************************************************************************)
EXTENDS Integers, Sequences, FiniteSets

CONSTANTS
    Call,           \* calls of the endpoint
    RunId,          \* run identifiers
    RunOf,          \* call -> the run it belongs to
    NoCall,         \* nobody
    Legacy,         \* a request of /internal/audit/reconcile, same lock
    LegacyRuns,     \* bound: how many of them take the lock
    AtOnce,         \* bound: calls under way at once
    Incidents,      \* bound: clients that leave, cancellations, deadlines
    Capacity,       \* snapshots the registry keeps (32)
    Assessments     \* bound: chunks of a call

ASSUME RunsAssumption ==
    /\ RunOf \in [Call -> RunId]
    /\ NoCall \notin Call /\ Legacy \notin Call \cup {NoCall}
    /\ IsFiniteSet(Call)
    /\ LegacyRuns \in Nat /\ Incidents \in Nat /\ AtOnce \in Nat
    /\ Capacity \in Nat \ {0}
    /\ Assessments \in Nat

VARIABLES
    pc,         \* where the call's thread is
    handler,    \* what the call's handler does
    lock,       \* who holds AUDIT_SKILL_LOCK
    order,      \* the registry's keys, least recently published first
    snap,       \* run -> its snapshot, or None
    planned,    \* calls whose plan is made
    approved,   \* call -> how many assessments it completed
    why,        \* call -> what ended its work
    result,     \* call -> its kind and the assessments in it
    gone,       \* calls whose client has disconnected
    expired,    \* calls whose deadline has passed
    stopped,    \* history: calls that the cancel endpoint stopped
    beside,     \* history: call -> calls under way while it was
    legacyLeft, \* requests of the legacy endpoint still to come
    incidents   \* clients leaving, cancellations and deadlines to come

registry == <<order, snap>>
work == <<planned, approved>>
outcome == <<why, result>>
past == <<stopped, beside>>
limits == <<legacyLeft, incidents>>
outside == <<gone, expired, past, limits>>

vars == <<pc, handler, lock, registry, work, outcome, outside>>

Step == [call : Call, n : 1..Assessments]

None == [status |-> "none", cancel |-> FALSE, deadline |-> NoCall, steps |-> {}]

Snapshot == [status   : {"none", "processing", "partial", "completed", "failed"},
             cancel   : BOOLEAN,
             deadline : Call \cup {NoCall},
             steps    : SUBSET Step]

Kinds == {"none", "completed", "incomplete", "cancelled", "deadline", "failed"}

(* Inside the with statement, and inside analyze_agentic_audit.            *)
Working == {"check", "request", "ask"}

Running == {"begun", "waiting", "leaving", "closing"} \cup Working

(* The handler waits for the thread, or has seen that its client is gone.  *)
Watching == {"watching", "cancelling"}

NoResult == [kind |-> "none", steps |-> {}]

(* Every variable stays in its domain: in particular the snapshot of a run *)
(* never holds a step beyond those its calls can complete.                 *)
TypeOK ==
    /\ pc \in [Call -> {"idle", "called", "done"} \cup Running]
    /\ handler \in [Call -> {"none", "answered", "aborted"} \cup Watching]
    /\ lock \in Call \cup {NoCall, Legacy}
    /\ order \in Seq(RunId)
    /\ snap \in [RunId -> Snapshot]
    /\ planned \subseteq Call
    /\ approved \in [Call -> 0..Assessments]
    /\ why \in [Call -> Kinds]
    /\ result \in [Call -> [kind : Kinds, steps : SUBSET Step]]
    /\ gone \subseteq Call /\ expired \subseteq Call /\ stopped \subseteq Call
    /\ beside \in [Call -> SUBSET Call]
    /\ legacyLeft \in 0..LegacyRuns /\ incidents \in 0..Incidents

Init ==
    /\ pc = [c \in Call |-> "idle"]
    /\ handler = [c \in Call |-> "none"]
    /\ lock = NoCall
    /\ order = << >>
    /\ snap = [r \in RunId |-> None]
    /\ planned = {}
    /\ approved = [c \in Call |-> 0]
    /\ why = [c \in Call |-> "none"]
    /\ result = [c \in Call |-> NoResult]
    /\ gone = {} /\ expired = {} /\ stopped = {}
    /\ beside = [c \in Call |-> {}]
    /\ legacyLeft = LegacyRuns /\ incidents = Incidents

-----------------------------------------------------------------------------
(* The registry.                                                           *)

(* The keys besides r, in order; a key occurs once.                        *)
Others(r) ==
    IF \E i \in DOMAIN order : order[i] = r
    THEN LET at == CHOOSE i \in DOMAIN order : order[i] = r
         IN  SubSeq(order, 1, at - 1) \o SubSeq(order, at + 1, Len(order))
    ELSE order

(* Faulty: one snapshot too many is dropped.                               *)
PublishTight(r, s) ==
    LET moved == Append(Others(r), r)
        full  == Len(moved) >= Capacity /\ Len(moved) > 1
        gonek == IF full THEN {Head(moved)} ELSE {}
    IN  /\ order' = IF full THEN Tail(moved) ELSE moved
        /\ snap' = [k \in RunId |-> IF k \in gonek THEN None ELSE IF k = r THEN s ELSE snap[k]]

(* _publish_progress: the run's snapshot becomes s and the most recent;    *)
(* beyond the capacity the least recent snapshot is dropped.               *)
Publish(r, s) ==
    LET moved   == Append(Others(r), r)
        full    == Len(moved) > Capacity
        dropped == IF full THEN {Head(moved)} ELSE {}
    IN  /\ order' = IF full THEN Tail(moved) ELSE moved
        /\ snap' = [k \in RunId |-> IF k \in dropped THEN None ELSE IF k = r THEN s ELSE snap[k]]

(* A dropped snapshot is created again by the next publication, with       *)
(* nothing in it but what that publication says.                           *)
Mine(c) == snap[RunOf[c]]

CancelRequested(c) == Mine(c).cancel

(* stopped() counts a missing deadline as passed, _request_agent replaces  *)
(* it by a fresh one.                                                      *)
OutOfTime(c) == Mine(c).deadline \in expired \cup {NoCall}

RequestOutOfTime(c) == Mine(c).deadline \in expired

OwnSteps(c, n) == {[call |-> c, n |-> i] : i \in 1..n}

-----------------------------------------------------------------------------
(* The call's thread.                                                      *)
Goto(c, where) == pc' = [pc EXCEPT ![c] = where]

(* Faulty: the snapshot gets no deadline.                                  *)
BeginUntimed(c) ==
    /\ pc[c] = "called"
    /\ Goto(c, "begun")
    /\ Publish(RunOf[c], [status |-> "processing", cancel |-> FALSE, deadline |-> NoCall, steps |-> {}])
    /\ UNCHANGED <<handler, lock, work, outcome, outside>>

(* The thread starts: the snapshot of the run starts afresh, whatever it   *)
(* held, a cancellation included.                                          *)
Begin(c) ==
    /\ pc[c] = "called"
    /\ Goto(c, "begun")
    /\ Publish(RunOf[c], [status |-> "processing", cancel |-> FALSE, deadline |-> c, steps |-> {}])
    /\ UNCHANGED <<handler, lock, work, outcome, outside>>

(* No executable candidate, or too large a context: no lock is taken.      *)
Reject(c) ==
    /\ pc[c] = "begun"
    /\ Goto(c, "leaving")
    /\ why' = [why EXCEPT ![c] = "failed"]
    /\ UNCHANGED <<handler, lock, registry, work, result, outside>>

(* The chunks are counted and published; then the lock is waited for.      *)
Queue(c) ==
    /\ pc[c] = "begun"
    /\ Goto(c, "waiting")
    /\ Publish(RunOf[c], Mine(c))
    /\ UNCHANGED <<handler, lock, work, outcome, outside>>

(* Faulty: the lock is not waited for.                                     *)
AcquireBusy(c) ==
    /\ pc[c] = "waiting"
    /\ lock' = c
    /\ Goto(c, "request")
    /\ Publish(RunOf[c], Mine(c))
    /\ UNCHANGED <<handler, work, outcome, outside>>

Acquire(c) ==
    /\ pc[c] = "waiting"
    /\ lock = NoCall
    /\ lock' = c
    /\ Goto(c, "request")
    /\ Publish(RunOf[c], Mine(c))
    /\ UNCHANGED <<handler, work, outcome, outside>>

(* Faulty: an early exit keeps the lock.                                   *)
LeaveHolding(c, kind) ==
    /\ Goto(c, "leaving")
    /\ why' = [why EXCEPT ![c] = kind]
    /\ lock' = IF kind \in {"completed", "incomplete"} THEN NoCall ELSE lock

(* Leaving the with statement, by an exception or at its end.              *)
Leave(c, kind) ==
    /\ Goto(c, "leaving")
    /\ why' = [why EXCEPT ![c] = kind]
    /\ lock' = NoCall

GoOn(c, where) == Goto(c, where) /\ UNCHANGED <<handler, why, lock>>

(* The head of the loop over the chunks: check_active.                     *)
ChunkCheck(c) ==
    /\ pc[c] = "check"
    /\ CASE CancelRequested(c) -> Leave(c, "cancelled")
         [] ~ CancelRequested(c) /\ OutOfTime(c) -> Leave(c, "deadline")
         [] OTHER -> approved[c] < Assessments /\ GoOn(c, "request")
    /\ UNCHANGED <<handler, registry, work, result, outside>>

(* No chunk is left; some may have been given up or skipped.               *)
LoopEnd(c) ==
    /\ pc[c] = "check"
    /\ \E kind \in {"completed", "incomplete"} : Leave(c, kind)
    /\ UNCHANGED <<handler, registry, work, result, outside>>

(* The head of _request_agent, for the plan, the evidence or the review.   *)
RequestCheck(c) ==
    /\ pc[c] = "request"
    /\ CASE CancelRequested(c) -> Leave(c, "cancelled")
         [] ~ CancelRequested(c) /\ RequestOutOfTime(c) -> Leave(c, "deadline")
         [] OTHER -> GoOn(c, "ask")
    /\ UNCHANGED <<handler, registry, work, result, outside>>

(* The plan.  Its step is published with the list of this call's steps.    *)
Planned(c) ==
    /\ pc[c] = "ask" /\ c \notin planned
    /\ planned' = planned \cup {c}
    /\ Goto(c, "check")
    /\ Publish(RunOf[c], [Mine(c) EXCEPT !.steps = OwnSteps(c, 0)])
    /\ UNCHANGED <<handler, lock, approved, outcome, outside>>

(* The plan is truncated twice, or times out.                              *)
PlanLost(c) ==
    /\ pc[c] = "ask" /\ c \notin planned
    /\ Leave(c, "incomplete")
    /\ UNCHANGED <<handler, registry, work, result, outside>>

(* An answer that approves nothing: evidence, after which the review is    *)
(* requested, or a truncated or late answer, after which the chunk is split *)
(* or given up.  The steps are published all the same.                     *)
Progress(c) ==
    /\ pc[c] = "ask" /\ c \in planned
    /\ \E where \in {"check", "request"} : Goto(c, where)
    /\ Publish(RunOf[c], [Mine(c) EXCEPT !.steps = OwnSteps(c, approved[c])])
    /\ UNCHANGED <<handler, lock, work, outcome, outside>>

(* Faulty: the steps without the last one.                                 *)
ApproveUnpublished(c) ==
    /\ pc[c] = "ask" /\ c \in planned /\ approved[c] < Assessments
    /\ approved' = [approved EXCEPT ![c] = @ + 1]
    /\ Publish(RunOf[c], [Mine(c) EXCEPT !.steps = OwnSteps(c, approved[c])])
    /\ Goto(c, "check")
    /\ UNCHANGED <<handler, lock, planned, outcome, outside>>

(* Faulty: an answer may be recorded again and again.                      *)
ApproveAgain(c) ==
    /\ pc[c] = "ask" /\ c \in planned
    /\ approved' = [approved EXCEPT ![c] = @ + 1]
    /\ Publish(RunOf[c], [Mine(c) EXCEPT !.steps = OwnSteps(c, approved'[c])])
    /\ UNCHANGED <<handler, pc, lock, planned, outcome, outside>>

(* A final assessment.                                                     *)
Approve(c) ==
    /\ pc[c] = "ask" /\ c \in planned /\ approved[c] < Assessments
    /\ approved' = [approved EXCEPT ![c] = @ + 1]
    /\ Publish(RunOf[c], [Mine(c) EXCEPT !.steps = OwnSteps(c, approved'[c])])
    /\ Goto(c, "check")
    /\ UNCHANGED <<handler, lock, planned, outcome, outside>>

(* The stream sees the cancellation.                                       *)
AnswerCancelled(c) ==
    /\ pc[c] = "ask" /\ CancelRequested(c)
    /\ Leave(c, "cancelled")
    /\ UNCHANGED <<handler, registry, work, result, outside>>

(* The model server is unreachable, or answers something unusable.         *)
AnswerFails(c) ==
    /\ pc[c] = "ask"
    /\ Leave(c, "failed")
    /\ UNCHANGED <<handler, registry, work, result, outside>>

(* The result: all of this call's assessments, or, when the work stopped   *)
(* early, those the run's snapshot holds.                                  *)
Recover(c) ==
    /\ pc[c] = "leaving"
    /\ Goto(c, "closing")
    /\ result' = [result EXCEPT ![c] =
         [kind  |-> why[c],
          steps |-> CASE why[c] = "failed" -> {}
                      [] why[c] = "completed" -> OwnSteps(c, approved[c])
                      [] why[c] = "incomplete" /\ c \in planned -> OwnSteps(c, approved[c])
                      [] OTHER -> Mine(c).steps]]
    /\ planned' = planned \ {c}
    /\ UNCHANGED <<handler, lock, registry, approved, why, outside>>

(* The last publication: the status of the run.                            *)
Finish(c) ==
    /\ pc[c] = "closing"
    /\ Goto(c, "done")
    /\ Publish(RunOf[c], [Mine(c) EXCEPT !.status =
         IF why[c] \in {"completed", "failed"} THEN why[c] ELSE "partial"])
    /\ UNCHANGED <<handler, lock, work, outcome, outside>>

-----------------------------------------------------------------------------
(* The call's handler.                                                     *)
Underway(c) == pc[c] \notin {"idle", "done"} \/ handler[c] \in Watching

(* The request: a thread is asked for and the handler starts to watch.     *)
Arrive(c) ==
    /\ pc[c] = "idle"
    /\ Cardinality({d \in Call : Underway(d)}) < AtOnce
    /\ Goto(c, "called")
    /\ handler' = [handler EXCEPT ![c] = "watching"]
    /\ beside' = [d \in Call |-> IF d = c THEN {e \in Call : Underway(e)}
                                 ELSE IF Underway(d) THEN beside[d] \cup {c} ELSE beside[d]]
    /\ UNCHANGED <<lock, registry, work, outcome, gone, expired, stopped, limits>>

(* cancel_audit_run: only a snapshot that is processing takes the flag.    *)
CancelAuditRun(r) ==
    /\ order' = order
    /\ snap' = IF snap[r].status = "processing" THEN [snap EXCEPT ![r].cancel = TRUE] ELSE snap

(* Faulty: a slow call is cancelled though its client waits.               *)
NoticeEager(c) ==
    /\ handler[c] = "watching" /\ pc[c] # "done"
    /\ handler' = [handler EXCEPT ![c] = "cancelling"]
    /\ UNCHANGED <<pc, lock, registry, work, outcome, outside>>

(* A second passed without the thread being done, and the client is gone.  *)
Notice(c) ==
    /\ handler[c] = "watching" /\ pc[c] # "done"
    /\ c \in gone
    /\ handler' = [handler EXCEPT ![c] = "cancelling"]
    /\ UNCHANGED <<pc, lock, registry, work, outcome, outside>>

(* By now the thread may be done and another call of the run may run.      *)
Cancel(c) ==
    /\ handler[c] = "cancelling"
    /\ handler' = [handler EXCEPT ![c] = "watching"]
    /\ CancelAuditRun(RunOf[c])
    /\ UNCHANGED <<pc, lock, work, outcome, outside>>

(* CancelledError: the handler gives up, its thread does not.              *)
Abort(c) ==
    /\ handler[c] \in Watching /\ incidents > 0
    /\ handler' = [handler EXCEPT ![c] = "aborted"]
    /\ CancelAuditRun(RunOf[c])
    /\ incidents' = incidents - 1
    /\ UNCHANGED <<pc, lock, work, outcome, gone, expired, past, legacyLeft>>

(* The answer; a failed call's holds the steps of the snapshot.            *)
Reply(c) ==
    /\ handler[c] = "watching" /\ pc[c] = "done"
    /\ handler' = [handler EXCEPT ![c] = "answered"]
    /\ result' = [result EXCEPT ![c].steps = IF why[c] = "failed" THEN Mine(c).steps ELSE @]
    /\ UNCHANGED <<pc, lock, registry, work, why, outside>>

-----------------------------------------------------------------------------
(* The cancel endpoint, the clients, the clock and the legacy endpoint.    *)

(* A run that is not processing is answered FALSE: nothing changes.        *)
CancelRun(r) ==
    /\ snap[r].status = "processing" /\ incidents > 0
    /\ CancelAuditRun(r)
    /\ stopped' = stopped \cup {c \in Call : RunOf[c] = r /\ pc[c] \in Running}
    /\ incidents' = incidents - 1
    /\ UNCHANGED <<pc, handler, lock, work, outcome, gone, expired, beside, legacyLeft>>

Disconnect(c) ==
    /\ handler[c] \in Watching /\ c \notin gone /\ incidents > 0
    /\ gone' = gone \cup {c}
    /\ incidents' = incidents - 1
    /\ UNCHANGED <<pc, handler, lock, registry, work, outcome, expired, past, legacyLeft>>

Expire(c) ==
    /\ pc[c] \in Running /\ c \notin expired /\ incidents > 0
    /\ expired' = expired \cup {c}
    /\ incidents' = incidents - 1
    /\ UNCHANGED <<pc, handler, lock, registry, work, outcome, gone, past, legacyLeft>>

LegacyTake ==
    /\ lock = NoCall /\ legacyLeft > 0
    /\ lock' = Legacy
    /\ legacyLeft' = legacyLeft - 1
    /\ UNCHANGED <<pc, handler, registry, work, outcome, gone, expired, past, incidents>>

LegacyRelease ==
    /\ lock = Legacy
    /\ lock' = NoCall
    /\ UNCHANGED <<pc, handler, registry, work, outcome, outside>>

Thread(c) ==
    \/ Begin(c) \/ Reject(c) \/ Queue(c) \/ Acquire(c)
    \/ ChunkCheck(c) \/ LoopEnd(c) \/ RequestCheck(c)
    \/ Planned(c) \/ PlanLost(c) \/ Progress(c) \/ Approve(c)
    \/ AnswerCancelled(c) \/ AnswerFails(c)
    \/ Recover(c) \/ Finish(c)

Handler(c) == Arrive(c) \/ Notice(c) \/ Cancel(c) \/ Abort(c) \/ Reply(c)

Next ==
    \/ \E c \in Call : Thread(c) \/ Handler(c) \/ Disconnect(c) \/ Expire(c)
    \/ \E r \in RunId : CancelRun(r)
    \/ LegacyTake \/ LegacyRelease

Spec == Init /\ [][Next]_vars

(* Threads run and the lock is handed on; a request ends because its read  *)
(* timeout is at most MAX_AGENT_STEP_SECONDS.  A handler goes on once its  *)
(* thread is done or its client's absence is noticed.  A client need not   *)
(* call, and need not leave.                                               *)
FairSpec ==
    /\ Spec
    /\ \A c \in Call : WF_vars(Thread(c)) /\ WF_vars(Cancel(c)) /\ WF_vars(Reply(c))
    /\ WF_vars(LegacyRelease)

-----------------------------------------------------------------------------
(* What must hold.                                                         *)

(* The two agents and the legacy skill share one local model: whoever is   *)
(* between the lock and its release holds it, whatever path led out of the *)
(* block and in whatever order calls arrived.                              *)
OneAtATime == \A c \in Call : pc[c] \in Working <=> lock = c

(* What the shared registry can promise a call: it was under way beside    *)
(* fewer than Capacity other runs and beside no other call of its own run. *)
(* How many runs ended before it, and keep a snapshot, does not count.     *)
RunsBeside(c) == {RunOf[d] : d \in beside[c]}

Undisturbed(c) == RunOf[c] \notin RunsBeside(c) /\ Cardinality(RunsBeside(c)) < Capacity

(* Until the thread of an undisturbed call has finished, its snapshot says *)
(* so, which is what makes it cancellable (cancel_audit_run refuses any    *)
(* other status): however many runs publish or have published, the one     *)
(* that is dropped is another's.                                           *)
RunningIsProcessing ==
    \A c \in Call : pc[c] \in Running /\ Undisturbed(c) => Mine(c).status = "processing"

(* Why a call may be cancelled: its client left, its handler was aborted,  *)
(* or the cancel endpoint was called for its run while it ran.             *)
CalledOff(c) == c \in gone \/ handler[c] = "aborted" \/ c \in stopped

(* Only a call nobody waits for, or that was called off by its run id,     *)
(* ends as agentic_cancelled.                                              *)
CancelledOnlyIfCalledOff == \A c \in Call : result[c].kind = "cancelled" => CalledOff(c)

(* An undisturbed call stops early for a cause of its own: the other calls, *)
(* which share the registry in which its cancellation and its deadline are *)
(* noted, neither stop it nor make it lose them.                           *)
StopsForCause ==
    \A c \in Call : Undisturbed(c) =>
        /\ result[c].kind = "cancelled" => CalledOff(c)
        /\ result[c].kind = "deadline" => c \in expired

(* However an undisturbed call stops, its answer carries exactly the       *)
(* assessments it completed: the recovery and the handler of a failed call *)
(* read them back from the shared snapshot.                                *)
ApprovedIsKept ==
    \A c \in Call : handler[c] = "answered" /\ Undisturbed(c) => result[c].steps = OwnSteps(c, approved[c])

(* A cancelled call gives the lock up, even if its deadline never passes.  *)
AbandonedGivesUpLock == \A c \in Call : (CancelRequested(c) /\ lock = c) ~> lock # c

(* If time passes, every call that arrived is answered or aborted, also    *)
(* those that waited behind the lock.                                      *)
EveryCallEnds ==
    (\A c \in Call : pc[c] = "called" ~> (pc[c] = "done" \/ c \in expired))
        => (\A c \in Call : pc[c] = "called" ~> handler[c] \in {"answered", "aborted"})
=============================================================================
