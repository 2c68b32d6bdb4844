-------------------------- MODULE AuditRuns_proofs --------------------------
(***************************************************************************)
(* Proofs about AuditRuns.  What is said of snapshots is said of calls     *)
(* that are undisturbed: beside fewer than Capacity other runs and no      *)
(* other call of their own.  Such a call's snapshot survives because every *)
(* key published after it belongs to a run beside the call.                *)
(***************************************************************************)
EXTENDS AuditRuns, FiniteSetTheorems, TLAPS

USE DEF registry, work, outcome, outside, past, limits

-----------------------------------------------------------------------------
(* A published registry is a registry.                                     *)
LEMMA PublishType ==
    ASSUME TypeOK, NEW r \in RunId, NEW s \in Snapshot, Publish(r, s)
    PROVE  order' \in Seq(RunId) /\ snap' \in [RunId -> Snapshot]
<1>1. Others(r) \in Seq(RunId)
  <2>1. CASE ~ \E i \in DOMAIN order : order[i] = r
    BY <2>1 DEF Others, TypeOK
  <2>2. CASE \E i \in DOMAIN order : order[i] = r
    <3> DEFINE at == CHOOSE i \in DOMAIN order : order[i] = r
    <3>1. order \in Seq(RunId) /\ at \in 1..Len(order)
      BY <2>2 DEF TypeOK
    <3>2. Others(r) = SubSeq(order, 1, at - 1) \o SubSeq(order, at + 1, Len(order))
      BY <2>2 DEF Others
    <3> HIDE DEF at
    <3>3. SubSeq(order, 1, at - 1) \in Seq(RunId) /\ SubSeq(order, at + 1, Len(order)) \in Seq(RunId)
      BY <3>1
    <3> QED
      BY <3>2, <3>3
  <2> QED
    BY <2>1, <2>2
<1> DEFINE moved == Append(Others(r), r)
<1>2. moved \in Seq(RunId) /\ Len(moved) > 0
  BY <1>1
<1>3. order' = moved \/ order' = Tail(moved)
  BY DEF Publish
<1>4. None \in Snapshot
  BY DEF None, Snapshot
<1>5. snap' \in [RunId -> Snapshot]
  BY <1>4 DEF Publish, TypeOK
<1> HIDE DEF moved
<1> QED
  BY <1>2, <1>3, <1>5

(* The steps of a call that made n assessments.                            *)
LEMMA OwnStepsType ==
    ASSUME NEW c \in Call, NEW n \in 0..Assessments
    PROVE  OwnSteps(c, n) \subseteq Step
BY RunsAssumption DEF OwnSteps, Step

(* A call finds a snapshot, be it an empty one.                            *)
LEMMA MineType == TypeOK => \A c \in Call : Mine(c) \in Snapshot
BY RunsAssumption DEF TypeOK, Mine

(* The empty registry is well typed.                                       *)
LEMMA TypeInit == Init => TypeOK
BY RunsAssumption DEF Init, TypeOK, Snapshot, None, NoResult, Kinds, OwnSteps

(* A step of a call keeps the types.                                       *)
LEMMA TypeThread ==
    ASSUME TypeOK, NEW c \in Call, Thread(c)
    PROVE  TypeOK'
<1> USE DEF Goto, Leave, GoOn, Running, Working, Kinds
<1>0. RunOf[c] \in RunId /\ Mine(c) \in Snapshot
  BY RunsAssumption, MineType
<1>1. CASE Begin(c)
  <2>1. [status |-> "processing", cancel |-> FALSE, deadline |-> c, steps |-> {}] \in Snapshot
    BY DEF Snapshot
  <2> QED
    BY <1>0, <1>1, <2>1, PublishType DEF Begin, TypeOK
<1>2. CASE Reject(c)
  BY <1>2 DEF Reject, TypeOK
<1>3. CASE Queue(c) \/ Acquire(c)
  <2>1. order' \in Seq(RunId) /\ snap' \in [RunId -> Snapshot]
    BY <1>0, <1>3, PublishType DEF Queue, Acquire
  <2> QED
    BY <1>3, <2>1 DEF Queue, Acquire, TypeOK
<1>4. CASE ChunkCheck(c) \/ LoopEnd(c) \/ RequestCheck(c)
  <2>1. /\ \E where \in {"leaving", "request", "ask"} : Goto(c, where)
        /\ why' = why \/ \E kind \in Kinds : why' = [why EXCEPT ![c] = kind]
        /\ lock' \in {lock, NoCall}
        /\ UNCHANGED <<handler, registry, work, result, outside>>
    BY <1>4 DEF ChunkCheck, LoopEnd, RequestCheck
  <2>2. pc' \in [Call -> {"idle", "called", "done"} \cup Running]
    BY <2>1 DEF TypeOK
  <2>3. why' \in [Call -> Kinds]
    BY <2>1 DEF TypeOK
  <2> HIDE DEF Goto, Running, Working, Kinds
  <2> QED
    BY <2>1, <2>2, <2>3 DEF TypeOK
<1>5. CASE Planned(c) \/ Progress(c)
  <2>1. PICK n \in {0, approved[c]} : Publish(RunOf[c], [Mine(c) EXCEPT !.steps = OwnSteps(c, n)])
    BY <1>5 DEF Planned, Progress
  <2>2. n \in 0..Assessments
    BY RunsAssumption DEF TypeOK
  <2>3. [Mine(c) EXCEPT !.steps = OwnSteps(c, n)] \in Snapshot
    BY <1>0, <2>2, OwnStepsType DEF Snapshot
  <2> QED
    BY <1>0, <1>5, <2>1, <2>3, PublishType DEF Planned, Progress, TypeOK
<1>6. CASE PlanLost(c) \/ AnswerCancelled(c) \/ AnswerFails(c)
  BY <1>6 DEF PlanLost, AnswerCancelled, AnswerFails, TypeOK
<1>7. CASE Approve(c)
  <2>1. approved'[c] \in 0..Assessments /\ approved' \in [Call -> 0..Assessments]
    BY <1>7, RunsAssumption DEF Approve, TypeOK
  <2>2. [Mine(c) EXCEPT !.steps = OwnSteps(c, approved'[c])] \in Snapshot
    BY <1>0, <2>1, OwnStepsType DEF Snapshot
  <2> QED
    BY <1>0, <1>7, <2>1, <2>2, PublishType DEF Approve, TypeOK
<1>8. CASE Recover(c)
  <2>1. OwnSteps(c, approved[c]) \subseteq Step /\ Mine(c).steps \subseteq Step
    BY <1>0, OwnStepsType DEF TypeOK, Snapshot
  <2> QED
    BY <1>8, <2>1 DEF Recover, TypeOK
<1>9. CASE Finish(c)
  <2>1. [Mine(c) EXCEPT !.status = IF why[c] \in {"completed", "failed"} THEN why[c] ELSE "partial"]
          \in Snapshot
    BY <1>0 DEF Snapshot
  <2> QED
    BY <1>0, <1>9, <2>1, PublishType DEF Finish, TypeOK
<1> QED
  BY <1>1, <1>2, <1>3, <1>4, <1>5, <1>6, <1>7, <1>8, <1>9 DEF Thread

(* A cancelled registry is a registry.                                     *)
LEMMA CancelType ==
    ASSUME TypeOK, NEW r \in RunId, CancelAuditRun(r)
    PROVE  order' \in Seq(RunId) /\ snap' \in [RunId -> Snapshot]
<1>0. snap[r] \in Snapshot
  BY DEF TypeOK
<1>1. [snap[r] EXCEPT !.cancel = TRUE] \in Snapshot
  BY <1>0 DEF Snapshot
<1>2. snap' = snap \/ snap' = [snap EXCEPT ![r] = [snap[r] EXCEPT !.cancel = TRUE]]
  BY DEF CancelAuditRun
<1> QED
  BY <1>1, <1>2 DEF CancelAuditRun, TypeOK

(* So does a step of a handler.                                            *)
LEMMA TypeHandler ==
    ASSUME TypeOK, NEW c \in Call, Handler(c)
    PROVE  TypeOK'
<1>1. CASE Arrive(c)
  <2>1. beside' \in [Call -> SUBSET Call]
    BY <1>1 DEF Arrive, TypeOK
  <2>2. pc' \in [Call -> {"idle", "called", "done"} \cup Running]
    BY <1>1 DEF Arrive, Goto, TypeOK
  <2> QED
    BY <1>1, <2>1, <2>2 DEF Arrive, TypeOK, Watching
<1>2. CASE Notice(c)
  BY <1>2 DEF Notice, TypeOK, Watching
<1>3. CASE Cancel(c) \/ Abort(c)
  <2>1. order' \in Seq(RunId) /\ snap' \in [RunId -> Snapshot]
    <3>1. RunOf[c] \in RunId /\ CancelAuditRun(RunOf[c])
      BY <1>3, RunsAssumption DEF Cancel, Abort
    <3> QED
      BY <3>1, CancelType
  <2>2. CASE Cancel(c)
    BY <2>1, <2>2 DEF Cancel, TypeOK, Watching
  <2>3. CASE Abort(c)
    BY <2>1, <2>3, RunsAssumption DEF Abort, TypeOK, Watching
  <2> QED
    BY <1>3, <2>2, <2>3
<1>4. CASE Reply(c)
  <2>1. result[c] \in [kind : Kinds, steps : SUBSET Step] /\ Mine(c).steps \in SUBSET Step
    BY MineType DEF TypeOK, Snapshot
  <2>2. result' \in [Call -> [kind : Kinds, steps : SUBSET Step]]
    BY <1>4, <2>1 DEF Reply, TypeOK
  <2> QED
    BY <1>4, <2>2 DEF Reply, TypeOK
<1> QED
  BY <1>1, <1>2, <1>3, <1>4 DEF Handler

(* So does a step of the cancel endpoint, a client, the clock or the       *)
(* legacy endpoint.                                                        *)
LEMMA TypeOutside ==
    ASSUME TypeOK,
           \/ \E c \in Call : Disconnect(c) \/ Expire(c)
           \/ \E r \in RunId : CancelRun(r)
           \/ LegacyTake \/ LegacyRelease
    PROVE  TypeOK'
<1>1. CASE \E c \in Call : Disconnect(c) \/ Expire(c)
  BY <1>1, RunsAssumption DEF Disconnect, Expire, TypeOK
<1>2. CASE \E r \in RunId : CancelRun(r)
  <2>1. order' \in Seq(RunId) /\ snap' \in [RunId -> Snapshot]
    BY <1>2, CancelType DEF CancelRun
  <2> QED
    BY <1>2, <2>1, RunsAssumption DEF CancelRun, TypeOK
<1>3. CASE LegacyTake \/ LegacyRelease
  BY <1>3, RunsAssumption DEF LegacyTake, LegacyRelease, TypeOK
<1> QED
  BY <1>1, <1>2, <1>3

(* The registry and the calls are well typed whatever clients and the      *)
(* clock do: no snapshot holds a step its calls cannot have made.          *)
THEOREM TypeCorrect == Spec => []TypeOK
<1>1. TypeOK /\ UNCHANGED vars => TypeOK'
  BY DEF vars, TypeOK
<1>2. TypeOK /\ [Next]_vars => TypeOK'
  BY <1>1, TypeThread, TypeHandler, TypeOutside DEF Next
<1> QED
  BY TypeInit, <1>2, PTL DEF Spec

-----------------------------------------------------------------------------
(* A step of a call takes the lock only when it is free, and gives up only *)
(* its own.                                                                *)
LEMMA LockStep ==
    ASSUME TypeOK, OneAtATime, NEW c \in Call, Thread(c)
    PROVE  OneAtATime'
<1> USE RunsAssumption DEF Goto, Leave, GoOn, Working, OneAtATime, TypeOK
<1>1. CASE Begin(c) \/ Reject(c) \/ Queue(c) \/ Acquire(c)
  BY <1>1 DEF Begin, Reject, Queue, Acquire
<1>2. CASE ChunkCheck(c) \/ LoopEnd(c) \/ RequestCheck(c)
  BY <1>2 DEF ChunkCheck, LoopEnd, RequestCheck
<1>3. CASE Planned(c) \/ Approve(c)
  BY <1>3 DEF Planned, Approve
<1>4. CASE AnswerCancelled(c) \/ AnswerFails(c)
  BY <1>4 DEF AnswerCancelled, AnswerFails
<1>5. CASE Recover(c) \/ Finish(c)
  BY <1>5 DEF Recover, Finish
<1>6. CASE PlanLost(c) \/ Progress(c)
  BY <1>6 DEF PlanLost, Progress
<1> QED
  BY <1>1, <1>2, <1>3, <1>4, <1>5, <1>6 DEF Thread

(* Whoever works holds the lock: no two calls, and no call and the legacy  *)
(* endpoint, ever use the model at the same time.                          *)
THEOREM MutualExclusion == Spec => []OneAtATime
<1>1. Init => OneAtATime
  BY RunsAssumption DEF Init, OneAtATime, Working
<1>2. ASSUME TypeOK, OneAtATime, [Next]_vars
      PROVE  OneAtATime'
  <2>1. CASE \E c \in Call : Thread(c)
    BY <1>2, <2>1, LockStep
  <2>2. CASE \E c \in Call : Arrive(c)
    BY <1>2, <2>2, RunsAssumption DEF Arrive, Goto, OneAtATime, TypeOK, Working
  <2>3. CASE (\E c \in Call : Handler(c) \/ Disconnect(c) \/ Expire(c)) /\ ~ \E c \in Call : Arrive(c)
    BY <1>2, <2>3 DEF Handler, Notice, Cancel, Abort, Reply, Disconnect, Expire, OneAtATime
  <2>4. CASE \E r \in RunId : CancelRun(r)
    BY <1>2, <2>4 DEF CancelRun, OneAtATime
  <2>5. CASE LegacyTake \/ LegacyRelease
    BY <1>2, <2>5, RunsAssumption DEF LegacyTake, LegacyRelease, OneAtATime
  <2>6. CASE UNCHANGED vars
    BY <1>2, <2>6 DEF vars, OneAtATime
  <2> QED
    BY <1>2, <2>1, <2>2, <2>3, <2>4, <2>5, <2>6 DEF Next
<1> QED
  BY <1>1, <1>2, TypeCorrect, PTL DEF Spec

-----------------------------------------------------------------------------
(* The registry as a sequence of keys.                                     *)
Once(q) == \A i, j \in DOMAIN q : q[i] = q[j] => i = j

(* Key x is in q, and only keys of R come after it.                        *)
Late(q, x, R) == \E i \in DOMAIN q : q[i] = x /\ \A j \in DOMAIN q : j > i => q[j] \in R

(* What the concatenation of two sequences of keys holds.                  *)
LEMMA Joined ==
    ASSUME NEW a \in Seq(RunId), NEW b \in Seq(RunId)
    PROVE  /\ a \o b \in Seq(RunId) /\ Len(a \o b) = Len(a) + Len(b)
           /\ DOMAIN (a \o b) = 1..(Len(a) + Len(b))
           /\ \A i \in 1..Len(a) : (a \o b)[i] = a[i]
           /\ \A i \in 1..Len(b) : (a \o b)[Len(a) + i] = b[i]
OBVIOUS

(* The keys besides r keep their order, and r is not among them.           *)
LEMMA OthersOnce ==
    ASSUME TypeOK, Once(order), NEW r \in RunId
    PROVE  /\ Others(r) \in Seq(RunId) /\ Once(Others(r))
           /\ \A i \in DOMAIN Others(r) : Others(r)[i] # r
           /\ \A x, R : x # r /\ Late(order, x, R) => Late(Others(r), x, R)
<1>0. order \in Seq(RunId)
  BY DEF TypeOK
<1>1. CASE ~ \E i \in DOMAIN order : order[i] = r
  BY <1>0, <1>1 DEF Others
<1>2. CASE \E i \in DOMAIN order : order[i] = r
  <2> DEFINE at == CHOOSE i \in DOMAIN order : order[i] = r
             front == SubSeq(order, 1, at - 1)
             back == SubSeq(order, at + 1, Len(order))
  <2>1. at \in 1..Len(order) /\ order[at] = r
    BY <1>0, <1>2
  <2>2. Others(r) = front \o back
    BY <1>2 DEF Others
  <2> HIDE DEF at
  <2>3. /\ front \in Seq(RunId) /\ Len(front) = at - 1
        /\ \A i \in 1..(at - 1) : front[i] = order[i]
    BY <1>0, <2>1
  <2>4. /\ back \in Seq(RunId) /\ Len(back) = Len(order) - at
        /\ \A i \in 1..(Len(order) - at) : back[i] = order[i + at]
    BY <1>0, <2>1
  <2> HIDE DEF front, back
  <2> DEFINE f == front \o back
  <2>5. f \in Seq(RunId) /\ Len(f) = Len(order) - 1 /\ DOMAIN f = 1..(Len(order) - 1)
    <3>1. Len(front) + Len(back) = Len(order) - 1
      BY <1>0, <2>1, <2>3, <2>4
    <3> QED BY <2>3, <2>4, <3>1, Joined
  <2>6. \A i \in 1..(Len(order) - 1) : f[i] = IF i < at THEN order[i] ELSE order[i + 1]
    <3> TAKE i \in 1..(Len(order) - 1)
    <3>1. CASE i < at
      <4>1. i \in 1..(at - 1) /\ i \in 1..Len(front)
        BY <1>0, <2>1, <2>3, <3>1
      <4>2. f[i] = front[i]
        BY <2>3, <2>4, <4>1, Joined
      <4> QED BY <2>3, <3>1, <4>1, <4>2
    <3>2. CASE ~ (i < at)
      <4> DEFINE k == i - (at - 1)
      <4>1. k \in 1..(Len(order) - at) /\ k + at = i + 1 /\ (at - 1) + k = i
        BY <1>0, <2>1, <3>2
      <4> HIDE DEF k
      <4>2. f[Len(front) + k] = back[k]
        BY <2>3, <2>4, <4>1, Joined
      <4>3. f[i] = back[k]
        BY <2>3, <4>1, <4>2
      <4>4. back[k] = order[k + at]
        BY <2>4, <4>1
      <4> QED BY <3>2, <4>1, <4>3, <4>4
    <3> QED BY <3>1, <3>2
  <2> HIDE DEF f
  <2>7. DOMAIN order = 1..Len(order) /\ Len(order) \in Nat
    BY <1>0
  <2> DEFINE from(i) == IF i < at THEN i ELSE i + 1
  <2>8. \A i \in 1..(Len(order) - 1) : from(i) \in DOMAIN order /\ from(i) # at /\ f[i] = order[from(i)]
    BY <2>1, <2>6, <2>7
  <2>9. \A i, j \in 1..(Len(order) - 1) : from(i) = from(j) => i = j
    BY <2>1, <2>7
  <2> DEFINE into(i) == IF i < at THEN i ELSE i - 1
  <2>12. \A i \in DOMAIN order : i # at => /\ into(i) \in 1..(Len(order) - 1) /\ from(into(i)) = i
                                        /\ \A k \in 1..(Len(order) - 1) : k > into(i) => from(k) > i
    BY <2>1, <2>7
  <2> HIDE DEF from, into
  <2>10. \A i \in DOMAIN f : f[i] # r
    BY <2>1, <2>5, <2>7, <2>8 DEF Once
  <2>11. Once(f)
    BY <2>5, <2>8, <2>9 DEF Once
  <2>13. ASSUME NEW x, NEW R, x # r, Late(order, x, R) PROVE Late(f, x, R)
    <3>1. PICK i \in DOMAIN order : order[i] = x /\ \A j \in DOMAIN order : j > i => order[j] \in R
      BY <2>13 DEF Late
    <3>2. i # at
      BY <2>1, <2>13, <3>1
    <3>3. into(i) \in DOMAIN f /\ f[into(i)] = x
      BY <2>5, <2>8, <2>12, <3>1, <3>2
    <3>4. \A k \in DOMAIN f : k > into(i) => f[k] \in R
      BY <2>5, <2>8, <2>12, <3>1, <3>2
    <3> QED
      BY <3>3, <3>4 DEF Late
  <2> QED
    BY <2>2, <2>5, <2>10, <2>11, <2>13 DEF f
<1> QED
  BY <1>1, <1>2

(* The registry's keys once r is moved to the end.                         *)
Moved(r) == Append(Others(r), r)

(* A moved key is the last, and the others keep their order.               *)
LEMMA MovedOnce ==
    ASSUME TypeOK, Once(order), NEW r \in RunId
    PROVE  /\ Moved(r) \in Seq(RunId) /\ Len(Moved(r)) \in Nat \ {0} /\ Once(Moved(r))
           /\ Moved(r)[Len(Moved(r))] = r
           /\ \A x, R : x # r /\ r \in R /\ Late(order, x, R) => Late(Moved(r), x, R)
<1>1. PICK o : o = Others(r)
  OBVIOUS
<1>2. /\ o \in Seq(RunId) /\ Once(o) /\ \A i \in DOMAIN o : o[i] # r
      /\ \A x, R : x # r /\ Late(order, x, R) => Late(o, x, R)
  BY <1>1, OthersOnce
<1>3. PICK m : m = Moved(r) /\ m = Append(o, r)
  BY <1>1 DEF Moved
<1>4. /\ m \in Seq(RunId) /\ Len(o) \in Nat /\ Len(m) = Len(o) + 1
      /\ DOMAIN o = 1..Len(o) /\ DOMAIN m = 1..(Len(o) + 1)
      /\ \A i \in 1..Len(o) : m[i] = o[i]
      /\ m[Len(o) + 1] = r
  BY <1>2, <1>3
<1>5. Once(m)
  BY <1>2, <1>4 DEF Once
<1>6. ASSUME NEW x, NEW R, x # r, r \in R, Late(order, x, R) PROVE Late(m, x, R)
  <2>1. PICK i \in DOMAIN o : o[i] = x /\ \A j \in DOMAIN o : j > i => o[j] \in R
    BY <1>2, <1>6 DEF Late
  <2>2. i \in DOMAIN m /\ m[i] = x
    BY <1>4, <2>1
  <2>3. \A j \in DOMAIN m : j > i => m[j] \in R
    BY <1>4, <1>6, <2>1
  <2> QED
    BY <2>2, <2>3 DEF Late
<1> QED
  BY <1>3, <1>4, <1>5, <1>6

(* Dropping the first of several keys.                                     *)
LEMMA Dropped ==
    ASSUME NEW q \in Seq(RunId), Once(q), Len(q) > 1
    PROVE  /\ Once(Tail(q)) /\ Head(q) = q[1] /\ q[1] # q[Len(q)]
           /\ \A x, R : q[1] # x /\ Late(q, x, R) => Late(Tail(q), x, R)
<1>1. /\ Len(q) \in Nat /\ DOMAIN q = 1..Len(q) /\ Head(q) = q[1]
  OBVIOUS
<1>2. PICK t : t = Tail(q)
  OBVIOUS
<1>3. DOMAIN t = 1..(Len(q) - 1) /\ \A i \in 1..(Len(q) - 1) : t[i] = q[i + 1]
  BY <1>1, <1>2
<1>4. Once(t)
  BY <1>1, <1>3 DEF Once
<1>5. q[1] # q[Len(q)]
  BY <1>1 DEF Once
<1>6. ASSUME NEW x, NEW R, q[1] # x, Late(q, x, R) PROVE Late(t, x, R)
  <2>1. PICK i \in DOMAIN q : q[i] = x /\ \A j \in DOMAIN q : j > i => q[j] \in R
    BY <1>6 DEF Late
  <2>2. i - 1 \in DOMAIN t /\ t[i - 1] = x
    BY <1>1, <1>3, <1>6, <2>1
  <2>3. \A j \in DOMAIN t : j > i - 1 => t[j] \in R
    BY <1>1, <1>3, <2>1
  <2> QED
    BY <2>2, <2>3 DEF Late
<1> QED
  BY <1>1, <1>2, <1>4, <1>5, <1>6

(* A key is not the first of too many when few keys can come after it.     *)
LEMMA Roomy ==
    ASSUME NEW q \in Seq(RunId), Once(q), Len(q) > Capacity, NEW x, NEW R, Late(q, x, R),
           IsFiniteSet(R), Cardinality(R) < Capacity
    PROVE  q[1] # x
<1> SUFFICES ASSUME q[1] = x PROVE FALSE
  OBVIOUS
<1>1. Len(q) \in Nat /\ DOMAIN q = 1..Len(q) /\ Capacity \in Nat \ {0}
  BY RunsAssumption
<1>2. PICK i \in DOMAIN q : q[i] = x /\ \A j \in DOMAIN q : j > i => q[j] \in R
  BY DEF Late
<1>3. i = 1
  BY <1>1, <1>2 DEF Once
<1>4. PICK n \in Nat : n = Len(q) - 1
  <2>1. Len(q) - 1 \in Nat
    BY <1>1
  <2> QED
    BY <2>1
<1> DEFINE f == [k \in 1..n |-> q[k + 1]]
<1>5. f \in [1..n -> R]
  BY <1>1, <1>2, <1>3, <1>4
<1>6. \A k, l \in 1..n : f[k] = f[l] => k = l
  BY <1>1, <1>4 DEF Once
<1>7. f \in Injection(1..n, R)
  BY <1>5, <1>6 DEF Injection, IsInjective
<1> HIDE DEF f
<1>8. Cardinality(1..n) <= Cardinality(R) /\ Cardinality(1..n) = n
  BY <1>7, FS_Injection, FS_Interval
<1>9. Cardinality(R) \in Nat
  BY FS_CardinalityType
<1> QED
  BY <1>1, <1>4, <1>8, <1>9

(* A publication as one of the registry's moved keys.                      *)
LEMMA PublishMoved ==
    ASSUME TypeOK, NEW r \in RunId, NEW s, Publish(r, s)
    PROVE  \/ /\ order' = Moved(r)
              /\ snap' = [k \in RunId |-> IF k = r THEN s ELSE snap[k]]
           \/ /\ Len(Moved(r)) > Capacity /\ order' = Tail(Moved(r))
              /\ snap' = [k \in RunId |-> IF k = Head(Moved(r)) THEN None
                                           ELSE IF k = r THEN s ELSE snap[k]]
BY DEF Publish, Moved

(* A run's own publication is kept, and is the latest.                     *)
LEMMA PublishOwn ==
    ASSUME TypeOK, Once(order), NEW r \in RunId, NEW s, Publish(r, s)
    PROVE  Once(order') /\ snap'[r] = s /\ \A R : Late(order', r, R)
<1>1. PICK m : m = Moved(r)
  OBVIOUS
<1>2. m \in Seq(RunId) /\ Len(m) \in Nat \ {0} /\ Once(m) /\ m[Len(m)] = r
  BY <1>1, MovedOnce
<1>3. \A R : Late(m, r, R)
  <2>1. Len(m) \in DOMAIN m /\ DOMAIN m = 1..Len(m)
    BY <1>2
  <2>2. \A j \in DOMAIN m : ~ (j > Len(m))
    BY <1>2, <2>1
  <2> QED
    BY <1>2, <2>1, <2>2 DEF Late
<1>4. CASE order' = m /\ snap' = [k \in RunId |-> IF k = r THEN s ELSE snap[k]]
  BY <1>2, <1>3, <1>4
<1>5. CASE /\ Len(m) > Capacity /\ order' = Tail(m)
           /\ snap' = [k \in RunId |-> IF k = Head(m) THEN None ELSE IF k = r THEN s ELSE snap[k]]
  <2>1. Len(m) > 1
    BY <1>2, <1>5, RunsAssumption
  <2>2. Once(Tail(m)) /\ Head(m) = m[1] /\ m[1] # r /\ \A R : Late(m, r, R) => Late(Tail(m), r, R)
    BY <1>2, <2>1, Dropped
  <2> QED
    BY <1>3, <1>5, <2>2
<1> QED
  BY <1>1, <1>4, <1>5, PublishMoved

(* Another run's publication leaves a late key's snapshot alone.           *)
LEMMA PublishOther ==
    ASSUME TypeOK, Once(order), NEW r \in RunId, NEW s, Publish(r, s),
           NEW x \in RunId, NEW R, x # r, r \in R, IsFiniteSet(R), Cardinality(R) < Capacity,
           Late(order, x, R)
    PROVE  snap'[x] = snap[x] /\ Late(order', x, R)
<1>1. PICK m : m = Moved(r)
  OBVIOUS
<1>2. m \in Seq(RunId) /\ Len(m) \in Nat \ {0} /\ Once(m) /\ Late(m, x, R)
  BY <1>1, MovedOnce
<1>3. CASE order' = m /\ snap' = [k \in RunId |-> IF k = r THEN s ELSE snap[k]]
  BY <1>2, <1>3
<1>4. CASE /\ Len(m) > Capacity /\ order' = Tail(m)
           /\ snap' = [k \in RunId |-> IF k = Head(m) THEN None ELSE IF k = r THEN s ELSE snap[k]]
  <2>1. Len(m) > 1
    BY <1>2, <1>4, RunsAssumption
  <2>2. m[1] # x
    BY <1>2, <1>4, Roomy
  <2>3. Head(m) = m[1] /\ Late(Tail(m), x, R)
    BY <1>2, <2>1, <2>2, Dropped
  <2> QED
    BY <1>4, <2>2, <2>3
<1> QED
  BY <1>1, <1>3, <1>4, PublishMoved

-----------------------------------------------------------------------------
(* Whose snapshot a call still needs.                                      *)
Live(c) == pc[c] \in Running \/ (pc[c] = "done" /\ handler[c] \in Watching)

(* Of two calls under way, each has been beside the other.                 *)
Cohort(c) == \A d \in Call \ {c} : Underway(c) /\ Underway(d) => d \in beside[c]

(* What a call is before its thread, and before its plan; and why its      *)
(* handler cancels.                                                        *)
Fresh(c) ==
    /\ pc[c] \in {"idle", "called"} => approved[c] = 0 /\ why[c] = "none" /\ result[c] = NoResult
    /\ pc[c] \in Running \ {"closing"} /\ c \notin planned => approved[c] = 0
    /\ handler[c] = "cancelling" => c \in gone
    /\ handler[c] = "answered" => pc[c] \in {"idle", "done"}
    /\ pc[c] = "idle" => handler[c] = "none"

(* What an undisturbed call finds in its snapshot, and makes of it.        *)
Private(c) ==
    /\ pc[c] \in Running => /\ Mine(c).status = "processing" /\ Mine(c).deadline = c
                            /\ Mine(c).cancel => CalledOff(c)
    /\ pc[c] \in Running => Mine(c).steps = OwnSteps(c, approved[c])
    /\ pc[c] = "done" /\ handler[c] \in Watching /\ why[c] = "failed"
         => Mine(c).steps = OwnSteps(c, approved[c])
    /\ why[c] = "cancelled" \/ result[c].kind = "cancelled" => CalledOff(c)
    /\ why[c] = "deadline" \/ result[c].kind = "deadline" => c \in expired
    /\ pc[c] \in {"closing", "done"} /\ why[c] # "failed" => result[c].steps = OwnSteps(c, approved[c])
    /\ handler[c] = "answered" => result[c].steps = OwnSteps(c, approved[c])

Alone(c) == Private(c) /\ (Live(c) => Late(order, RunOf[c], RunsBeside(c)))

RegistryInv ==
    /\ TypeOK /\ Once(order)
    /\ \A c \in Call : Cohort(c) /\ Fresh(c) /\ (Undisturbed(c) => Alone(c))

(* Finitely many runs are beside a call, and no fewer as time goes by.     *)
LEMMA BesideFinite ==
    ASSUME NEW c \in Call, TypeOK
    PROVE  IsFiniteSet(RunsBeside(c)) /\ Cardinality(RunsBeside(c)) \in Nat
<1> DEFINE f == [d \in beside[c] |-> RunOf[d]]
<1>1. IsFiniteSet(beside[c])
  BY RunsAssumption, FS_Subset DEF TypeOK
<1>2. f \in Surjection(beside[c], RunsBeside(c))
  BY DEF Surjection, RunsBeside
<1> HIDE DEF f
<1>3. IsFiniteSet(RunsBeside(c))
  BY <1>1, <1>2, FS_Surjection
<1> QED
  BY <1>3, FS_CardinalityType

(* An undisturbed call was undisturbed before.                            *)
LEMMA StaysUndisturbed ==
    ASSUME TypeOK, TypeOK', NEW c \in Call, beside[c] \subseteq beside'[c], Undisturbed(c)'
    PROVE  Undisturbed(c) /\ RunsBeside(c) \subseteq RunsBeside(c)'
<1>1. RunsBeside(c) \subseteq RunsBeside(c)'
  BY DEF RunsBeside
<1>2. PICK R : R = RunsBeside(c)
  OBVIOUS
<1>3. PICK S : S = RunsBeside(c)'
  OBVIOUS
<1>4. IsFiniteSet(R) /\ Cardinality(R) \in Nat
  BY <1>2, BesideFinite
<1>5. IsFiniteSet(S) /\ Cardinality(S) \in Nat
  <2>1. IsFiniteSet({RunOf[d] : d \in beside'[c]})
    <3> DEFINE f == [d \in beside'[c] |-> RunOf[d]]
    <3>1. IsFiniteSet(beside'[c])
      BY RunsAssumption, FS_Subset DEF TypeOK
    <3>2. f \in Surjection(beside'[c], {RunOf[d] : d \in beside'[c]})
      BY DEF Surjection
    <3> HIDE DEF f
    <3> QED
      BY <3>1, <3>2, FS_Surjection
  <2> QED
    BY <1>3, <2>1, FS_CardinalityType DEF RunsBeside
<1>6. Cardinality(R) <= Cardinality(S)
  BY <1>1, <1>2, <1>3, <1>5, FS_Subset
<1>7. RunOf[c] \notin S /\ Cardinality(S) < Capacity
  BY <1>3 DEF Undisturbed
<1>8. RunOf[c] \notin R /\ Cardinality(R) < Capacity
  BY <1>1, <1>2, <1>3, <1>4, <1>5, <1>6, <1>7, RunsAssumption
<1> QED
  BY <1>1, <1>2, <1>8 DEF Undisturbed

(* Lateness among some keys is lateness among more.                        *)
LEMMA LateMore ==
    ASSUME NEW q, NEW x, NEW R, NEW S, R \subseteq S, Late(q, x, R)
    PROVE  Late(q, x, S)
BY DEF Late

(* Another call under way is not of an undisturbed call's run.             *)
LEMMA OtherRun ==
    ASSUME NEW c \in Call, NEW d \in Call \ {c}, Cohort(c), Undisturbed(c), Underway(c), Underway(d)
    PROVE  RunOf[d] # RunOf[c] /\ RunOf[d] \in RunsBeside(c)
BY DEF Cohort, Undisturbed, RunsBeside

(* A call that needs its snapshot is under way.                            *)
LEMMA LiveUnderway == \A c \in Call : Live(c) => Underway(c)
BY DEF Live, Underway, Running, Working

(* What a step leaves of a call that is not its own.                       *)
Untouched(c) ==
    /\ pc'[c] = pc[c] /\ approved'[c] = approved[c] /\ why'[c] = why[c] /\ result'[c] = result[c]
    /\ handler'[c] = "answered" => handler[c] = "answered"
    /\ Live(c)' => /\ Live(c) /\ Mine(c)'.status = Mine(c).status
                   /\ Mine(c)'.deadline = Mine(c).deadline /\ Mine(c)'.steps = Mine(c).steps
                   /\ pc[c] \in Running /\ Mine(c)'.cancel => Mine(c).cancel \/ CalledOff(c)'
    /\ CalledOff(c) => CalledOff(c)'
    /\ expired \subseteq expired'

(* What holds of a call's snapshot survives the steps of others.           *)
LEMMA UntouchedStays ==
    ASSUME NEW c \in Call, Private(c), Untouched(c)
    PROVE  Private(c)'
<1>1. OwnSteps(c, approved[c])' = OwnSteps(c, approved[c])
  BY DEF Untouched, OwnSteps
<1>2. pc[c] \in Running => Live(c)'
  BY DEF Live, Untouched
<1>3. pc[c] = "done" /\ handler'[c] \in Watching => Live(c)' /\ handler[c] \in Watching
  <2>1. "done" \notin Running
    BY DEF Running, Working
  <2> QED
    BY <2>1 DEF Live, Untouched
<1>4. PICK m : m = Mine(c)
  OBVIOUS
<1>5. PICK n : n = Mine(c)'
  OBVIOUS
<1>6. PICK off : off = CalledOff(c)'
  OBVIOUS
<1>7. /\ pc[c] \in Running => n.status = "processing" /\ n.deadline = c /\ n.steps = OwnSteps(c, approved[c])
      /\ pc[c] \in Running /\ n.cancel => off
  BY <1>2, <1>4, <1>5, <1>6 DEF Private, Untouched
<1>8. pc[c] = "done" /\ handler'[c] \in Watching /\ why[c] = "failed" => n.steps = OwnSteps(c, approved[c])
  BY <1>3, <1>4, <1>5 DEF Private, Untouched
<1>9. /\ why[c] = "cancelled" \/ result[c].kind = "cancelled" => off
      /\ why[c] = "deadline" \/ result[c].kind = "deadline" => c \in expired'
      /\ pc[c] \in {"closing", "done"} /\ why[c] # "failed" => result[c].steps = OwnSteps(c, approved[c])
      /\ handler'[c] = "answered" => result[c].steps = OwnSteps(c, approved[c])
  BY <1>6 DEF Private, Untouched
<1>10. pc'[c] = pc[c] /\ why'[c] = why[c] /\ result'[c] = result[c]
  BY DEF Untouched
<1> QED
  BY <1>1, <1>5, <1>6, <1>7, <1>8, <1>9, <1>10 DEF Private

(* How a step of a call's thread changes the registry.                     *)
LEMMA Registers ==
    ASSUME NEW c \in Call, Thread(c)
    PROVE  /\ (UNCHANGED <<order, snap>> /\ pc[c] \in Running) \/ \E s : Publish(RunOf[c], s)
           /\ UNCHANGED <<handler, gone, expired, stopped, beside>>
           /\ pc[c] \in {"called"} \cup Running
<1>1. (UNCHANGED <<order, snap>> /\ pc[c] \in Running) \/ \E s : Publish(RunOf[c], s)
  <2>1. CASE Begin(c) \/ Queue(c) \/ Acquire(c) \/ Planned(c) \/ Progress(c) \/ Approve(c) \/ Finish(c)
    BY <2>1 DEF Begin, Queue, Acquire, Planned, Progress, Approve, Finish
  <2>2. CASE ~ (Begin(c) \/ Queue(c) \/ Acquire(c) \/ Planned(c) \/ Progress(c) \/ Approve(c) \/ Finish(c))
    BY <2>2 DEF Thread, Reject, ChunkCheck, LoopEnd, RequestCheck, PlanLost, AnswerCancelled,
                AnswerFails, Recover, Running, Working
  <2> QED
    BY <2>1, <2>2
<1>2. UNCHANGED <<handler, gone, expired, stopped, beside>>
  BY DEF Thread, Begin, Queue, Acquire, Planned, Progress, Approve, Finish, Reject, ChunkCheck,
         LoopEnd, RequestCheck, PlanLost, AnswerCancelled, AnswerFails, Recover, GoOn
<1>3. pc[c] \in {"called"} \cup Running
  BY DEF Thread, Begin, Queue, Acquire, Planned, Progress, Approve, Finish, Reject, ChunkCheck,
         LoopEnd, RequestCheck, PlanLost, AnswerCancelled, AnswerFails, Recover, Running, Working
<1> QED
  BY <1>1, <1>2, <1>3

(* It touches nothing of another call but the registry.                    *)
LEMMA LeavesOthers ==
    ASSUME TypeOK, NEW c \in Call, Thread(c), NEW d \in Call \ {c}
    PROVE  /\ pc'[d] = pc[d] /\ approved'[d] = approved[d] /\ why'[d] = why[d] /\ result'[d] = result[d]
           /\ d \in planned <=> d \in planned'
<1> USE DEF TypeOK, Goto, Leave, GoOn
<1>1. CASE Begin(c) \/ Reject(c) \/ Queue(c) \/ Acquire(c)
  BY <1>1 DEF Begin, Reject, Queue, Acquire
<1>2. CASE ChunkCheck(c) \/ LoopEnd(c) \/ RequestCheck(c)
  BY <1>2 DEF ChunkCheck, LoopEnd, RequestCheck
<1>3. CASE Planned(c) \/ Approve(c) \/ Progress(c)
  BY <1>3 DEF Planned, Approve, Progress
<1>4. CASE PlanLost(c) \/ AnswerCancelled(c) \/ AnswerFails(c)
  BY <1>4 DEF PlanLost, AnswerCancelled, AnswerFails
<1>5. CASE Recover(c) \/ Finish(c)
  BY <1>5 DEF Recover, Finish
<1> QED
  BY <1>1, <1>2, <1>3, <1>4, <1>5 DEF Thread

(* What a step of a call's thread makes of its own.                        *)
LEMMA OwnPrivate ==
    ASSUME TypeOK, Once(order), NEW c \in Call, Fresh(c), Private(c), Thread(c)
    PROVE  Private(c)'
<1> USE DEF Goto, Leave, GoOn
<1>0. /\ RunOf[c] \in RunId /\ Mine(c) \in Snapshot /\ c # NoCall
      /\ pc \in [Call -> {"idle", "called", "done"} \cup Running]
      /\ approved \in [Call -> 0..Assessments]
      /\ why \in [Call -> Kinds]
      /\ result \in [Call -> [kind : Kinds, steps : SUBSET Step]]
  BY RunsAssumption, MineType DEF TypeOK
<1>1. UNCHANGED <<handler, expired>> /\ CalledOff(c)' = CalledOff(c)
  BY Registers DEF CalledOff
<1>8. handler[c] = "answered" => FALSE
  <2>1. pc[c] \in {"called"} \cup Running
    BY Registers
  <2> QED
    BY <2>1 DEF Fresh, Running, Working
<1>2. ASSUME NEW s, Publish(RunOf[c], s) PROVE Mine(c)' = s
  BY <1>0, <1>2, PublishOwn DEF Mine
<1>3. ASSUME UNCHANGED snap PROVE Mine(c)' = Mine(c)
  BY <1>3 DEF Mine
<1>4. CASE Begin(c)
  <2>1. Mine(c)' = [status |-> "processing", cancel |-> FALSE, deadline |-> c, steps |-> {}]
    BY <1>2, <1>4 DEF Begin
  <2>2. pc[c] = "called" /\ pc'[c] = "begun" /\ approved'[c] = 0 /\ why' = why /\ result' = result
    BY <1>0, <1>4 DEF Begin, Fresh
  <2>3. OwnSteps(c, 0) = {}
    BY DEF OwnSteps
  <2>4. OwnSteps(c, approved[c])' = {}
    BY <2>2, <2>3 DEF OwnSteps
  <2> QED
    BY <1>1, <1>8, <2>1, <2>2, <2>4 DEF Private, Running
<1>5. CASE Queue(c) \/ Acquire(c)
  <2>1. Mine(c)' = Mine(c)
    BY <1>2, <1>5 DEF Queue, Acquire
  <2>2. /\ pc[c] \in {"begun", "waiting"} /\ pc'[c] \in {"waiting", "request"}
        /\ UNCHANGED <<approved, why, result>>
    BY <1>0, <1>5 DEF Queue, Acquire
  <2> QED
    BY <1>1, <1>8, <2>1, <2>2 DEF Private, Running, Working, OwnSteps
<1>6. CASE Reject(c) \/ LoopEnd(c) \/ PlanLost(c) \/ AnswerFails(c)
  <2>1. /\ pc[c] \in Running /\ pc'[c] = "leaving" /\ why'[c] \in {"failed", "completed", "incomplete"}
        /\ UNCHANGED <<snap, approved, result>>
    BY <1>0, <1>6 DEF Reject, LoopEnd, PlanLost, AnswerFails, Running, Working
  <2>2. Mine(c)' = Mine(c)
    BY <1>3, <2>1
  <2> QED
    BY <1>1, <1>8, <2>1, <2>2 DEF Private, Running, Working, OwnSteps
<1>7. CASE ChunkCheck(c) \/ RequestCheck(c)
  <2>1. UNCHANGED <<snap, approved, result>> /\ pc[c] \in {"check", "request"}
    BY <1>7 DEF ChunkCheck, RequestCheck
  <2>2. \/ CancelRequested(c) /\ pc'[c] = "leaving" /\ why'[c] = "cancelled"
        \/ Mine(c).deadline \in expired \cup {NoCall} /\ pc'[c] = "leaving" /\ why'[c] = "deadline"
        \/ pc'[c] \in {"request", "ask"} /\ why' = why
    <3>1. CASE ChunkCheck(c)
      BY <1>0, <3>1 DEF ChunkCheck, OutOfTime
    <3>2. CASE RequestCheck(c)
      BY <1>0, <3>2 DEF RequestCheck, RequestOutOfTime
    <3> QED
      BY <1>7, <3>1, <3>2
  <2>3. Mine(c)' = Mine(c) /\ Mine(c).deadline = c
    BY <1>3, <2>1 DEF Private, Running, Working
  <2> QED
    BY <1>0, <1>1, <1>8, <2>1, <2>2, <2>3 DEF Private, Running, Working, OwnSteps, CancelRequested
<1>9. CASE Planned(c) \/ Progress(c)
  <2>1. /\ pc[c] = "ask" /\ pc'[c] \in {"check", "request"} /\ UNCHANGED <<approved, why, result>>
    BY <1>0, <1>9 DEF Planned, Progress
  <2>2. Publish(RunOf[c], [Mine(c) EXCEPT !.steps = OwnSteps(c, approved[c])])
    BY <1>9 DEF Planned, Progress, Fresh, Running, Working
  <2>3. Mine(c)' = [Mine(c) EXCEPT !.steps = OwnSteps(c, approved[c])]
    BY <1>2, <2>2
  <2>4. /\ Mine(c)'.status = Mine(c).status /\ Mine(c)'.deadline = Mine(c).deadline
        /\ Mine(c)'.cancel = Mine(c).cancel /\ Mine(c)'.steps = OwnSteps(c, approved[c])
    BY <1>0, <2>3 DEF Snapshot
  <2> QED
    BY <1>1, <1>8, <2>1, <2>4 DEF Private, Running, Working, OwnSteps
<1>10. CASE Approve(c)
  <2>1. /\ pc[c] = "ask" /\ pc'[c] = "check" /\ UNCHANGED <<why, result>>
        /\ Publish(RunOf[c], [Mine(c) EXCEPT !.steps = OwnSteps(c, approved'[c])])
    BY <1>0, <1>10 DEF Approve
  <2>2. Mine(c)' = [Mine(c) EXCEPT !.steps = OwnSteps(c, approved'[c])]
    BY <1>2, <2>1
  <2>3. /\ Mine(c)'.status = Mine(c).status /\ Mine(c)'.deadline = Mine(c).deadline
        /\ Mine(c)'.cancel = Mine(c).cancel /\ Mine(c)'.steps = OwnSteps(c, approved'[c])
    BY <1>0, <2>2 DEF Snapshot
  <2>4. OwnSteps(c, approved[c])' = OwnSteps(c, approved'[c])
    BY DEF OwnSteps
  <2> QED
    BY <1>1, <1>8, <2>1, <2>3, <2>4 DEF Private, Running, Working
<1>11. CASE AnswerCancelled(c)
  <2>1. /\ pc[c] = "ask" /\ CancelRequested(c) /\ pc'[c] = "leaving" /\ why'[c] = "cancelled"
        /\ UNCHANGED <<snap, approved, result>>
    BY <1>0, <1>11 DEF AnswerCancelled
  <2> QED
    BY <1>1, <1>8, <1>3, <2>1 DEF Private, Running, Working, OwnSteps, CancelRequested
<1>12. CASE Recover(c)
  <2>1. pc[c] = "leaving" /\ pc'[c] = "closing" /\ UNCHANGED <<snap, approved, why>>
    BY <1>0, <1>12 DEF Recover
  <2>2. result'[c].kind = why[c] /\ (why[c] # "failed" => result'[c].steps = OwnSteps(c, approved[c]))
    <3>1. Mine(c).steps = OwnSteps(c, approved[c])
      BY <2>1 DEF Private, Running
    <3> QED
      BY <1>0, <1>12, <3>1 DEF Recover
  <2> QED
    BY <1>1, <1>8, <1>3, <2>1, <2>2 DEF Private, Running, Working, OwnSteps
<1>13. CASE Finish(c)
  <2>1. pc[c] = "closing" /\ pc'[c] = "done" /\ UNCHANGED <<approved, why, result>>
    BY <1>0, <1>13 DEF Finish
  <2>2. PICK s : Mine(c)' = [Mine(c) EXCEPT !.status = s]
    BY <1>2, <1>13 DEF Finish
  <2>3. Mine(c)'.cancel = Mine(c).cancel /\ Mine(c)'.steps = Mine(c).steps
    BY <1>0, <2>2 DEF Snapshot
  <2> QED
    BY <1>1, <1>8, <2>1, <2>3 DEF Private, Running, Working, OwnSteps
<1> QED
  BY <1>4, <1>5, <1>6, <1>7, <1>9, <1>10, <1>11, <1>12, <1>13 DEF Thread

(* Fresh is kept by a step of the call's thread.                           *)
LEMMA OwnFresh ==
    ASSUME TypeOK, NEW c \in Call, Fresh(c), Thread(c)
    PROVE  Fresh(c)'
<1> USE DEF Goto, Leave, GoOn
<1>0. /\ pc \in [Call -> {"idle", "called", "done"} \cup Running]
      /\ approved \in [Call -> 0..Assessments]
  BY DEF TypeOK
<1>1. /\ pc[c] \in {"called"} \cup Running /\ handler[c] # "answered"
      /\ UNCHANGED <<handler, gone>>
  BY Registers DEF Fresh, Running, Working
<1>2. pc'[c] \in Running \cup {"done"}
  BY <1>0 DEF Thread, Begin, Queue, Acquire, Planned, Progress, Approve, Finish, Reject, ChunkCheck,
         LoopEnd, RequestCheck, PlanLost, AnswerCancelled, AnswerFails, Recover, Running, Working
<1>3. pc'[c] \in Running \ {"closing"} /\ c \notin planned' => approved'[c] = 0
  <2>1. CASE Begin(c) \/ Reject(c) \/ Queue(c) \/ Acquire(c) \/ PlanLost(c)
    BY <1>0, <2>1 DEF Begin, Reject, Queue, Acquire, PlanLost, Fresh, Running, Working
  <2>2. CASE ChunkCheck(c) \/ LoopEnd(c) \/ RequestCheck(c) \/ AnswerCancelled(c) \/ AnswerFails(c)
    <3>1. UNCHANGED <<planned, approved>> /\ pc[c] \in Running \ {"closing"}
      BY <2>2 DEF ChunkCheck, LoopEnd, RequestCheck, AnswerCancelled, AnswerFails, Running, Working
    <3> QED
      BY <3>1 DEF Fresh
  <2>3. CASE Planned(c) \/ Progress(c) \/ Approve(c)
    BY <2>3 DEF Planned, Progress, Approve
  <2>4. CASE Recover(c) \/ Finish(c)
    BY <1>0, <2>4 DEF Recover, Finish, Running, Working
  <2> QED
    BY <2>1, <2>2, <2>3, <2>4 DEF Thread
<1> QED
  BY <1>1, <1>2, <1>3 DEF Fresh, Running, Working

(* A step of a thread keeps the registry's invariant.                      *)
LEMMA ThreadStep ==
    ASSUME RegistryInv, TypeOK', NEW c \in Call, Thread(c)
    PROVE  RegistryInv'
<1>0. /\ TypeOK /\ Once(order) /\ \A d \in Call : Cohort(d) /\ Fresh(d) /\ (Undisturbed(d) => Alone(d))
      /\ \A d \in Call : RunOf[d] \in RunId
  BY RunsAssumption DEF RegistryInv
<1>1. /\ (UNCHANGED <<order, snap>> /\ pc[c] \in Running) \/ \E s : Publish(RunOf[c], s)
      /\ UNCHANGED <<handler, gone, expired, stopped, beside>>
      /\ pc[c] \in {"called"} \cup Running
  BY Registers
<1>2. Underway(c)
  BY <1>1 DEF Underway, Running, Working
<1>3. Once(order')
  BY <1>0, <1>1, PublishOwn
<1>4. ASSUME NEW d \in Call PROVE (Underway(d)' => Underway(d)) /\ Fresh(d)'
  <2>1. CASE d = c
    BY <1>0, <1>2, <2>1, OwnFresh
  <2>2. CASE d # c
    <3>1. /\ pc'[d] = pc[d] /\ approved'[d] = approved[d] /\ why'[d] = why[d] /\ result'[d] = result[d]
          /\ d \in planned <=> d \in planned'
      BY <1>0, <2>2, LeavesOthers
    <3> QED
      BY <1>0, <1>1, <3>1 DEF Underway, Fresh
  <2> QED
    BY <2>1, <2>2
<1>5. \A d \in Call : Cohort(d)'
  BY <1>0, <1>1, <1>4 DEF Cohort
<1>6. ASSUME NEW d \in Call, Undisturbed(d)' PROVE Alone(d)'
  <2>1. Undisturbed(d) /\ RunsBeside(d)' = RunsBeside(d)
    BY <1>1, <1>6 DEF Undisturbed, RunsBeside
  <2>2. Alone(d) /\ Fresh(d) /\ Cohort(d)
    BY <1>0, <2>1
  <2>3. CASE d = c
    <3>1. Private(d)'
      BY <1>0, <2>2, <2>3, OwnPrivate DEF Alone
    <3>2. CASE \E s : Publish(RunOf[c], s)
      <4>1. Late(order', RunOf[c], RunsBeside(c))
        BY <1>0, <3>2, PublishOwn
      <4>2. Late(order', RunOf[d], RunsBeside(d)')
        BY <2>1, <2>3, <4>1
      <4> QED
        BY <3>1, <4>2 DEF Alone, Late
    <3>3. CASE UNCHANGED <<order, snap>> /\ pc[c] \in Running
      <4>1. Late(order, RunOf[d], RunsBeside(d))
        BY <2>2, <2>3, <3>3 DEF Alone, Live
      <4> QED
        BY <2>1, <3>1, <3>3, <4>1 DEF Alone, Late
    <3> QED
      BY <1>1, <3>2, <3>3
  <2>4. CASE d # c
    <3>1. /\ pc'[d] = pc[d] /\ approved'[d] = approved[d] /\ why'[d] = why[d] /\ result'[d] = result[d]
      BY <1>0, <2>4, LeavesOthers
    <3>2. Live(d)' => Live(d)
      BY <1>1, <3>1 DEF Live
    <3>3. Live(d) => snap'[RunOf[d]] = snap[RunOf[d]] /\ Late(order', RunOf[d], RunsBeside(d))
      <4> SUFFICES ASSUME Live(d)
                   PROVE  snap'[RunOf[d]] = snap[RunOf[d]] /\ Late(order', RunOf[d], RunsBeside(d))
        OBVIOUS
      <4>1. Late(order, RunOf[d], RunsBeside(d))
        BY <2>2 DEF Alone
      <4>2. RunOf[c] # RunOf[d] /\ RunOf[c] \in RunsBeside(d)
        BY <1>2, <2>1, <2>2, <2>4, LiveUnderway, OtherRun
      <4>3. IsFiniteSet(RunsBeside(d)) /\ Cardinality(RunsBeside(d)) < Capacity
        BY <1>0, <2>1, BesideFinite DEF Undisturbed
      <4>4. CASE \E s : Publish(RunOf[c], s)
        BY <1>0, <4>1, <4>2, <4>3, <4>4, PublishOther
      <4>5. CASE UNCHANGED <<order, snap>>
        BY <4>1, <4>5
      <4> QED
        BY <1>1, <4>4, <4>5
    <3>4. Live(d)' => Mine(d)' = Mine(d)
      BY <3>2, <3>3 DEF Mine
    <3>5. CalledOff(d)' = CalledOff(d)
      BY <1>1 DEF CalledOff
    <3>6. Untouched(d)
      BY <1>1, <3>1, <3>2, <3>4, <3>5 DEF Untouched
    <3>7. Private(d)'
      BY <2>2, <3>6, UntouchedStays DEF Alone
    <3>8. Live(d)' => Late(order', RunOf[d], RunsBeside(d)')
      BY <2>1, <3>2, <3>3
    <3> QED
      BY <3>7, <3>8 DEF Alone, Late
  <2> QED
    BY <2>3, <2>4
<1> QED
  BY <1>0, <1>3, <1>4, <1>5, <1>6 DEF RegistryInv, Once

(* Cancelling a run only raises its snapshot's flag.                       *)
LEMMA CancelFlag ==
    ASSUME TypeOK, NEW r \in RunId, CancelAuditRun(r), NEW x \in RunId
    PROVE  /\ snap'[x].status = snap[x].status /\ snap'[x].deadline = snap[x].deadline
           /\ snap'[x].steps = snap[x].steps
           /\ x # r => snap'[x] = snap[x]
<1>1. CASE snap' = snap
  BY <1>1
<1>2. CASE snap' = [snap EXCEPT ![r].cancel = TRUE]
  <2>1. CASE x = r
    <3>1. snap'[x] = [snap[x] EXCEPT !.cancel = TRUE] /\ snap[x] \in Snapshot
      BY <1>2, <2>1 DEF TypeOK
    <3> QED
      BY <2>1, <3>1 DEF Snapshot
  <2>2. CASE x # r
    BY <1>2, <2>2 DEF TypeOK
  <2> QED
    BY <2>1, <2>2
<1> QED
  BY <1>1, <1>2 DEF CancelAuditRun

(* The steps of handlers, clients and clock as what they leave alone; a    *)
(* call is cancelled only by its own handler or for what is CalledOff.     *)
Gentle ==
    /\ UNCHANGED <<pc, order, planned, approved, why>>
    /\ \A d \in Call : beside'[d] = beside[d]
    /\ \A d \in Call : handler'[d] # handler[d] => handler[d] \in Watching
    /\ gone \subseteq gone' /\ expired \subseteq expired' /\ stopped \subseteq stopped'
    /\ \A d \in Call : handler'[d] = "cancelling" => d \in gone'
    /\ \A d \in Call : handler'[d] = "answered" /\ handler[d] # "answered" => pc[d] = "done"

(* Such a step keeps the invariant if it keeps each call's results and,    *)
(* for undisturbed calls, their snapshots.                                 *)
LEMMA GentleStep ==
    ASSUME RegistryInv, TypeOK', Gentle,
           \A d \in Call : pc[d] # "done" => result'[d] = result[d],
           \A d \in Call : Undisturbed(d) /\ Alone(d) => Private(d)'
    PROVE  RegistryInv'
<1>0. /\ TypeOK /\ Once(order) /\ \A d \in Call : Cohort(d) /\ Fresh(d) /\ (Undisturbed(d) => Alone(d))
  BY DEF RegistryInv
<1>1. ASSUME NEW d \in Call PROVE (Underway(d)' => Underway(d)) /\ Fresh(d)'
  <2>1. Underway(d)' => Underway(d)
    BY DEF Gentle, Underway
  <2>2. Fresh(d)
    BY <1>0
  <2>3. /\ pc'[d] = pc[d] /\ approved'[d] = approved[d] /\ why'[d] = why[d] /\ planned' = planned
        /\ pc[d] # "done" => result'[d] = result[d]
        /\ handler'[d] = "cancelling" => d \in gone'
        /\ handler'[d] = "answered" => handler[d] = "answered" \/ pc[d] = "done"
        /\ handler[d] = "none" => handler'[d] = "none"
    BY DEF Gentle, Watching
  <2>4. Fresh(d)'
    BY <2>2, <2>3 DEF Fresh
  <2> QED
    BY <2>1, <2>4
<1>2. \A d \in Call : Cohort(d)'
  BY <1>0, <1>1 DEF Cohort, Gentle
<1>3. ASSUME NEW d \in Call, Undisturbed(d)' PROVE Alone(d)'
  <2>1. Undisturbed(d) /\ RunsBeside(d)' = RunsBeside(d)
    BY <1>3 DEF Undisturbed, RunsBeside, Gentle
  <2>2. Alone(d) /\ Private(d)'
    BY <1>0, <2>1
  <2>3. Live(d)' => Live(d)
    BY DEF Live, Gentle
  <2>4. Live(d)' => Late(order', RunOf[d], RunsBeside(d)')
    BY <2>1, <2>2, <2>3 DEF Alone, Gentle
  <2> QED
    BY <2>2, <2>4 DEF Alone, Late
<1>4. Once(order')
  BY <1>0 DEF Gentle
<1> QED
  BY <1>0, <1>1, <1>2, <1>3, <1>4 DEF RegistryInv, Once

(* No handler answers.                                                     *)
Silent == \A d \in Call : handler'[d] = "answered" => handler[d] = "answered"

(* A step that leaves snapshots and results alone.                         *)
LEMMA PlainStep ==
    ASSUME RegistryInv, TypeOK', Gentle, Silent, UNCHANGED <<snap, result>>
    PROVE  RegistryInv'
<1>1. ASSUME NEW d \in Call, Alone(d) PROVE Private(d)'
  <2>1. Mine(d)' = Mine(d)
    BY DEF Mine
  <2>2. CalledOff(d) => CalledOff(d)'
    BY DEF CalledOff, Gentle, Watching
  <2>3. Live(d)' => Live(d)
    BY DEF Live, Gentle
  <2>4. Untouched(d)
    BY <2>1, <2>2, <2>3 DEF Untouched, Gentle, Silent
  <2> QED
    BY <1>1, <2>4, UntouchedStays DEF Alone
<1> QED
  BY <1>1, GentleStep

(* Cancelling by run id reaches an undisturbed call only when it is called *)
(* off.                                                                    *)
LEMMA CancelStep ==
    ASSUME RegistryInv, TypeOK', Gentle, Silent, NEW r \in RunId, CancelAuditRun(r), UNCHANGED result,
           \A d \in Call : Undisturbed(d) /\ pc[d] \in Running /\ RunOf[d] = r => CalledOff(d)'
    PROVE  RegistryInv'
<1>1. ASSUME NEW d \in Call, Undisturbed(d), Alone(d) PROVE Private(d)'
  <2>1. RunOf[d] \in RunId /\ TypeOK
    BY RunsAssumption DEF RegistryInv
  <2>2. /\ Mine(d)'.status = Mine(d).status /\ Mine(d)'.deadline = Mine(d).deadline
        /\ Mine(d)'.steps = Mine(d).steps /\ (RunOf[d] # r => Mine(d)' = Mine(d))
    BY <2>1, CancelFlag DEF Mine
  <2>3. /\ pc'[d] = pc[d] /\ approved'[d] = approved[d] /\ why'[d] = why[d] /\ result'[d] = result[d]
        /\ (Live(d)' => Live(d)) /\ expired \subseteq expired'
    BY DEF Gentle, Live
  <2>4. pc[d] \in Running /\ Mine(d)'.cancel => Mine(d).cancel \/ CalledOff(d)'
    BY <1>1, <2>2
  <2>5. CalledOff(d) => CalledOff(d)'
    BY DEF CalledOff, Gentle, Watching
  <2>6. Untouched(d)
    BY <2>2, <2>3, <2>4, <2>5 DEF Untouched, Silent
  <2> QED
    BY <1>1, <2>6, UntouchedStays DEF Alone
<1> QED
  BY <1>1, GentleStep

(* The handler of another call of the run is not beside an undisturbed     *)
(* call.                                                                   *)
LEMMA OwnHandler ==
    ASSUME RegistryInv, NEW c \in Call, handler[c] \in Watching
    PROVE  \A d \in Call : Undisturbed(d) /\ pc[d] \in Running /\ RunOf[d] = RunOf[c] => d = c
<1>1. Underway(c)
  BY DEF Underway
<1>2. \A d \in Call : pc[d] \in Running => Underway(d)
  BY DEF Underway, Running, Working
<1> QED
  BY <1>1, <1>2, OtherRun DEF RegistryInv

(* A call arrives: it is beside every call under way, and they beside it.  *)
LEMMA ArriveStep ==
    ASSUME RegistryInv, TypeOK', NEW c \in Call, Arrive(c)
    PROVE  RegistryInv'
<1>0. /\ TypeOK /\ Once(order) /\ \A d \in Call : Cohort(d) /\ Fresh(d) /\ (Undisturbed(d) => Alone(d))
  BY DEF RegistryInv
<1>1. /\ pc[c] = "idle" /\ pc' = [pc EXCEPT ![c] = "called"]
      /\ handler' = [handler EXCEPT ![c] = "watching"]
      /\ UNCHANGED <<order, snap, planned, approved, why, result, gone, expired, stopped>>
  BY DEF Arrive, Goto
<1>2. /\ beside'[c] = {e \in Call : Underway(e)}
      /\ \A d \in Call \ {c} : beside'[d] = IF Underway(d) THEN beside[d] \cup {c} ELSE beside[d]
  BY DEF Arrive
<1>3. /\ pc'[c] = "called" /\ handler'[c] = "watching"
      /\ \A d \in Call \ {c} : pc'[d] = pc[d] /\ handler'[d] = handler[d]
  BY <1>0, <1>1 DEF TypeOK
<1>4. \A d \in Call \ {c} : Underway(d)' = Underway(d)
  BY <1>3 DEF Underway
<1>5. \A d \in Call : Cohort(d)'
  BY <1>0, <1>2, <1>4 DEF Cohort
<1>6. \A d \in Call : Fresh(d)'
  <2>1. Fresh(c)'
    BY <1>0, <1>1, <1>3 DEF Fresh, Running, Working
  <2>2. ASSUME NEW d \in Call \ {c} PROVE Fresh(d)'
    BY <1>0, <1>1, <1>3 DEF Fresh
  <2> QED
    BY <2>1, <2>2
<1>7. ASSUME NEW d \in Call, Undisturbed(d)' PROVE Alone(d)'
  <2>1. CASE d = c
    <3>1. /\ pc'[c] = "called" /\ handler'[c] = "watching" /\ why'[c] = "none" /\ result'[c].kind = "none"
      BY <1>0, <1>1, <1>3 DEF Fresh, NoResult
    <3>2. Private(c)' /\ ~ Live(c)'
      BY <3>1 DEF Private, Live, Running, Working
    <3> QED
      BY <2>1, <3>2 DEF Alone
  <2>2. CASE d # c
    <3>1. Undisturbed(d) /\ RunsBeside(d) \subseteq RunsBeside(d)'
      BY <1>0, <1>2, <1>7, <2>2, StaysUndisturbed
    <3>2. Alone(d)
      BY <1>0, <3>1
    <3>3. Mine(d)' = Mine(d) /\ (Live(d)' => Live(d)) /\ CalledOff(d)' = CalledOff(d)
      BY <1>1, <1>3, <2>2 DEF Mine, Live, CalledOff
    <3>4. Untouched(d)
      BY <1>1, <1>3, <2>2, <3>3 DEF Untouched
    <3>5. Private(d)'
      BY <3>2, <3>4, UntouchedStays DEF Alone
    <3>6. Live(d)' => Late(order, RunOf[d], RunsBeside(d)')
      BY <3>1, <3>2, <3>3, LateMore DEF Alone
    <3> QED
      BY <1>1, <3>5, <3>6 DEF Alone, Late
  <2> QED
    BY <2>1, <2>2
<1> QED
  BY <1>0, <1>1, <1>5, <1>6, <1>7 DEF RegistryInv, Once

(* A step of a handler keeps the registry's invariant.                     *)
LEMMA HandlerStep ==
    ASSUME RegistryInv, TypeOK', NEW c \in Call, Handler(c)
    PROVE  RegistryInv'
<1>0. /\ TypeOK /\ \A d \in Call : Fresh(d) /\ (Undisturbed(d) => Alone(d))
      /\ handler \in [Call -> {"none", "answered", "aborted"} \cup Watching]
      /\ RunOf[c] \in RunId
  BY RunsAssumption DEF RegistryInv, TypeOK
<1>1. CASE Arrive(c)
  BY <1>1, ArriveStep
<1>2. CASE Notice(c)
  <2>1. Gentle /\ Silent /\ UNCHANGED <<snap, result>>
    BY <1>0, <1>2 DEF Notice, Gentle, Silent, Fresh, Watching
  <2> QED
    BY <2>1, PlainStep
<1>3. CASE Cancel(c)
  <2>1. Gentle /\ Silent /\ CancelAuditRun(RunOf[c]) /\ UNCHANGED result
    BY <1>0, <1>3 DEF Cancel, CancelAuditRun, Gentle, Silent, Fresh, Watching
  <2>2. handler[c] \in Watching /\ CalledOff(c)'
    BY <1>0, <1>3 DEF Cancel, CalledOff, Fresh, Watching
  <2>3. \A d \in Call : Undisturbed(d) /\ pc[d] \in Running /\ RunOf[d] = RunOf[c] => CalledOff(d)'
    BY <2>2, OwnHandler
  <2> QED
    BY <1>0, <2>1, <2>3, CancelStep
<1>4. CASE Abort(c)
  <2>1. Gentle /\ Silent /\ CancelAuditRun(RunOf[c]) /\ UNCHANGED result
    BY <1>0, <1>4 DEF Abort, CancelAuditRun, Gentle, Silent, Fresh, Watching
  <2>2. handler[c] \in Watching /\ CalledOff(c)'
    BY <1>0, <1>4 DEF Abort, CalledOff, Watching
  <2>3. \A d \in Call : Undisturbed(d) /\ pc[d] \in Running /\ RunOf[d] = RunOf[c] => CalledOff(d)'
    BY <2>2, OwnHandler
  <2> QED
    BY <1>0, <2>1, <2>3, CancelStep
<1>5. CASE Reply(c)
  <2>1. Gentle
    BY <1>0, <1>5 DEF Reply, Gentle, Fresh, Watching
  <2>2. result' = [result EXCEPT ![c].steps = IF why[c] = "failed" THEN Mine(c).steps ELSE @]
    BY <1>5 DEF Reply
  <2>3. /\ \A d \in Call \ {c} : result'[d] = result[d]
        /\ result'[c].kind = result[c].kind
        /\ result'[c].steps = IF why[c] = "failed" THEN Mine(c).steps ELSE result[c].steps
    BY <1>0, <2>2 DEF TypeOK
  <2>4. /\ pc[c] = "done" /\ handler[c] = "watching" /\ handler'[c] = "answered"
        /\ UNCHANGED <<pc, snap, approved, why, gone, expired, stopped>>
        /\ \A d \in Call \ {c} : handler'[d] = handler[d]
    BY <1>0, <1>5 DEF Reply
  <2>5. ASSUME NEW d \in Call, Alone(d) PROVE Private(d)'
    <3>1. CASE d = c
      <4>1. Private(c) /\ (CalledOff(c) => CalledOff(c)')
        BY <2>4, <2>5, <3>1 DEF Alone, CalledOff
      <4>2. pc[c] \notin Running /\ "answered" \notin Watching /\ handler[c] \in Watching
        BY <2>4 DEF Running, Working, Watching
      <4>3. OwnSteps(c, approved[c])' = OwnSteps(c, approved[c])
        BY <2>4 DEF OwnSteps
      <4>4. result'[c].steps = OwnSteps(c, approved[c])
        BY <2>3, <2>4, <4>1, <4>2 DEF Private
      <4> QED
        BY <2>3, <2>4, <3>1, <4>1, <4>2, <4>3, <4>4 DEF Private
    <3>2. CASE d # c
      <4>1. Mine(d)' = Mine(d) /\ Live(d)' = Live(d) /\ CalledOff(d)' = CalledOff(d)
        BY <2>4, <3>2 DEF Mine, Live, CalledOff
      <4>2. Untouched(d)
        BY <2>3, <2>4, <3>2, <4>1 DEF Untouched
      <4> QED
        BY <2>5, <4>2, UntouchedStays DEF Alone
    <3> QED
      BY <3>1, <3>2
  <2>6. \A d \in Call : pc[d] # "done" => result'[d] = result[d]
    BY <2>3, <2>4
  <2> QED
    BY <2>1, <2>5, <2>6, GentleStep
<1> QED
  BY <1>1, <1>2, <1>3, <1>4, <1>5 DEF Handler

(* So does a step of the cancel endpoint, a client, the clock or the       *)
(* legacy endpoint.                                                        *)
LEMMA OutsideStep ==
    ASSUME RegistryInv, TypeOK',
           \/ \E c \in Call : Disconnect(c) \/ Expire(c)
           \/ \E r \in RunId : CancelRun(r)
           \/ LegacyTake \/ LegacyRelease
    PROVE  RegistryInv'
<1>0. \A d \in Call : Fresh(d)
  BY DEF RegistryInv
<1>1. CASE (\E c \in Call : Disconnect(c) \/ Expire(c)) \/ LegacyTake \/ LegacyRelease
  <2>1. Gentle /\ Silent /\ UNCHANGED <<snap, result>>
    BY <1>0, <1>1 DEF Disconnect, Expire, LegacyTake, LegacyRelease, Gentle, Silent, Fresh
  <2> QED
    BY <2>1, PlainStep
<1>2. CASE \E r \in RunId : CancelRun(r)
  <2>1. PICK r \in RunId : CancelRun(r)
    BY <1>2
  <2>2. Gentle /\ Silent /\ CancelAuditRun(r) /\ UNCHANGED result
    BY <1>0, <2>1 DEF CancelRun, CancelAuditRun, Gentle, Silent, Fresh
  <2>3. \A d \in Call : Undisturbed(d) /\ pc[d] \in Running /\ RunOf[d] = r => CalledOff(d)'
    BY <2>1 DEF CancelRun, CalledOff
  <2> QED
    BY <2>2, <2>3, CancelStep
<1> QED
  BY <1>1, <1>2

(* Initially no call is beside another.                                    *)
LEMMA RegistryStart == Init => RegistryInv
<1> SUFFICES ASSUME Init PROVE RegistryInv
  OBVIOUS
<1>1. TypeOK /\ Once(order)
  BY TypeInit DEF Init, Once
<1>2. ASSUME NEW c \in Call PROVE Cohort(c) /\ Fresh(c) /\ Alone(c)
  <2>1. /\ pc[c] = "idle" /\ handler[c] = "none" /\ approved[c] = 0 /\ why[c] = "none"
        /\ result[c] = NoResult
    BY DEF Init
  <2>2. Cohort(c) /\ Fresh(c)
    BY <2>1 DEF Cohort, Fresh, Underway, Watching, Running, Working
  <2>3. Alone(c)
    BY <2>1 DEF Alone, Private, Live, NoResult, Running, Working
  <2> QED
    BY <2>2, <2>3
<1> QED
  BY <1>1, <1>2 DEF RegistryInv

(* Every step keeps the registry's invariant.                              *)
LEMMA RegistryStep == RegistryInv /\ TypeOK' /\ [Next]_vars => RegistryInv'
<1> SUFFICES ASSUME RegistryInv, TypeOK', [Next]_vars PROVE RegistryInv'
  OBVIOUS
<1>1. CASE \E c \in Call : Thread(c)
  BY <1>1, ThreadStep
<1>2. CASE \E c \in Call : Handler(c)
  BY <1>2, HandlerStep
<1>3. CASE \/ \E c \in Call : Disconnect(c) \/ Expire(c)
           \/ \E r \in RunId : CancelRun(r)
           \/ LegacyTake \/ LegacyRelease
  BY <1>3, OutsideStep
<1>4. CASE UNCHANGED vars
  <2>1. Gentle /\ Silent /\ UNCHANGED <<snap, result>>
    BY <1>4 DEF vars, Gentle, Silent, RegistryInv, Fresh
  <2> QED
    BY <2>1, PlainStep
<1> QED
  BY <1>1, <1>2, <1>3, <1>4 DEF Next

(* The registry's invariant holds, whatever runs ended before.             *)
LEMMA RegistryHolds == Spec => []RegistryInv
BY RegistryStart, RegistryStep, TypeCorrect, PTL DEF Spec

(* However many runs publish or have published, a call beside fewer than   *)
(* Capacity other runs, and no other call of its own, can be cancelled     *)
(* until its thread has finished.                                          *)
THEOREM RunningIsCancellable == Spec => []RunningIsProcessing
<1>1. RegistryInv => RunningIsProcessing
  BY DEF RegistryInv, Alone, Private, RunningIsProcessing
<1> QED
  BY <1>1, RegistryHolds, PTL

(* Such a call stops early only because its client left, its handler was   *)
(* aborted, it was stopped by its run id, or its own deadline passed.      *)
THEOREM StopHasCause == Spec => []StopsForCause
<1>1. RegistryInv => StopsForCause
  BY DEF RegistryInv, Alone, Private, StopsForCause
<1> QED
  BY <1>1, RegistryHolds, PTL

(* And its answer carries exactly the assessments it completed.            *)
THEOREM AnswersAreComplete == Spec => []ApprovedIsKept
<1>1. RegistryInv => ApprovedIsKept
  BY DEF RegistryInv, Alone, Private, ApprovedIsKept
<1> QED
  BY <1>1, RegistryHolds, PTL
=============================================================================
