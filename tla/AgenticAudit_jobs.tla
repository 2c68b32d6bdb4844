------------------------- MODULE AgenticAudit_jobs -------------------------
(***************************************************************************)
(* The safety properties of AgenticAudit that follow a candidate or a job  *)
(* through the list of chunks while it is scheduled, filtered, split,      *)
(* skipped, prepared ahead and assessed.                                   *)
(***************************************************************************)
EXTENDS AgenticAudit_proofs, FiniteSetTheorems

USE DEF runVars, planVars, statusVars, bookVars, endVars, envVars

-----------------------------------------------------------------------------
(* Nothing is left out.  What is still to do of the kernel is, until some  *)
(* error or reason for manual review appears, in a task that is not cut    *)
(* yet, in a chunk that is not passed yet, or was assessed.                *)
Left     == Remaining(Kernel, locked.tx, locked.rc)
Unplaced == UNION {t.scope : t \in pending}
Ahead    == UNION {chunks[i].cands : i \in idx..Len(chunks)}
Reviewed == UNION {f.chunk.cands : f \in finals}

Clean == error = "none" /\ incomplete = {}

CoverInv ==
    /\ pc \in {"plan", "commands", "schedule"} => idx = 1
    /\ pc = "skip" => Filtered(Current).cands = {}
    /\ Clean =>
         /\ pc \notin {"plan", "commands"} => Left \subseteq Reviewed \cup Ahead \cup Unplaced
         /\ pc \notin {"plan", "commands", "schedule"} => pending = {}
         /\ pc \in {"closing", "ended"} => idx > Len(chunks)

(* The steps that move nothing between the plan, the chunks and the        *)
(* assessments.                                                            *)
Still ==
    /\ UNCHANGED <<chunks, idx, finals, pending, locked, incomplete>>
    /\ \/ pc' = "closing" /\ error' # "none"
       \/ /\ error' = error
          /\ \/ pc' = pc
             \/ {pc, pc'} \subseteq Busy \ {"skip"}
             \/ pc = "plan" /\ pc' = "commands"
             \/ pc = "closing" /\ pc' = "ended"

(* Every step is one of these or moves something by name.                  *)
LEMMA CoverFrame ==
    ASSUME CallInv, [Next]_vars
    PROVE  \/ Still \/ EndCommands \/ EndSchedule \/ LoopEnd \/ LoopSkip \/ Skip
           \/ LoopBlock \/ LoopStart \/ Split \/ Conclude
           \/ \E t \in tasks : ScheduleTask(t)
           \/ \E why \in {"limit", "timeout"} : GiveUp(why)
<1> USE DEF Still, Abort, StopReason, Busy
<1>1. Cancel \/ Expire \/ UNCHANGED vars => Still
  BY DEF vars, Cancel, Expire
<1>2. PlanReply \/ (\E why \in {"limit", "timeout"} : PlanExhausted(why))
      \/ (\E m \in Commands : TakeCommand(m)) => Still
  BY DEF PlanReply, PlanExhausted, TakeCommand
<1>3. LoopStop => Still
  BY DEF LoopStop
<1>4. PrepareReuse \/ PrepareFresh \/ Submit \/ Await => Still
  BY DEF PrepareReuse, PrepareFresh, Submit, Await
<1>5. Prefetch \/ PrefetchSubmit \/ Executor => Still
  BY DEF Prefetch, PrefetchSubmit, EnterAssessment, Executor, PrepareStart, PrepareEnd
<1>6. RequestStop \/ RequestCheck \/ RequestSend \/ ReplyCancelled \/ ReplyBroken \/ ReplyTruncated
      \/ MaReply \/ LiReply => Still
  BY DEF RequestStop, RequestCheck, RequestSend, ReplyCancelled, ReplyBroken, ReplyTruncated,
         MaReply, LiReply
<1>7. Close \/ (\E d \in Verdicts : Approve(d)) => Still
  BY DEF Close, Approve
<1> QED
  BY <1>1, <1>2, <1>3, <1>4, <1>5, <1>6, <1>7
     DEF Next, Run, Planning, Looping, Preparing, Requesting, Deciding

(* What is left of the kernel and lies in a set of candidates that holds   *)
(* groups as a whole is left of that set: filtering loses nothing.         *)
LEMMA LeftInWhole ==
    \A S, tx, rc : Whole(S) => Remaining(Kernel, tx, rc) \cap S \subseteq Remaining(S, tx, rc)
BY DEF Whole, Remaining

(* Locking more leaves less.                                               *)
LEMMA LeftShrinks ==
    \A S, tx, rc, tx2, rc2 : tx \subseteq tx2 /\ rc \subseteq rc2 =>
        Remaining(S, tx2, rc2) \subseteq Remaining(S, tx, rc)
BY DEF Remaining, Touches

(* Cutting a scope into chunks loses nothing.                              *)
LEMMA LayoutCovers ==
    ASSUME NEW S, NEW l \in Layouts(S)
    PROVE  S = UNION {Part(S, l[i]) : i \in DOMAIN l}
<1>1. UNION {l[i] : i \in DOMAIN l} = Txs(S)
  BY DEF Layouts
<1>2. ASSUME NEW c \in S PROVE \E i \in DOMAIN l : TxOf[c] \in l[i]
  BY <1>1 DEF Txs
<1> QED
  BY <1>2 DEF Part

(* Nor does splitting a chunk.                                             *)
LEMMA HalvesCover ==
    ASSUME NEW ch
    PROVE  Halves(ch)[1].cands \cup Halves(ch)[2].cands = ch.cands
<1>1. \E H : Halves(ch) = <<NewChunk(ch.job.task, Part(ch.cands, H)),
                            NewChunk(ch.job.task, Part(ch.cands, Txs(ch.cands) \ H))>>
  BY DEF Halves
<1> QED
  BY <1>1 DEF NewChunk, Part, Txs

(* A task cut into chunks is ahead, whole.                                 *)
LEMMA CoverSchedule ==
    ASSUME TypeInv, CoverInv, NEW t \in tasks, ScheduleTask(t)
    PROVE  CoverInv'
<1>1. PICK l \in Layouts(t.scope) :
        chunks' = chunks \o [i \in DOMAIN l |-> NewChunk(t.id, Part(t.scope, l[i]))]
  BY DEF ScheduleTask
<1> DEFINE jobs == [i \in DOMAIN l |-> NewChunk(t.id, Part(t.scope, l[i]))]
<1>2. t.scope \in SUBSET Source /\ t.id \in AllTasks
  BY DEF TypeInv, TypeOK, Command
<1>3. PICK n \in Nat : DOMAIN l = 1..n
  BY <1>2, LayoutType
<1>4. \A T : Part(t.scope, T) \in SUBSET Source
  BY <1>2 DEF Part
<1>5. jobs \in Seq(Chunk) /\ Len(jobs) = n
  BY <1>2, <1>3, <1>4, NewChunkType
<1>6. t.scope = UNION {jobs[i].cands : i \in 1..n}
  BY <1>3, LayoutCovers DEF NewChunk
<1>7. /\ chunks \in Seq(Chunk) /\ idx = 1 /\ idx' = 1 /\ pc = "schedule" /\ pc' = "schedule"
      /\ finals' = finals /\ locked' = locked /\ pending' = pending \ {t}
      /\ error' = error /\ incomplete' = incomplete
  BY DEF TypeInv, TypeOK, ScheduleTask, CoverInv
<1> HIDE DEF jobs
<1>8. /\ Len(chunks') = Len(chunks) + n
      /\ \A i \in 1..Len(chunks) : chunks'[i] = chunks[i]
      /\ \A i \in 1..n : chunks'[Len(chunks) + i] = jobs[i]
  BY <1>1, <1>5, <1>7 DEF jobs
<1>9. Ahead \subseteq Ahead'
  BY <1>3, <1>7, <1>8 DEF Ahead
<1>10. t.scope \subseteq Ahead'
  <2>1. \A i \in 1..n : jobs[i].cands \subseteq Ahead'
    <3> SUFFICES ASSUME NEW i \in 1..n PROVE jobs[i].cands \subseteq Ahead'
      OBVIOUS
    <3>1. Len(chunks) + i \in idx'..Len(chunks') /\ chunks'[Len(chunks) + i] = jobs[i]
      BY <1>3, <1>7, <1>8
    <3> QED
      BY <3>1 DEF Ahead
  <2> QED
    BY <1>6, <2>1
<1>11. Unplaced \subseteq Unplaced' \cup t.scope
  BY <1>7 DEF Unplaced
<1> QED
  BY <1>7, <1>9, <1>10, <1>11 DEF CoverInv, Clean, Left, Reviewed

(* Where the chunks are after two halves took the place of the k-th.       *)
Splice(s, k, h) == SubSeq(s, 1, k - 1) \o h \o SubSeq(s, k + 1, Len(s))

LEMMA Spliced ==
    ASSUME NEW s \in Seq(Chunk), NEW h \in Seq(Chunk), Len(h) = 2, NEW k \in 1..Len(s)
    PROVE  /\ Splice(s, k, h) \in Seq(Chunk) /\ Len(Splice(s, k, h)) = Len(s) + 1
           /\ \A i \in 1..(k - 1) : Splice(s, k, h)[i] = s[i]
           /\ Splice(s, k, h)[k] = h[1] /\ Splice(s, k, h)[k + 1] = h[2]
           /\ \A i \in (k + 1)..Len(s) : Splice(s, k, h)[i + 1] = s[i]
<1> DEFINE before == SubSeq(s, 1, k - 1)
           front  == before \o h
           after  == SubSeq(s, k + 1, Len(s))
           u      == front \o after
<1>1. /\ before \in Seq(Chunk) /\ Len(before) = k - 1
      /\ \A i \in 1..(k - 1) : before[i] = s[i]
  OBVIOUS
<1>2. /\ after \in Seq(Chunk) /\ Len(after) = Len(s) - k
      /\ \A i \in 1..(Len(s) - k) : after[i] = s[k + i]
  OBVIOUS
<1> HIDE DEF before, after
<1>3. /\ front \in Seq(Chunk) /\ Len(front) = Len(before) + Len(h)
      /\ \A i \in 1..(Len(before) + Len(h)) :
           front[i] = IF i <= Len(before) THEN before[i] ELSE h[i - Len(before)]
  BY <1>1, ConcatProperties
<1> HIDE DEF front
<1>4. /\ u \in Seq(Chunk) /\ Len(u) = Len(front) + Len(after)
      /\ \A i \in 1..(Len(front) + Len(after)) :
           u[i] = IF i <= Len(front) THEN front[i] ELSE after[i - Len(front)]
  <2>1. front \in Seq(Chunk) /\ after \in Seq(Chunk)
    BY <1>2, <1>3
  <2> QED
    BY <2>1, ConcatProperties
<1>5. u = Splice(s, k, h)
  BY DEF front, before, after, Splice
<1> HIDE DEF u
<1>6. Len(s) \in Nat /\ k \in Nat /\ 1 <= k /\ k <= Len(s)
  BY LenProperties
<1>7. /\ Len(before) = k - 1 /\ Len(front) = k + 1 /\ Len(front) + Len(after) = Len(s) + 1
  <2>1. Len(before) = k - 1 /\ Len(front) = Len(before) + 2 /\ Len(after) = Len(s) - k
    BY <1>1, <1>2, <1>3
  <2>2. (k - 1) + 2 = k + 1 /\ (k + 1) + (Len(s) - k) = Len(s) + 1
    BY <1>6
  <2> QED
    BY <2>1, <2>2
<1>8. ASSUME NEW i \in 1..(k + 1)
      PROVE  u[i] = IF i <= k - 1 THEN s[i] ELSE h[i - (k - 1)]
  <2>1. i \in 1..(Len(front) + Len(after)) /\ i <= Len(front)
    BY <1>6, <1>7
  <2>2. i \in 1..(Len(before) + Len(h))
    BY <1>3, <1>7
  <2>3. u[i] = IF i <= Len(before) THEN before[i] ELSE h[i - Len(before)]
    BY <1>3, <1>4, <2>1, <2>2
  <2>4. i <= k - 1 => before[i] = s[i]
    BY <1>1, <1>6
  <2> QED
    BY <1>7, <2>3, <2>4
<1>9. u[k] = h[1] /\ u[k + 1] = h[2]
  <2>1. k \in 1..(k + 1) /\ k + 1 \in 1..(k + 1) /\ k - (k - 1) = 1 /\ (k + 1) - (k - 1) = 2
        /\ ~ (k <= k - 1) /\ ~ (k + 1 <= k - 1)
    BY <1>6
  <2> QED
    BY <1>8, <2>1
<1>10. ASSUME NEW i \in 1..(k - 1) PROVE u[i] = s[i]
  <2>1. i \in 1..(k + 1) /\ i <= k - 1
    BY <1>6
  <2> QED
    BY <1>8, <2>1
<1>11. ASSUME NEW i \in (k + 1)..Len(s) PROVE u[i + 1] = s[i]
  <2>1. i + 1 \in 1..(Len(s) + 1) /\ ~ (i + 1 <= k + 1) /\ (i + 1) - (k + 1) = i - k
        /\ i - k \in 1..(Len(s) - k) /\ k + (i - k) = i
    BY <1>6
  <2>2. u[i + 1] = after[i - k]
    BY <1>4, <1>7, <2>1
  <2> QED
    BY <1>2, <2>1, <2>2
<1> QED
  BY <1>4, <1>5, <1>7, <1>9, <1>10, <1>11

(* Two halves are where the whole chunk was.                               *)
LEMMA CoverSplit ==
    ASSUME TypeInv, CoverInv, Split
    PROVE  CoverInv'
<1> DEFINE halves == Halves(Current)
<1>1. /\ chunks \in Seq(Chunk) /\ idx \in 1..Len(chunks) /\ Current \in Chunk
      /\ Current = chunks[idx] /\ idx' = idx
      /\ Len(chunks) \in Nat /\ idx \in Nat /\ 1 <= idx /\ idx <= Len(chunks)
      /\ chunks' = Splice(chunks, idx, halves)
  BY CurrentType, LenProperties DEF TypeInv, TypeOK, InRange, Busy, Split, Current, Splice
<1>2. halves \in Seq(Chunk) /\ Len(halves) = 2
  BY <1>1, HalvesType
<1>3. halves[1].cands \cup halves[2].cands = Current.cands
  BY HalvesCover
<1> HIDE DEF halves
<1>5. /\ Len(chunks') = Len(chunks) + 1
      /\ chunks'[idx] = halves[1] /\ chunks'[idx + 1] = halves[2]
      /\ \A i \in (idx + 1)..Len(chunks) : chunks'[i + 1] = chunks[i]
  BY <1>1, <1>2, Spliced
<1>6. Ahead \subseteq Ahead'
  <2> SUFFICES ASSUME NEW i \in idx..Len(chunks) PROVE chunks[i].cands \subseteq Ahead'
    BY DEF Ahead
  <2>1. CASE i = idx
    <3>1. idx \in idx'..Len(chunks') /\ idx + 1 \in idx'..Len(chunks')
      BY <1>1, <1>5
    <3>2. chunks'[idx].cands \cup chunks'[idx + 1].cands \subseteq Ahead'
      BY <3>1 DEF Ahead
    <3> QED
      BY <1>1, <1>3, <1>5, <2>1, <3>2
  <2>2. CASE i # idx
    <3>1. i + 1 \in idx'..Len(chunks') /\ chunks'[i + 1] = chunks[i]
      BY <1>1, <1>5, <2>2
    <3> QED
      BY <3>1 DEF Ahead
  <2> QED
    BY <2>1, <2>2
<1>7. /\ pc \in {"ma", "li"} /\ pc' = "loop" /\ finals' = finals /\ locked' = locked
      /\ pending' = pending /\ error' = error /\ incomplete' = incomplete
  BY DEF Split
<1> QED
  BY <1>6, <1>7 DEF CoverInv, Clean, Left, Reviewed, Unplaced

(* A chunk whose candidates are settled, and one that was assessed, may    *)
(* be passed.                                                              *)
LEMMA CoverPass ==
    ASSUME TypeInv, WholeInv, CoverInv, Skip \/ Conclude
    PROVE  CoverInv'
<1>1. /\ chunks \in Seq(Chunk) /\ idx \in 1..Len(chunks) /\ Len(chunks) \in Nat
      /\ Current = chunks[idx] /\ Current \in Chunk
      /\ chunks' = chunks /\ idx' = idx + 1 /\ pending' = pending
      /\ pc \in {"skip", "approve"} /\ pc' = "loop" /\ error' = error /\ incomplete' = incomplete
  BY CurrentType, LenProperties DEF TypeInv, TypeOK, InRange, Busy, Skip, Conclude, Current
<1>2. Ahead \subseteq Current.cands \cup Ahead'
  <2>1. \A i \in idx..Len(chunks) : i = idx \/ i \in (idx + 1)..Len(chunks)
    BY <1>1
  <2> QED
    BY <1>1, <2>1 DEF Ahead
<1>3. Left' \subseteq Left /\ Reviewed \subseteq Reviewed'
  <2>1. /\ locked.tx \subseteq locked'.tx /\ locked.rc \subseteq locked'.rc
        /\ finals \subseteq finals'
    BY DEF Skip, Conclude
  <2> QED
    BY <2>1, LeftShrinks DEF Left, Reviewed
<1>4. Left' \cap Current.cands \subseteq Reviewed'
  <2>1. CASE Conclude
    <3>1. [chunk |-> Current, decisions |-> draft] \in finals'
      BY <2>1 DEF Conclude
    <3> QED
      BY <3>1 DEF Reviewed
  <2>2. CASE Skip
    <3>1. Remaining(Current.cands, locked.tx, locked.rc) = {}
      BY <1>1, <2>2 DEF Skip, CoverInv, Filtered, Chunk
    <3>2. Whole(Current.cands)
      BY <1>1 DEF WholeInv, AllWhole
    <3>3. Left \cap Current.cands = {}
      BY <3>1, <3>2, LeftInWhole DEF Left
    <3> QED
      BY <1>3, <3>3
  <2> QED
    BY <2>1, <2>2
<1>5. Unplaced' = Unplaced
  BY <1>1 DEF Unplaced
<1> QED
  BY <1>1, <1>2, <1>3, <1>4, <1>5 DEF CoverInv, Clean

(* Filtering a chunk when it is started takes what is settled from it.     *)
LEMMA CoverStart ==
    ASSUME TypeInv, WholeInv, CoverInv, LoopStart
    PROVE  CoverInv'
<1>1. /\ chunks \in Seq(Chunk) /\ idx \in 1..Len(chunks) /\ Len(chunks) \in Nat
      /\ Current = chunks[idx] /\ Current \in Chunk
      /\ chunks' = [chunks EXCEPT ![idx] = Filtered(Current)]
      /\ UNCHANGED <<idx, pending, finals, locked, error, incomplete>>
      /\ pc = "loop" /\ pc' \in {"prefetch", "prepare"}
  BY LenProperties DEF TypeInv, TypeOK, InLoop, LoopStart, Current
<1>2. /\ Len(chunks') = Len(chunks) /\ chunks'[idx] = Filtered(Current)
      /\ \A i \in 1..Len(chunks) : i # idx => chunks'[i] = chunks[i]
  BY <1>1, FilteredType
<1>3. Filtered(Current).cands = Remaining(Current.cands, locked.tx, locked.rc)
  BY <1>1 DEF Filtered, Chunk
<1>4. Left \cap Current.cands \subseteq Filtered(Current).cands
  BY <1>1, <1>3, LeftInWhole DEF WholeInv, AllWhole, Left
<1>5. Left \cap Ahead \subseteq Ahead'
  <2> SUFFICES ASSUME NEW i \in idx..Len(chunks) PROVE Left \cap chunks[i].cands \subseteq Ahead'
    BY DEF Ahead
  <2>1. i \in idx'..Len(chunks') /\ i \in 1..Len(chunks)
    BY <1>1, <1>2
  <2>2. chunks'[i].cands \subseteq Ahead'
    BY <2>1 DEF Ahead
  <2>3. Left \cap chunks[i].cands \subseteq chunks'[i].cands
    BY <1>1, <1>2, <1>4, <2>1
  <2> QED
    BY <2>2, <2>3
<1>6. Left' = Left /\ Reviewed' = Reviewed /\ Unplaced' = Unplaced
  BY <1>1 DEF Left, Reviewed, Unplaced
<1> QED
  BY <1>1, <1>5, <1>6 DEF CoverInv, Clean

(* Every step of the run keeps the kernel covered.                         *)
LEMMA CoverStep == TypeInv /\ WholeInv /\ CoverInv /\ CallInv /\ [Next]_vars => CoverInv'
<1> SUFFICES ASSUME TypeInv, WholeInv, CoverInv, CallInv, [Next]_vars PROVE CoverInv'
  OBVIOUS
<1>0. chunks \in Seq(Chunk) /\ idx \in Nat /\ Len(chunks) \in Nat
  BY LenProperties DEF TypeInv, TypeOK
<1>1. CASE Still
  <2>1. /\ Left' = Left /\ Reviewed' = Reviewed /\ Unplaced' = Unplaced /\ Ahead' = Ahead
        /\ idx' = idx /\ chunks' = chunks /\ pending' = pending
    BY <1>1 DEF Still, Left, Reviewed, Unplaced, Ahead
  <2>2. pc' = "skip" => pc = "skip" /\ Filtered(Current)' = Filtered(Current)
    BY <1>1 DEF Still, Filtered, Current, Busy
  <2>3. Clean' => Clean
    BY <1>1 DEF Still, Clean, CoverInv
  <2> QED
    BY <1>1, <2>1, <2>2, <2>3 DEF Still, CoverInv, Clean, Busy
<1>2. CASE EndCommands
  <2>1. Kernel \subseteq Unplaced'
    <3>1. tasks \subseteq tasks' /\ pending' = tasks'
          /\ (Leftovers # {} => \E t \in tasks' : t.scope = Leftovers)
      <4>1. PICK op \in Operation :
              tasks' = IF Leftovers = {} THEN tasks
                       ELSE tasks \cup {[id |-> KernelTask, op |-> op, scope |-> Leftovers, deps |-> {}]}
        BY <1>2 DEF EndCommands
      <4> DEFINE rest == [id |-> KernelTask, op |-> op, scope |-> Leftovers, deps |-> {}]
      <4>2. rest.scope = Leftovers
        OBVIOUS
      <4>3. tasks' = IF Leftovers = {} THEN tasks ELSE tasks \cup {rest}
        BY <4>1
      <4> HIDE DEF rest
      <4>4. tasks \subseteq tasks' /\ (Leftovers # {} => rest \in tasks')
        BY <4>3
      <4>5. pending' = tasks'
        BY <1>2 DEF EndCommands
      <4> QED
        BY <4>2, <4>4, <4>5
    <3>2. \A c \in Kernel : c \in Leftovers \/ \E t \in tasks : c \in t.scope
      BY DEF Leftovers
    <3> QED
      BY <3>1, <3>2 DEF Unplaced
  <2>2. Left' \subseteq Kernel
    BY DEF Left, Remaining
  <2> QED
    BY <1>2, <2>1, <2>2 DEF EndCommands, CoverInv, Clean
<1>3. CASE EndSchedule
  <2>1. /\ Left' = Left /\ Reviewed' = Reviewed /\ Unplaced' = Unplaced /\ Ahead' = Ahead
    BY <1>3 DEF EndSchedule, Left, Reviewed, Unplaced, Ahead
  <2> QED
    BY <1>3, <2>1 DEF EndSchedule, Abort, CoverInv, Clean
<1>4. CASE LoopEnd
  <2>1. /\ Left' = Left /\ Reviewed' = Reviewed /\ Unplaced' = Unplaced /\ Ahead' = Ahead
    BY <1>4 DEF LoopEnd, Left, Reviewed, Unplaced, Ahead
  <2> QED
    BY <1>4, <2>1 DEF LoopEnd, CoverInv, Clean
<1>5. CASE LoopSkip
  <2>1. /\ Left' = Left /\ Reviewed' = Reviewed /\ Unplaced' = Unplaced /\ Ahead' = Ahead
    BY <1>5 DEF LoopSkip, Left, Reviewed, Unplaced, Ahead
  <2>2. Filtered(Current)' = Filtered(Current) /\ Filtered(Current).cands = {}
    BY <1>5 DEF LoopSkip, Filtered, Current
  <2>3. pc = "loop" /\ pc' = "skip" /\ UNCHANGED <<idx, chunks, pending, error, incomplete>>
    BY <1>5 DEF LoopSkip, InLoop
  <2> QED
    BY <2>1, <2>2, <2>3 DEF CoverInv, Clean
<1>6. CASE LoopBlock \/ \E why \in {"limit", "timeout"} : GiveUp(why)
  <2>1. incomplete' # {} /\ pc' = "loop"
    BY <1>6 DEF LoopBlock, InLoop, GiveUp
  <2> QED
    BY <2>1 DEF CoverInv, Clean
<1>7. CASE \E t \in tasks : ScheduleTask(t)
  BY <1>7, CoverSchedule
<1> QED
  BY <1>1, <1>2, <1>3, <1>4, <1>5, <1>6, <1>7, CoverPass, CoverStart, CoverSplit, CoverFrame

(* A round reported without an error code left no candidate of the kernel  *)
(* behind: whatever the plan, the cuts, the splits and the matches, each   *)
(* was in a chunk Li assessed or is settled.                               *)
THEOREM NothingIsLeftOut == Spec => []CompletedMeansReviewed
<1>1. Init => CoverInv
  BY DEF Init, CoverInv
<1>2. Spec => []CoverInv
  BY <1>1, TypeInvariant, WholeInvariant, CallInvariant, CoverStep, PTL DEF Spec
<1>3. TypeInv /\ CoverInv => CompletedMeansReviewed
  <2> SUFFICES ASSUME TypeInv, CoverInv, Outcome = "completed"
               PROVE  Left \subseteq Reviewed
    BY DEF CompletedMeansReviewed, Left, Reviewed
  <2>1. pc = "ended" /\ Clean
    BY DEF Outcome, Clean
  <2>2. idx > Len(chunks) /\ pending = {} /\ Left \subseteq Reviewed \cup Ahead \cup Unplaced
    BY <2>1 DEF CoverInv
  <2>3. idx..Len(chunks) = {}
    BY <2>2, LenProperties DEF TypeInv, TypeOK
  <2> QED
    BY <2>2, <2>3 DEF Ahead, Unplaced
<1> QED
  BY <1>2, <1>3, TypeInvariant, PTL

-----------------------------------------------------------------------------
(* How a chunk is halved.                                                  *)

(* Every set of numbers that is not empty has a least one.                 *)
LEMMA LeastNumber ==
    ASSUME NEW S \in SUBSET Nat, S # {}
    PROVE  \E x \in S : \A y \in S : x <= y
<1>0. \A x \in S : x \in Nat
  OBVIOUS
<1>1. PICK x \in S : \A y \in S : <<y, x>> \notin OpToRel(<, Nat)
  BY WFMin, NatLessThanWellFounded, Zenon
<1>2. \A y \in S : ~(y < x)
  BY <1>0, <1>1, Zenon DEF OpToRel
<1>3. \A y \in S : x <= y
  BY <1>0, <1>2
<1> QED
  BY <1>3

(* The candidates of a chunk are of finitely many transactions.            *)
LEMMA TxsFinite ==
    ASSUME NEW S \in SUBSET Source
    PROVE  IsFiniteSet(Txs(S))
<1> DEFINE f == [c \in S |-> TxOf[c]]
<1>1. IsFiniteSet(S)
  BY CandidateAssumption, FS_Subset
<1>2. f \in Surjection(S, Txs(S))
  BY DEF Surjection, Txs
<1> QED
  BY <1>1, <1>2, FS_Surjection

(* The lowest k transactions of a set.                                     *)
IsLow(h, T, k) ==
    /\ h \in SUBSET T
    /\ Cardinality(h) = k
    /\ \A t \in h, u \in T \ h : Rank[t] < Rank[u]

(* One more transaction joins the lowest k.                                *)
LEMMA OneLower ==
    ASSUME NEW T \in SUBSET Transaction, IsFiniteSet(T),
           NEW k \in Nat, k < Cardinality(T), NEW h, IsLow(h, T, k)
    PROVE  \E g : IsLow(g, T, k + 1)
<1>1. h \in SUBSET T /\ IsFiniteSet(h) /\ Cardinality(h) = k
      /\ \A t \in h, u \in T \ h : Rank[t] < Rank[u]
  BY FS_Subset DEF IsLow
<1>2. T \ h # {}
  BY <1>1
<1>3. \A t \in T : Rank[t] \in Nat
  BY RunAssumption
<1> DEFINE ranks == {Rank[t] : t \in T \ h}
<1>4. PICK m \in ranks : \A n \in ranks : m <= n
  <2>1. ranks \in SUBSET Nat /\ ranks # {}
    BY <1>2, <1>3
  <2> QED
    BY <2>1, LeastNumber
<1>5. PICK t \in T \ h : m = Rank[t]
  BY <1>4
<1>6. \A u \in T \ h : u # t => Rank[t] < Rank[u]
  <2> SUFFICES ASSUME NEW u \in T \ h, u # t PROVE Rank[t] < Rank[u]
    OBVIOUS
  <2>1. Rank[t] <= Rank[u] /\ Rank[t] # Rank[u]
    BY <1>4, <1>5, RunAssumption
  <2> QED
    BY <1>3, <1>5, <2>1
<1>7. Cardinality(h \cup {t}) = k + 1
  BY <1>1, <1>5, FS_AddElement
<1>8. \A x \in h \cup {t}, u \in T \ (h \cup {t}) : Rank[x] < Rank[u]
  BY <1>1, <1>5, <1>6
<1>9. IsLow(h \cup {t}, T, k + 1)
  BY <1>1, <1>5, <1>7, <1>8 DEF IsLow
<1> QED
  BY <1>9

(* There are lowest k of a finite set, for every k up to its size: the     *)
(* least k without would follow one with.                                  *)
LEMMA LowExists ==
    ASSUME NEW T \in SUBSET Transaction, IsFiniteSet(T), NEW k \in 0..Cardinality(T)
    PROVE  \E h : IsLow(h, T, k)
<1> DEFINE without == {n \in 0..Cardinality(T) : ~ \E h : IsLow(h, T, n)}
<1>1. SUFFICES ASSUME without # {} PROVE FALSE
  OBVIOUS
<1>2. Cardinality(T) \in Nat
  BY FS_CardinalityType
<1>3. PICK n \in without : \A m \in without : n <= m
  <2>1. without \in SUBSET Nat
    BY <1>2
  <2> HIDE DEF without
  <2> QED
    BY <1>1, <2>1, LeastNumber
<1>4. n \in Nat /\ n <= Cardinality(T) /\ ~ \E h : IsLow(h, T, n)
  BY <1>2, <1>3
<1>5. n # 0
  <2>1. IsLow({}, T, 0)
    BY FS_EmptySet DEF IsLow
  <2> QED
    BY <1>4, <2>1
<1>6. n - 1 \in Nat /\ n - 1 < Cardinality(T) /\ n - 1 \in 0..Cardinality(T) /\ (n - 1) + 1 = n
      /\ ~ (n <= n - 1)
  BY <1>2, <1>4, <1>5
<1>7. PICK h : IsLow(h, T, n - 1)
  BY <1>3, <1>6
<1>8. \E g : IsLow(g, T, (n - 1) + 1)
  BY <1>6, <1>7, OneLower
<1> QED
  BY <1>4, <1>6, <1>8

(* The transactions of a part.                                             *)
LEMMA PartTxs == \A S, T : Txs(Part(S, T)) = Txs(S) \cap T
BY DEF Txs, Part

(* Both halves of a chunk that can be split have transactions, and none in *)
(* common.                                                                 *)
LEMMA HalvesApart ==
    ASSUME NEW ch \in Chunk, Cardinality(Txs(ch.cands)) > 1
    PROVE  LET h == Halves(ch)
           IN  /\ h[1].job.task = ch.job.task /\ h[2].job.task = ch.job.task
               /\ h[1].job.txs # {} /\ h[2].job.txs # {}
               /\ h[1].job.txs \cap h[2].job.txs = {}
               /\ h[1].job.txs \cup h[2].job.txs \subseteq Txs(ch.cands)
               /\ Txs(h[1].cands) = h[1].job.txs /\ Txs(h[2].cands) = h[2].job.txs
<1> DEFINE S == ch.cands
           T == Txs(S)
           k == Cardinality(T) \div 2
           H == CHOOSE h \in SUBSET T : /\ Cardinality(h) = k
                                        /\ \A t \in h, u \in T \ h : Rank[t] < Rank[u]
<1>1. S \in SUBSET Source /\ T \in SUBSET Transaction /\ IsFiniteSet(T)
  BY TxsFinite, TxsType DEF Chunk
<1>2. Cardinality(T) \in Nat /\ k \in 0..Cardinality(T) /\ k # 0 /\ k # Cardinality(T)
  BY <1>1, FS_CardinalityType
<1>3. \E h \in SUBSET T : /\ Cardinality(h) = k
                          /\ \A t \in h, u \in T \ h : Rank[t] < Rank[u]
  BY <1>1, <1>2, LowExists DEF IsLow
<1>4. H \in SUBSET T /\ Cardinality(H) = k
  BY <1>3
<1> HIDE DEF H
<1>5. H # {} /\ T \ H # {}
  <2>1. H = {} => Cardinality(H) = 0
    BY FS_EmptySet
  <2>2. T \ H = {} => H = T
    BY <1>4
  <2> QED
    BY <1>2, <1>4, <2>1, <2>2
<1>6. Halves(ch) = <<NewChunk(ch.job.task, Part(S, H)), NewChunk(ch.job.task, Part(S, T \ H))>>
  BY DEF Halves, H
<1> HIDE DEF T
<1>7. Txs(Part(S, H)) = H /\ Txs(Part(S, T \ H)) = T \ H
  <2>1. T \cap H = H /\ T \cap (T \ H) = T \ H
    BY <1>4
  <2>2. Txs(Part(S, H)) = T \cap H /\ Txs(Part(S, T \ H)) = T \cap (T \ H)
    BY PartTxs DEF T
  <2> QED
    BY <2>1, <2>2
<1>8. ASSUME NEW t, NEW X
      PROVE  /\ NewChunk(t, X).job.task = t /\ NewChunk(t, X).job.txs = Txs(X)
             /\ NewChunk(t, X).cands = X
  BY DEF NewChunk
<1>9. Txs(ch.cands) = T
  BY DEF T
<1> DEFINE one == NewChunk(ch.job.task, Part(S, H))
           two == NewChunk(ch.job.task, Part(S, T \ H))
<1>10. Halves(ch)[1] = one /\ Halves(ch)[2] = two
  BY <1>6
<1>11. /\ one.job.task = ch.job.task /\ one.job.txs = H /\ Txs(one.cands) = H
       /\ two.job.task = ch.job.task /\ two.job.txs = T \ H /\ Txs(two.cands) = T \ H
  <2>1. one.job.task = ch.job.task /\ one.job.txs = Txs(Part(S, H)) /\ one.cands = Part(S, H)
    BY <1>8
  <2>2. two.job.task = ch.job.task /\ two.job.txs = Txs(Part(S, T \ H))
        /\ two.cands = Part(S, T \ H)
    BY <1>8
  <2> HIDE DEF one, two
  <2> QED
    BY <1>7, <2>1, <2>2
<1> HIDE DEF one, two, S
<1> QED
  BY <1>4, <1>5, <1>9, <1>10, <1>11

-----------------------------------------------------------------------------
(* Jobs are told apart: a task's chunks never share a transaction.  This   *)
(* needs the identifiers of tasks to be distinct, and the code does not    *)
(* keep Li from naming a task "kernel-unassigned" (agentic_audit.py:816);  *)
(* the theorems below say so by this hypothesis.                           *)
OwnNames == \A m \in Commands : m.id # KernelTask

Pos == 1..Len(chunks)

JobsReal(s) == \A i \in 1..Len(s) :
    s[i].job.txs # {} /\ Txs(s[i].cands) \subseteq s[i].job.txs

JobsApart(s) == \A i, j \in 1..Len(s) :
    i # j /\ s[i].job.task = s[j].job.task => s[i].job.txs \cap s[j].job.txs = {}

JobsInv ==
    /\ \A t, u \in tasks : t.id = u.id => t = u
    /\ pc \in {"plan", "commands"} =>
         chunks = << >> /\ pending = {} /\ \A t \in tasks : t.id # KernelTask
    /\ \A t \in pending, i \in Pos : chunks[i].job.task # t.id
    /\ \A i \in Pos : \E t \in tasks : t.id = chunks[i].job.task
    /\ JobsReal(chunks) /\ JobsApart(chunks)

(* Every step leaves the plan and the chunks alone or is one of these.     *)
LEMMA JobsFrame ==
    ASSUME [Next]_vars
    PROVE  \/ /\ UNCHANGED <<tasks, pending, chunks>>
              /\ pc' \in {"plan", "commands"} => pc \in {"plan", "commands"}
           \/ EndCommands \/ LoopBlock \/ LoopStart \/ Split
           \/ \E m \in Commands : TakeCommand(m)
           \/ \E t \in tasks : ScheduleTask(t)
<1> USE DEF Abort
<1>1. CASE Cancel \/ Expire \/ UNCHANGED vars
  BY <1>1 DEF Cancel, Expire, vars
<1>2. CASE PlanReply \/ EndSchedule \/ \E why \in {"limit", "timeout"} : PlanExhausted(why)
  BY <1>2 DEF PlanReply, EndSchedule, PlanExhausted
<1>3. CASE LoopEnd \/ LoopStop \/ LoopSkip \/ Skip
  BY <1>3 DEF LoopEnd, LoopStop, LoopSkip, Skip
<1>4. CASE Preparing \/ Executor
  BY <1>4 DEF Preparing, PrepareReuse, PrepareFresh, Submit, Await, Prefetch, PrefetchSubmit,
              EnterAssessment, Executor, PrepareStart, PrepareEnd
<1>5. CASE Requesting /\ ~ Split
  BY <1>5 DEF Requesting, RequestStop, RequestCheck, RequestSend, ReplyCancelled, ReplyBroken,
              ReplyTruncated, MaReply, LiReply, GiveUp
<1>6. CASE Deciding \/ Close
  BY <1>6 DEF Deciding, Conclude, Approve, Close
<1> QED
  BY <1>1, <1>2, <1>3, <1>4, <1>5, <1>6 DEF Next, Run, Planning, Looping

(* Filtering a chunk keeps its job.                                        *)
LEMMA JobsFilter ==
    ASSUME TypeInv, JobsInv, LoopBlock \/ LoopStart
    PROVE  /\ idx \in Pos /\ Len(chunks') = Len(chunks) /\ Pos' = Pos
           /\ chunks' = [chunks EXCEPT ![idx] = Filtered(Current)]
           /\ chunks'[idx] = Filtered(Current) /\ Current = chunks[idx]
           /\ Filtered(Current).job = Current.job /\ Filtered(Current).cands \subseteq Current.cands
           /\ \A i \in Pos : i # idx => chunks'[i] = chunks[i]
           /\ \A i \in Pos : chunks'[i].job = chunks[i].job
           /\ JobsInv'
<1>1. /\ chunks \in Seq(Chunk) /\ idx \in Pos /\ Current \in Chunk /\ Current = chunks[idx]
      /\ chunks' = [chunks EXCEPT ![idx] = Filtered(Current)]
      /\ tasks' = tasks /\ pending' = pending /\ pc = "loop" /\ pc' \notin {"plan", "commands"}
  BY LenProperties DEF TypeInv, TypeOK, LoopBlock, LoopStart, InLoop, Current, Pos
<1>2. Filtered(Current).job = Current.job /\ Filtered(Current).cands \subseteq Current.cands
  BY <1>1 DEF Filtered, Remaining, Chunk
<1>3. Len(chunks') = Len(chunks) /\ chunks'[idx] = Filtered(Current)
      /\ \A i \in Pos : i # idx => chunks'[i] = chunks[i]
  BY <1>1, FilteredType DEF Pos
<1>4. Pos' = Pos
  BY <1>3 DEF Pos
<1>5. \A i \in Pos : chunks'[i].job = chunks[i].job /\ chunks'[i].cands \subseteq chunks[i].cands
  BY <1>1, <1>2, <1>3
<1>6. \A S, T : S \subseteq T => Txs(S) \subseteq Txs(T)
  BY DEF Txs
<1>7. JobsReal(chunks')
  <2> SUFFICES ASSUME NEW i \in Pos
               PROVE  chunks'[i].job.txs # {} /\ Txs(chunks'[i].cands) \subseteq chunks'[i].job.txs
    BY <1>3 DEF JobsReal, Pos
  <2>1. chunks[i].job.txs # {} /\ Txs(chunks[i].cands) \subseteq chunks[i].job.txs
    BY DEF JobsInv, JobsReal, Pos
  <2>2. Txs(chunks'[i].cands) \subseteq Txs(chunks[i].cands)
    BY <1>5, <1>6
  <2> QED
    BY <1>5, <2>1, <2>2
<1>8. JobsApart(chunks')
  BY <1>3, <1>5 DEF JobsInv, JobsApart, Pos
<1>9. JobsInv'
  BY <1>1, <1>4, <1>5, <1>7, <1>8 DEF JobsInv
<1> QED
  BY <1>1, <1>2, <1>3, <1>4, <1>5, <1>9

(* Where a chunk was before the idx-th was split.                          *)
Origin(i) == IF i <= idx THEN i ELSE i - 1

(* Splitting keeps the other chunks, moves those behind, and the halves    *)
(* divide the transactions of the split one.                               *)
LEMMA JobsSplit ==
    ASSUME TypeInv, JobsInv, Split
    PROVE  /\ idx \in Pos /\ Len(chunks') = Len(chunks) + 1
           /\ \A i \in Pos' : Origin(i) \in Pos
           /\ \A i \in Pos' : i # idx /\ i # idx + 1 => chunks'[i] = chunks[Origin(i)]
           /\ \A i \in Pos' : chunks'[i].job.task = chunks[Origin(i)].job.task
           /\ chunks'[idx] = Halves(Current)[1] /\ chunks'[idx + 1] = Halves(Current)[2]
           /\ \A i \in {idx, idx + 1} : /\ chunks'[i].job.txs # {}
                                        /\ chunks'[i].job.txs \subseteq Current.job.txs
                                        /\ ~ (Current.job.txs \subseteq chunks'[i].job.txs)
           /\ JobsInv'
<1> DEFINE h == Halves(Current)
<1>1. /\ chunks \in Seq(Chunk) /\ idx \in Pos /\ Current \in Chunk /\ Current = chunks[idx]
      /\ Len(chunks) \in Nat /\ idx \in Nat /\ 1 <= idx /\ idx <= Len(chunks)
      /\ chunks' = Splice(chunks, idx, h)
      /\ tasks' = tasks /\ pending' = pending /\ pc' = "loop"
      /\ Cardinality(Txs(Current.cands)) > 1
  BY CurrentType, LenProperties
     DEF TypeInv, TypeOK, InRange, Busy, Split, Splittable, Current, Pos, Splice
<1>2. h \in Seq(Chunk) /\ Len(h) = 2
  BY <1>1, HalvesType
<1>3. /\ h[1].job.task = Current.job.task /\ h[2].job.task = Current.job.task
      /\ h[1].job.txs # {} /\ h[2].job.txs # {} /\ h[1].job.txs \cap h[2].job.txs = {}
      /\ h[1].job.txs \cup h[2].job.txs \subseteq Txs(Current.cands)
      /\ Txs(h[1].cands) = h[1].job.txs /\ Txs(h[2].cands) = h[2].job.txs
  BY <1>1, HalvesApart
<1>4. Current.job.txs # {} /\ Txs(Current.cands) \subseteq Current.job.txs
  BY <1>1 DEF JobsInv, JobsReal, Pos
<1> HIDE DEF h
<1>5. /\ Len(chunks') = Len(chunks) + 1
      /\ \A i \in 1..(idx - 1) : chunks'[i] = chunks[i]
      /\ chunks'[idx] = h[1] /\ chunks'[idx + 1] = h[2]
      /\ \A i \in (idx + 1)..Len(chunks) : chunks'[i + 1] = chunks[i]
  <2>1. idx \in 1..Len(chunks)
    BY <1>1
  <2> QED
    BY <1>1, <1>2, <2>1, Spliced
<1>6. \A i \in Pos' : i \in Nat /\ Origin(i) \in Pos
  BY <1>1, <1>5 DEF Pos, Origin
<1>7. \A i \in Pos' : i # idx /\ i # idx + 1 => chunks'[i] = chunks[Origin(i)]
  <2> SUFFICES ASSUME NEW i \in Pos', i # idx, i # idx + 1 PROVE chunks'[i] = chunks[Origin(i)]
    OBVIOUS
  <2>0. i \in 1..(Len(chunks) + 1)
    BY <1>5 DEF Pos
  <2>1. CASE i < idx
    BY <1>1, <1>5, <2>0, <2>1 DEF Origin
  <2>2. CASE i > idx + 1
    <3>1. i - 1 \in (idx + 1)..Len(chunks) /\ (i - 1) + 1 = i /\ Origin(i) = i - 1
      BY <1>1, <2>0, <2>2 DEF Origin
    <3> QED
      BY <1>5, <3>1
  <2> QED
    BY <1>1, <2>0, <2>1, <2>2
<1>8. Origin(idx) = idx /\ Origin(idx + 1) = idx
  BY <1>1 DEF Origin
<1>9. \A i \in Pos' : /\ chunks'[i].job.task = chunks[Origin(i)].job.task
                      /\ chunks'[i].job.txs # {}
                      /\ chunks'[i].job.txs \subseteq chunks[Origin(i)].job.txs
                      /\ Txs(chunks'[i].cands) \subseteq chunks'[i].job.txs
  <2> SUFFICES ASSUME NEW i \in Pos'
               PROVE  /\ chunks'[i].job.task = chunks[Origin(i)].job.task
                      /\ chunks'[i].job.txs # {}
                      /\ chunks'[i].job.txs \subseteq chunks[Origin(i)].job.txs
                      /\ Txs(chunks'[i].cands) \subseteq chunks'[i].job.txs
    OBVIOUS
  <2>1. CASE i \in {idx, idx + 1}
    BY <1>1, <1>3, <1>4, <1>5, <1>8, <2>1
  <2>2. CASE i \notin {idx, idx + 1}
    BY <1>6, <1>7, <2>2 DEF JobsInv, JobsReal, Pos
  <2> QED
    BY <2>1, <2>2
<1>10. \A i, j \in Pos' : Origin(i) = Origin(j) /\ i # j => {i, j} = {idx, idx + 1}
  BY <1>1, <1>6 DEF Origin
<1>11. JobsApart(chunks')
  <2> SUFFICES ASSUME NEW i \in Pos', NEW j \in Pos', i # j,
                      chunks'[i].job.task = chunks'[j].job.task
               PROVE  chunks'[i].job.txs \cap chunks'[j].job.txs = {}
    BY DEF JobsApart, Pos
  <2>1. CASE Origin(i) = Origin(j)
    <3>1. {i, j} = {idx, idx + 1}
      BY <1>10, <2>1
    <3>2. (i = idx /\ j = idx + 1) \/ (i = idx + 1 /\ j = idx)
      BY <3>1
    <3>3. h[1].job.txs \cap h[2].job.txs = {} /\ h[2].job.txs \cap h[1].job.txs = {}
      BY <1>3
    <3>4. chunks'[idx] = h[1] /\ chunks'[idx + 1] = h[2]
      BY <1>5
    <3> QED
      BY <3>2, <3>3, <3>4
  <2>2. CASE Origin(i) # Origin(j)
    <3>1. chunks[Origin(i)].job.txs \cap chunks[Origin(j)].job.txs = {}
      <4>1. Origin(i) \in 1..Len(chunks) /\ Origin(j) \in 1..Len(chunks)
        BY <1>6 DEF Pos
      <4>2. chunks[Origin(i)].job.task = chunks[Origin(j)].job.task
        BY <1>9
      <4> QED
        BY <2>2, <4>1, <4>2 DEF JobsInv, JobsApart
    <3> QED
      BY <1>9, <3>1
  <2> QED
    BY <2>1, <2>2
<1>12. JobsReal(chunks')
  BY <1>9 DEF JobsReal, Pos
<1>13. /\ \A t \in pending', i \in Pos' : chunks'[i].job.task # t.id
       /\ \A i \in Pos' : \E t \in tasks' : t.id = chunks'[i].job.task
  <2>1. \A i \in Pos' : chunks'[i].job.task = chunks[Origin(i)].job.task
    BY <1>9
  <2>2. ASSUME NEW t \in pending', NEW i \in Pos' PROVE chunks'[i].job.task # t.id
    <3>1. t \in pending /\ Origin(i) \in Pos
      BY <1>1, <1>6
    <3> QED
      BY <2>1, <3>1 DEF JobsInv
  <2>3. ASSUME NEW i \in Pos' PROVE \E t \in tasks' : t.id = chunks'[i].job.task
    <3>1. \E t \in tasks : t.id = chunks[Origin(i)].job.task
      BY <1>6 DEF JobsInv
    <3> QED
      BY <1>1, <2>1, <3>1
  <2> QED
    BY <2>2, <2>3
<1>14. JobsInv'
  BY <1>1, <1>11, <1>12, <1>13 DEF JobsInv
<1>15. \A i \in {idx, idx + 1} : /\ chunks'[i].job.txs # {}
                                 /\ chunks'[i].job.txs \subseteq Current.job.txs
                                 /\ ~ (Current.job.txs \subseteq chunks'[i].job.txs)
  BY <1>3, <1>4, <1>5
<1> QED
  BY <1>1, <1>5, <1>6, <1>7, <1>9, <1>14, <1>15 DEF h

(* A task is cut once, into jobs that differ from each other and, being of *)
(* this task, from all that are there.                                     *)
LEMMA JobsSchedule ==
    ASSUME TypeInv, JobsInv, NEW t \in tasks, ScheduleTask(t)
    PROVE  /\ \A i \in Pos' : (i \in Pos /\ chunks'[i] = chunks[i]) \/ chunks'[i].job.task = t.id
           /\ \A i \in Pos : chunks[i].job.task # t.id
           /\ JobsInv'
<1>1. PICK l \in Layouts(t.scope) :
        chunks' = chunks \o [i \in DOMAIN l |-> NewChunk(t.id, Part(t.scope, l[i]))]
  BY DEF ScheduleTask
<1> DEFINE jobs == [i \in DOMAIN l |-> NewChunk(t.id, Part(t.scope, l[i]))]
<1>2. t.scope \in SUBSET Source /\ t.id \in AllTasks
  BY DEF TypeInv, TypeOK, Command
<1>3. PICK n \in Nat : DOMAIN l = 1..n
  BY <1>2, LayoutType
<1>4. \A T : Part(t.scope, T) \in SUBSET Source
  BY <1>2 DEF Part
<1>5. jobs \in Seq(Chunk) /\ Len(jobs) = n
  BY <1>2, <1>3, <1>4, NewChunkType
<1>6. /\ chunks \in Seq(Chunk) /\ Len(chunks) \in Nat /\ t \in pending
      /\ pc = "schedule" /\ pc' = "schedule" /\ tasks' = tasks /\ pending' = pending \ {t}
      /\ pending \subseteq tasks
  BY LenProperties DEF TypeInv, TypeOK, ScheduleTask, Ready
<1>7. \A i \in 1..n : l[i] # {} /\ l[i] \subseteq Txs(t.scope)
  <2> DEFINE D == (SUBSET Txs(t.scope)) \ {{}}
  <2>1. l \in UNION {[1..m -> D] : m \in 0..Cardinality(Txs(t.scope))}
    BY DEF Layouts
  <2>2. PICK m \in 0..Cardinality(Txs(t.scope)) : l \in [1..m -> D]
    BY <2>1
  <2> QED
    BY <1>3, <2>2
<1>8. \A i, j \in 1..n : i # j => l[i] \cap l[j] = {}
  <2>1. ASSUME NEW i \in 1..n, NEW j \in 1..n, i < j, NEW x \in l[i], x \in l[j] PROVE FALSE
    <3>1. \A u \in l[i], v \in l[j] : Rank[u] < Rank[v]
      BY <1>3, <2>1 DEF Layouts
    <3>2. Rank[x] < Rank[x] /\ x \in Transaction
      BY <1>2, <1>7, <2>1, <3>1, TxsType
    <3> QED
      BY <3>2, RunAssumption
  <2>2. \A i, j \in 1..n : i # j => i < j \/ j < i
    OBVIOUS
  <2> QED
    BY <2>1, <2>2
<1>9. \A i \in 1..n : /\ jobs[i].job.task = t.id /\ jobs[i].job.txs = l[i]
                      /\ Txs(jobs[i].cands) = l[i]
  <2> SUFFICES ASSUME NEW i \in 1..n
               PROVE  /\ jobs[i].job.task = t.id /\ jobs[i].job.txs = l[i]
                      /\ Txs(jobs[i].cands) = l[i]
    OBVIOUS
  <2>1. jobs[i] = NewChunk(t.id, Part(t.scope, l[i]))
    BY <1>3
  <2>2. Txs(Part(t.scope, l[i])) = l[i]
    <3>1. Txs(Part(t.scope, l[i])) = Txs(t.scope) \cap l[i]
      BY PartTxs
    <3>2. l[i] \subseteq Txs(t.scope)
      BY <1>7
    <3> QED
      BY <3>1, <3>2
  <2> HIDE DEF jobs
  <2> QED
    BY <2>1, <2>2 DEF NewChunk
<1> HIDE DEF jobs
<1>10. /\ Len(chunks') = Len(chunks) + n
       /\ \A i \in 1..Len(chunks) : chunks'[i] = chunks[i]
       /\ \A i \in 1..n : chunks'[Len(chunks) + i] = jobs[i]
  BY <1>1, <1>5, <1>6 DEF jobs
<1>11. \A i \in Pos' : \/ i \in Pos /\ chunks'[i] = chunks[i]
                       \/ i - Len(chunks) \in 1..n /\ chunks'[i] = jobs[i - Len(chunks)]
  <2> SUFFICES ASSUME NEW i \in Pos', i \notin Pos
               PROVE  i - Len(chunks) \in 1..n /\ chunks'[i] = jobs[i - Len(chunks)]
    BY <1>10 DEF Pos
  <2>1. i - Len(chunks) \in 1..n /\ Len(chunks) + (i - Len(chunks)) = i
    BY <1>3, <1>6, <1>10 DEF Pos
  <2> QED
    BY <1>10, <2>1
<1>12. \A i \in Pos : chunks[i].job.task # t.id
  BY <1>6 DEF JobsInv
<1>13. JobsReal(chunks')
  <2> SUFFICES ASSUME NEW i \in Pos'
               PROVE  chunks'[i].job.txs # {} /\ Txs(chunks'[i].cands) \subseteq chunks'[i].job.txs
    BY DEF JobsReal, Pos
  <2>1. CASE i \in Pos /\ chunks'[i] = chunks[i]
    BY <2>1 DEF JobsInv, JobsReal, Pos
  <2>2. CASE i - Len(chunks) \in 1..n /\ chunks'[i] = jobs[i - Len(chunks)]
    <3>1. l[i - Len(chunks)] # {}
      BY <1>7, <2>2
    <3> QED
      BY <1>9, <2>2, <3>1
  <2> QED
    BY <1>11, <2>1, <2>2
<1>14. JobsApart(chunks')
  <2> SUFFICES ASSUME NEW i \in Pos', NEW j \in Pos', i # j,
                      chunks'[i].job.task = chunks'[j].job.task
               PROVE  chunks'[i].job.txs \cap chunks'[j].job.txs = {}
    BY DEF JobsApart, Pos
  <2>1. CASE i \in Pos /\ j \in Pos
    BY <1>10, <2>1 DEF JobsInv, JobsApart, Pos
  <2>2. CASE i \notin Pos /\ j \notin Pos
    <3>1. /\ i - Len(chunks) \in 1..n /\ chunks'[i] = jobs[i - Len(chunks)]
          /\ j - Len(chunks) \in 1..n /\ chunks'[j] = jobs[j - Len(chunks)]
      BY <1>11, <2>2
    <3>2. i - Len(chunks) # j - Len(chunks)
      BY <1>6, <1>10 DEF Pos
    <3> QED
      BY <1>8, <1>9, <3>1, <3>2
  <2>3. CASE (i \in Pos) # (j \in Pos)
    <3>1. FALSE
      BY <1>9, <1>10, <1>11, <1>12, <2>3 DEF Pos
    <3> QED
      BY <3>1
  <2> QED
    BY <2>1, <2>2, <2>3
<1>15. \A u \in pending', i \in Pos' : chunks'[i].job.task # u.id
  <2> SUFFICES ASSUME NEW u \in pending', NEW i \in Pos' PROVE chunks'[i].job.task # u.id
    OBVIOUS
  <2>1. u \in pending /\ u.id # t.id
    BY <1>6 DEF JobsInv
  <2> QED
    BY <1>9, <1>11, <2>1 DEF JobsInv
<1>16. \A i \in Pos' : \E u \in tasks' : u.id = chunks'[i].job.task
  BY <1>6, <1>9, <1>11 DEF JobsInv
<1>17. JobsInv'
  BY <1>6, <1>13, <1>14, <1>15, <1>16 DEF JobsInv
<1> QED
  BY <1>9, <1>11, <1>12, <1>17

(* The plan names its tasks apart.                                         *)
LEMMA JobsPlan ==
    ASSUME TypeInv, JobsInv, OwnNames, EndCommands \/ \E m \in Commands : TakeCommand(m)
    PROVE  JobsInv'
<1>1. CASE \E m \in Commands : TakeCommand(m)
  <2>1. PICK m \in Commands : TakeCommand(m)
    BY <1>1
  <2>2. Normalised(m).id = m.id /\ m.id # KernelTask
    BY RunAssumption DEF Normalised, Command, OwnNames
  <2>3. /\ tasks' = tasks \cup {Normalised(m)} /\ \A t \in tasks : t.id # m.id
        /\ pc = "commands" /\ pc' = pc /\ chunks' = chunks /\ pending' = pending
    BY <2>1 DEF TakeCommand
  <2>4. \A t, u \in tasks' : t.id = u.id => t = u
    BY <2>2, <2>3 DEF JobsInv
  <2> QED
    BY <2>2, <2>3, <2>4 DEF JobsInv, Pos
<1>2. CASE EndCommands
  <2>1. PICK op \in Operation :
          tasks' = IF Leftovers = {} THEN tasks
                   ELSE tasks \cup {[id |-> KernelTask, op |-> op, scope |-> Leftovers, deps |-> {}]}
    BY <1>2 DEF EndCommands
  <2> DEFINE rest == [id |-> KernelTask, op |-> op, scope |-> Leftovers, deps |-> {}]
  <2>2. rest.id = KernelTask
    OBVIOUS
  <2>3. tasks' = tasks \/ tasks' = tasks \cup {rest}
    BY <2>1
  <2> HIDE DEF rest
  <2>4. pc = "commands" /\ pc' = "schedule" /\ chunks' = chunks /\ chunks = << >>
    BY <1>2 DEF EndCommands, JobsInv
  <2>5. \A t, u \in tasks' : t.id = u.id => t = u
    BY <2>2, <2>3, <2>4 DEF JobsInv
  <2>6. Pos' = {}
    BY <2>4 DEF Pos
  <2> QED
    BY <2>4, <2>5, <2>6 DEF JobsInv
<1> QED
  BY <1>1, <1>2

(* Every step of the run keeps the jobs apart.                             *)
LEMMA JobsStep == OwnNames /\ TypeInv /\ JobsInv /\ [Next]_vars => JobsInv'
<1> SUFFICES ASSUME OwnNames, TypeInv, JobsInv, [Next]_vars PROVE JobsInv'
  OBVIOUS
<1>1. CASE /\ UNCHANGED <<tasks, pending, chunks>>
           /\ pc' \in {"plan", "commands"} => pc \in {"plan", "commands"}
  BY <1>1 DEF JobsInv, Pos
<1> QED
  BY <1>1, JobsFrame, JobsFilter, JobsSplit, JobsPlan, JobsSchedule

(* The jobs of a run are told apart.                                       *)
LEMMA JobsInvariant == OwnNames => (Spec => []JobsInv)
<1> SUFFICES ASSUME OwnNames PROVE Spec => []JobsInv
  OBVIOUS
<1>1. Init => JobsInv
  BY DEF Init, JobsInv, JobsReal, JobsApart, Pos
<1>2. TypeInv /\ JobsInv /\ [Next]_vars => JobsInv'
  BY JobsStep
<1> QED
  BY <1>1, <1>2, TypeInvariant, PTL DEF Spec

-----------------------------------------------------------------------------
(* Matches are founded.  An assessment stays about a chunk that was        *)
(* passed, and a split only takes away what Ma observed of the chunk under *)
(* way, which is another one because its job is.                           *)
Founded(d, ch) == d.rec = "match" => d.sure /\ \E o \in Obs(ch) : About(o, d) /\ o.solid

FoundedInv ==
    /\ \A f \in finals : /\ \E i \in Pos : i < idx /\ chunks[i] = f.chunk
                         /\ \A d \in f.decisions : Founded(d, f.chunk)
    /\ draft # {} => pc = "approve" /\ \A d \in draft : Founded(d, Current)

(* What Ma observed is only forgotten of a chunk that is split.            *)
LEMMA EvidenceStays ==
    ASSUME [Next]_vars
    PROVE  \A e \in evidence : (Split /\ e.chunk = Current) \/ e \in evidence'
<1>1. Split => {e \in evidence : e.chunk # Current} \subseteq evidence'
  BY DEF Split
<1>2. Cancel \/ Expire \/ Planning \/ UNCHANGED vars => evidence' = evidence
  BY DEF vars, Cancel, Expire, Planning, PlanReply, EndCommands, EndSchedule, PlanExhausted,
         TakeCommand, ScheduleTask
<1>3. Looping => evidence' = evidence
  BY DEF Looping, LoopEnd, LoopStop, LoopSkip, Skip, LoopBlock, LoopStart
<1>4. Preparing \/ Executor => evidence' = evidence
  BY DEF Preparing, PrepareReuse, PrepareFresh, Submit, Await, Prefetch, PrefetchSubmit,
         Executor, PrepareStart, PrepareEnd
<1>5. Requesting /\ ~ Split => evidence \subseteq evidence'
  BY DEF Requesting, RequestStop, RequestCheck, RequestSend, ReplyCancelled, ReplyBroken,
         ReplyTruncated, MaReply, LiReply, GiveUp
<1>6. Deciding \/ Close => evidence' = evidence
  BY DEF Deciding, Conclude, Approve, Close
<1> QED
  BY <1>1, <1>2, <1>3, <1>4, <1>5, <1>6 DEF Next, Run

(* So what she observed of another chunk only grows.                       *)
LEMMA EvidenceGrows ==
    ASSUME [Next]_vars
    PROVE  \A ch : \/ Split /\ ch = Current
                   \/ Obs(ch) \subseteq Obs(ch)' /\ (HasEvidence(ch) => HasEvidence(ch)')
BY EvidenceStays DEF Obs, HasEvidence

(* And a chunk that inherited her answer has inherited it for good.        *)
LEMMA InheritedGrows ==
    ASSUME [Next]_vars
    PROVE  \A ch : (Split /\ ch = Current) \/ (Inherited(ch) => Inherited(ch)')
BY EvidenceStays DEF Inherited

(* More observations found as much.                                        *)
LEMMA FoundedGrows ==
    ASSUME NEW d, NEW ch, Founded(d, ch), Obs(ch) \subseteq Obs(ch)'
    PROVE  Founded(d, ch)'
BY DEF Founded

(* A chunk that was passed stays where it is.                              *)
LEMMA PassedStay ==
    ASSUME TypeInv, JobsInv, [Next]_vars
    PROVE  \A i \in Pos : i < idx => i \in Pos' /\ i < idx' /\ chunks'[i] = chunks[i]
<1> SUFFICES ASSUME NEW i \in Pos, i < idx PROVE i \in Pos' /\ i < idx' /\ chunks'[i] = chunks[i]
  OBVIOUS
<1>0. i \in Nat /\ idx \in Nat /\ Len(chunks) \in Nat /\ 1 <= i /\ chunks \in Seq(Chunk)
  BY LenProperties DEF TypeInv, TypeOK, Pos
<1>1. idx' = idx \/ idx' = idx + 1
  <2>1. CASE Cancel \/ Expire \/ Planning \/ UNCHANGED vars
    BY <2>1 DEF vars, Cancel, Expire, Planning, PlanReply, EndCommands, EndSchedule, PlanExhausted,
                TakeCommand, ScheduleTask
  <2>2. CASE Looping
    BY <2>2 DEF Looping, LoopEnd, LoopStop, LoopSkip, Skip, LoopBlock, LoopStart
  <2>3. CASE Preparing \/ Executor
    BY <2>3 DEF Preparing, PrepareReuse, PrepareFresh, Submit, Await, Prefetch, PrefetchSubmit,
                Executor, PrepareStart, PrepareEnd
  <2>4. CASE Requesting
    BY <2>4 DEF Requesting, RequestStop, RequestCheck, RequestSend, ReplyCancelled, ReplyBroken,
                ReplyTruncated, MaReply, LiReply, Split, GiveUp
  <2>5. CASE Deciding \/ Close
    BY <2>5 DEF Deciding, Conclude, Approve, Close
  <2> QED
    BY <2>1, <2>2, <2>3, <2>4, <2>5 DEF Next, Run
<1>2. i < idx'
  BY <1>0, <1>1
<1>3. CASE UNCHANGED chunks
  BY <1>2, <1>3 DEF Pos
<1>4. CASE LoopBlock \/ LoopStart
  BY <1>0, <1>2, <1>4, JobsFilter
<1>5. CASE Split
  <2>1. Len(chunks') = Len(chunks) + 1 /\ i # idx /\ i # idx + 1 /\ Origin(i) = i
    BY <1>0, <1>5, JobsSplit DEF Origin
  <2>2. i \in Pos'
    BY <1>0, <2>1 DEF Pos
  <2> QED
    BY <1>2, <1>5, <2>1, <2>2, JobsSplit
<1>6. CASE \E t \in tasks : ScheduleTask(t)
  <2>1. PICK t \in tasks : ScheduleTask(t)
    BY <1>6
  <2>2. PICK l \in Layouts(t.scope) :
          chunks' = chunks \o [k \in DOMAIN l |-> NewChunk(t.id, Part(t.scope, l[k]))]
    BY <2>1 DEF ScheduleTask
  <2> DEFINE jobs == [k \in DOMAIN l |-> NewChunk(t.id, Part(t.scope, l[k]))]
  <2>3. t.scope \in SUBSET Source /\ t.id \in AllTasks
    BY DEF TypeInv, TypeOK, Command
  <2>4. \A T : Part(t.scope, T) \in SUBSET Source
    BY <2>3 DEF Part
  <2>5. jobs \in Seq(Chunk)
    BY <2>3, <2>4, LayoutType, NewChunkType
  <2> HIDE DEF jobs
  <2>6. /\ Len(chunks') = Len(chunks) + Len(jobs) /\ Len(jobs) \in Nat
        /\ \A k \in 1..Len(chunks) : chunks'[k] = chunks[k]
    BY <1>0, <2>2, <2>5, LenProperties DEF jobs
  <2> QED
    BY <1>0, <1>2, <2>6 DEF Pos
<1> QED
  BY <1>3, <1>4, <1>5, <1>6, JobsFrame DEF EndCommands, TakeCommand

(* While Li's answer is gone through nothing else moves.                   *)
LEMMA DraftFrame ==
    ASSUME CallInv, [Next]_vars
    PROVE  \/ Conclude
           \/ \E d \in Verdicts : Approve(d)
           \/ pc # "approve" /\ UNCHANGED <<draft, finals>>
           \/ pc = "approve" /\ UNCHANGED <<pc, draft, finals, chunks, idx, evidence>>
<1> USE DEF CallInv, Asking
<1>1. CASE Cancel \/ Expire \/ UNCHANGED vars
  BY <1>1 DEF Cancel, Expire, vars
<1>2. CASE Planning
  BY <1>2 DEF Planning, PlanReply, EndCommands, EndSchedule, PlanExhausted, TakeCommand,
              ScheduleTask
<1>3. CASE Looping
  BY <1>3 DEF Looping, LoopEnd, LoopStop, LoopSkip, Skip, LoopBlock, LoopStart, InLoop
<1>4. CASE Preparing \/ Executor
  BY <1>4 DEF Preparing, PrepareReuse, PrepareFresh, Submit, Await, Prefetch, PrefetchSubmit,
              Executor, PrepareStart, PrepareEnd
<1>5. CASE Requesting
  BY <1>5 DEF Requesting, RequestStop, RequestCheck, RequestSend, ReplyCancelled, ReplyBroken,
              ReplyTruncated, MaReply, LiReply, Split, GiveUp, Answered, Exhausted
<1>6. CASE Deciding \/ Close
  BY <1>6 DEF Deciding, Close
<1> QED
  BY <1>1, <1>2, <1>3, <1>4, <1>5, <1>6 DEF Next, Run

(* Every step of the run keeps matches founded.                            *)
LEMMA FoundedStep ==
    TypeInv /\ JobsInv /\ CallInv /\ FoundedInv /\ [Next]_vars => FoundedInv'
<1> SUFFICES ASSUME TypeInv, JobsInv, CallInv, FoundedInv, [Next]_vars PROVE FoundedInv'
  OBVIOUS
<1>1. ASSUME NEW f \in finals
      PROVE  /\ \E i \in Pos' : i < idx' /\ chunks'[i] = f.chunk
             /\ \A d \in f.decisions : Founded(d, f.chunk)'
  <2>1. PICK i \in Pos : i < idx /\ chunks[i] = f.chunk
    BY DEF FoundedInv
  <2>2. i \in Pos' /\ i < idx' /\ chunks'[i] = f.chunk
    BY <2>1, PassedStay
  <2>3. ~ (Split /\ f.chunk = Current)
    <3> SUFFICES ASSUME Split, f.chunk = Current PROVE FALSE
      OBVIOUS
    <3>1. idx \in Pos /\ i # idx /\ chunks[i] = chunks[idx]
      BY <2>1, JobsSplit DEF Current, TypeInv, TypeOK, Pos
    <3>2. chunks[i].job.txs \cap chunks[idx].job.txs = {} /\ chunks[idx].job.txs # {}
      BY <3>1 DEF JobsInv, JobsApart, JobsReal, Pos
    <3> QED
      BY <3>1, <3>2
  <2>4. Obs(f.chunk) \subseteq Obs(f.chunk)'
    BY <2>3, EvidenceGrows
  <2>5. \A d \in f.decisions : Founded(d, f.chunk)
    BY DEF FoundedInv
  <2>6. \A d \in f.decisions : Founded(d, f.chunk)'
    BY <2>4, <2>5, FoundedGrows
  <2> QED
    BY <2>2, <2>6
<1>2. CASE Conclude
  <2>1. PICK final : final = [chunk |-> Current, decisions |-> draft]
    OBVIOUS
  <2>2. /\ finals' = finals \cup {final} /\ draft' = {} /\ idx' = idx + 1 /\ chunks' = chunks
        /\ evidence' = evidence /\ pc = "approve"
    BY <1>2, <2>1 DEF Conclude
  <2>3. final.chunk = Current /\ final.decisions = draft
    BY <2>1
  <2>4. idx \in Pos /\ Current = chunks[idx] /\ idx \in Nat
    BY <2>2, LenProperties DEF TypeInv, TypeOK, InRange, Busy, Current, Pos
  <2>5. \E i \in Pos' : i < idx' /\ chunks'[i] = final.chunk
    <3>1. idx \in Pos' /\ idx < idx' /\ chunks'[idx] = Current
      BY <2>2, <2>4 DEF Pos
    <3> QED
      BY <2>3, <3>1
  <2>6. \A d \in final.decisions : Founded(d, final.chunk)
    BY <2>3 DEF FoundedInv
  <2>7. Obs(final.chunk) \subseteq Obs(final.chunk)'
    BY <2>2 DEF Obs
  <2>8. \A d \in final.decisions : Founded(d, final.chunk)'
    BY <2>6, <2>7, FoundedGrows
  <2> QED
    BY <1>1, <2>2, <2>5, <2>8 DEF FoundedInv
<1>3. CASE \E d \in Verdicts : Approve(d)
  <2>1. PICK d \in Verdicts : Approve(d)
    BY <1>3
  <2>2. /\ finals' = finals /\ draft' = draft \cup {d} /\ idx' = idx /\ chunks' = chunks
        /\ evidence' = evidence /\ pc = "approve" /\ pc' = "approve"
        /\ Acceptable(d, Obs(Current), Current.cands, used.tx, used.rc)
    BY <2>1 DEF Approve
  <2>3. Founded(d, Current)
    BY <2>2 DEF Acceptable, Founded, WorkerEvidence
  <2>4. Current' = Current /\ \A ch : Obs(ch)' = Obs(ch)
    BY <2>2 DEF Current, Obs
  <2>5. \A e \in draft' : Founded(e, Current)
    BY <2>2, <2>3 DEF FoundedInv
  <2>6. \A e \in draft' : Founded(e, Current)'
    BY <2>4, <2>5 DEF Founded
  <2> QED
    BY <1>1, <2>2, <2>6 DEF FoundedInv
<1>4. CASE pc # "approve" /\ UNCHANGED <<draft, finals>>
  <2>1. draft = {}
    BY <1>4 DEF FoundedInv
  <2> QED
    BY <1>1, <1>4, <2>1 DEF FoundedInv
<1>5. CASE pc = "approve" /\ UNCHANGED <<pc, draft, finals, chunks, idx, evidence>>
  <2>1. Current' = Current /\ \A ch : Obs(ch)' = Obs(ch)
    BY <1>5 DEF Current, Obs
  <2>2. \A d \in draft : Founded(d, Current)
    BY DEF FoundedInv
  <2>3. \A d \in draft : Founded(d, Current)'
    BY <2>1, <2>2 DEF Founded
  <2> QED
    BY <1>1, <1>5, <2>3 DEF FoundedInv
<1> QED
  BY <1>2, <1>3, <1>4, <1>5, DraftFrame

(* Every match that Li's answers led to rests on a solid observation that  *)
(* Ma made of the very chunk it was decided in, in whatever way chunks     *)
(* were cut, filtered and split since.                                     *)
THEOREM MatchesRestOnEvidence == OwnNames => (Spec => []MatchesAreFounded)
<1> SUFFICES ASSUME OwnNames PROVE Spec => []MatchesAreFounded
  OBVIOUS
<1>1. Init => FoundedInv
  BY DEF Init, FoundedInv
<1>2. Spec => []FoundedInv
  BY <1>1, TypeInvariant, CallInvariant, JobsInvariant, FoundedStep, PTL DEF Spec
<1>3. FoundedInv => MatchesAreFounded
  BY DEF FoundedInv, Founded, MatchesAreFounded
<1> QED
  BY <1>2, <1>3, PTL

-----------------------------------------------------------------------------
(* Dependencies come first.  This is about the entries of this round: the  *)
(* stale ones of an earlier round are another matter (audit_stale_approval *)
(* shows what they do), so the theorem is about a first round.             *)
FirstRound == PriorApproved = {}

Working == {"prepare", "submit", "await", "ma", "prefetch", "presubmit", "li", "approve"}

Planned == {"plan", "commands", "schedule"}

DepInv ==
    /\ pc \in Planned => idx = 1
    /\ \A j \in Job : approval[j] = "completed" => \E i \in Pos : i < idx /\ chunks[i].job = j
    /\ \A i \in Pos : planner[chunks[i].job.task] = "completed" => approval[chunks[i].job] = "completed"
    /\ pc \in Working => DependenciesReady(Current) /\ planner[Current.job.task] = "running"

(* Two chunks have two jobs.                                               *)
LEMMA JobsDiffer ==
    ASSUME JobsInv, NEW i \in Pos, NEW j \in Pos, chunks[i].job = chunks[j].job
    PROVE  i = j
<1>1. chunks[i].job.txs # {}
  BY DEF JobsInv, JobsReal, Pos
<1>2. i # j => chunks[i].job.txs \cap chunks[j].job.txs = {}
  BY DEF JobsInv, JobsApart, Pos
<1> QED
  BY <1>1, <1>2

(* The type of the jobs of the chunks.                                     *)
LEMMA ChunkJobs ==
    ASSUME TypeOK, NEW i \in Pos
    PROVE  i \in Nat /\ chunks[i] \in Chunk /\ chunks[i].job \in Job /\ chunks[i].job.task \in AllTasks
<1>1. i \in Nat /\ chunks[i] \in Chunk
  BY DEF TypeOK, Pos
<1>2. chunks[i].job \in Job
  BY <1>1 DEF Chunk
<1> QED
  BY <1>1, <1>2 DEF Job

(* Tasks of chunks depend on tasks.                                        *)
LEMMA DepsType ==
    ASSUME TypeOK, JobsInv, NEW i \in Pos
    PROVE  TaskOf(chunks[i]).deps \subseteq AllTasks
<1>1. \E t \in tasks : t.id = chunks[i].job.task
  BY DEF JobsInv
<1>2. TaskOf(chunks[i]) \in tasks
  BY <1>1 DEF TaskOf
<1> QED
  BY <1>2 DEF TypeOK, Command

(* A chunk that is not passed is not completed, nor is its task.           *)
LEMMA CurrentOpen ==
    ASSUME TypeInv, JobsInv, DepInv, idx \in Pos
    PROVE  /\ Current = chunks[idx] /\ Current \in Chunk
           /\ Current.job \in Job /\ Current.job.task \in AllTasks
           /\ approval[Current.job] # "completed" /\ planner[Current.job.task] # "completed"
<1>1. /\ Current = chunks[idx] /\ Current \in Chunk /\ idx \in Nat
      /\ Current.job \in Job /\ Current.job.task \in AllTasks
  BY ChunkJobs DEF TypeInv, Current
<1>2. approval[Current.job] # "completed"
  <2> SUFFICES ASSUME approval[Current.job] = "completed" PROVE FALSE
    OBVIOUS
  <2>1. PICK i \in Pos : i < idx /\ chunks[i].job = chunks[idx].job
    BY <1>1 DEF DepInv
  <2>2. i = idx
    BY <2>1, JobsDiffer
  <2> QED
    BY <1>1, <2>1, <2>2
<1>3. planner[Current.job.task] # "completed"
  BY <1>1, <1>2 DEF DepInv
<1> QED
  BY <1>1, <1>2, <1>3

(* The steps that touch none of this.                                      *)
Aside ==
    /\ UNCHANGED <<chunks, idx, planner, approval>>
    /\ pc' \in Working => pc \in Working /\ tasks' = tasks
    /\ pc' \in Planned => pc \in Planned

(* The chunk under way is passed.                                          *)
Pass == Skip \/ Conclude \/ \E why \in {"limit", "timeout"} : GiveUp(why)

(* Li begins to assess the chunk under way.                                *)
Enter ==
    /\ pc \in {"prefetch", "presubmit"} /\ EnterAssessment
    /\ UNCHANGED <<chunks, idx, planner, worker, tasks>>

(* Every step is one of these.                                             *)
LEMMA DepFrame ==
    ASSUME CallInv, [Next]_vars
    PROVE  \/ Aside \/ Pass \/ Enter \/ LoopStart \/ LoopBlock \/ Split \/ EndSchedule \/ Close
           \/ \E t \in tasks : ScheduleTask(t)
<1> USE DEF Aside, Abort, Working, Planned
<1>1. Cancel \/ Expire \/ UNCHANGED vars => Aside
  BY DEF vars, Cancel, Expire
<1>2. PlanReply \/ EndCommands \/ (\E why \in {"limit", "timeout"} : PlanExhausted(why))
      \/ (\E m \in Commands : TakeCommand(m)) => Aside
  BY DEF PlanReply, PlanExhausted, TakeCommand, EndCommands
<1>3. LoopStop \/ LoopEnd \/ LoopSkip => Aside
  BY DEF LoopStop, LoopEnd, LoopSkip
<1>4. PrepareReuse \/ PrepareFresh \/ Submit \/ Await => Aside
  BY DEF PrepareReuse, PrepareFresh, Submit, Await
<1>5. Prefetch => Aside \/ Enter
  BY DEF Prefetch, Enter
<1>6. PrefetchSubmit => Enter
  BY DEF PrefetchSubmit, Enter
<1>7. Executor => Aside
  BY DEF Executor, PrepareStart, PrepareEnd
<1>8. RequestStop \/ RequestCheck \/ RequestSend \/ ReplyCancelled \/ ReplyBroken \/ ReplyTruncated
      \/ MaReply \/ LiReply => Aside
  BY DEF RequestStop, RequestCheck, RequestSend, ReplyCancelled, ReplyBroken, ReplyTruncated,
         MaReply, LiReply
<1>9. (\E d \in Verdicts : Approve(d)) => Aside
  BY DEF Approve
<1> QED
  BY <1>1, <1>2, <1>3, <1>4, <1>5, <1>6, <1>7, <1>8, <1>9
     DEF Next, Run, Planning, Looping, Preparing, Requesting, Deciding, Pass

(* Passing a chunk completes its task only if all its jobs are completed.  *)
LEMMA DepPass ==
    ASSUME TypeInv, JobsInv, DepInv, Pass
    PROVE  DepInv'
<1>1. /\ idx \in Pos /\ idx \in Nat /\ chunks' = chunks /\ idx' = idx + 1 /\ pc' = "loop"
      /\ \E x : approval' = [approval EXCEPT ![Current.job] = x]
      /\ planner' = [planner EXCEPT ![Current.job.task] = ParentStatus(Current, approval')]
  <2>1. pc \in Busy
    BY DEF Pass, Skip, Conclude, GiveUp, Busy
  <2>2. idx \in Pos /\ idx \in Nat
    BY <2>1, LenProperties DEF TypeInv, TypeOK, InRange, Pos
  <2>3. CASE Skip
    BY <2>2, <2>3 DEF Skip
  <2>4. CASE Conclude
    BY <2>2, <2>4 DEF Conclude
  <2>5. CASE \E why \in {"limit", "timeout"} : GiveUp(why)
    BY <2>2, <2>5 DEF GiveUp
  <2> QED
    BY <2>3, <2>4, <2>5 DEF Pass
<1>2. /\ Current = chunks[idx] /\ Current.job \in Job /\ Current.job.task \in AllTasks
      /\ approval[Current.job] # "completed" /\ planner[Current.job.task] # "completed"
  BY <1>1, CurrentOpen
<1>3. \A j \in Job : j # Current.job => approval'[j] = approval[j]
  BY <1>1 DEF TypeInv, TypeOK
<1>4. \A d \in AllTasks : d # Current.job.task => planner'[d] = planner[d]
  BY <1>1 DEF TypeInv, TypeOK
<1>5. planner'[Current.job.task] = "completed" =>
        \A i \in Pos : chunks[i].job.task = Current.job.task => approval'[chunks[i].job] = "completed"
  <2>1. planner'[Current.job.task] = ParentStatus(Current, approval')
    BY <1>1, <1>2 DEF TypeInv, TypeOK
  <2>2. DOMAIN chunks = Pos
    BY DEF TypeInv, TypeOK, Pos
  <2> QED
    BY <2>1, <2>2 DEF ParentStatus
<1>6. \A i \in Pos : chunks[i].job \in Job /\ chunks[i].job.task \in AllTasks
  BY ChunkJobs DEF TypeInv
<1>7. Pos' = Pos
  BY <1>1 DEF Pos
<1>8. ASSUME NEW j \in Job, approval'[j] = "completed"
      PROVE  \E i \in Pos' : i < idx' /\ chunks'[i].job = j
  <2>1. CASE j = Current.job
    BY <1>1, <1>2, <1>7, <2>1
  <2>2. CASE j # Current.job
    <3>1. PICK i \in Pos : i < idx /\ chunks[i].job = j
      BY <1>3, <1>8, <2>2 DEF DepInv
    <3>2. i \in Nat /\ i < idx'
      BY <1>1, <3>1 DEF Pos
    <3> QED
      BY <1>1, <1>7, <3>1, <3>2
  <2> QED
    BY <2>1, <2>2
<1>9. ASSUME NEW i \in Pos, planner'[chunks[i].job.task] = "completed"
      PROVE  approval'[chunks[i].job] = "completed"
  <2>1. CASE chunks[i].job.task = Current.job.task
    BY <1>5, <1>9, <2>1
  <2>2. CASE chunks[i].job.task # Current.job.task
    BY <1>3, <1>4, <1>6, <1>9, <2>2 DEF DepInv
  <2> QED
    BY <2>1, <2>2
<1>10. /\ \A j \in Job : approval'[j] = "completed" => \E i \in Pos' : i < idx' /\ chunks'[i].job = j
       /\ \A i \in Pos' : planner'[chunks'[i].job.task] = "completed" => approval'[chunks'[i].job] = "completed"
  BY <1>1, <1>7, <1>8, <1>9
<1>11. pc' \notin Planned /\ pc' \notin Working
  BY <1>1 DEF Working, Planned
<1> QED
  BY <1>10, <1>11 DEF DepInv

(* A chunk that is started or blocked opens its task, or an entry of it.   *)
LEMMA DepLoop ==
    ASSUME TypeInv, JobsInv, DepInv, LoopStart \/ LoopBlock
    PROVE  DepInv'
<1>1. /\ idx \in Pos /\ Len(chunks') = Len(chunks) /\ Pos' = Pos /\ idx \in Nat
      /\ chunks'[idx] = Filtered(Current) /\ Filtered(Current).job = Current.job
      /\ \A i \in Pos : i # idx => chunks'[i] = chunks[i]
      /\ \A i \in Pos : chunks'[i].job = chunks[i].job
      /\ pc' \notin Planned /\ tasks' = tasks
  BY JobsFilter DEF LoopStart, LoopBlock, InLoop, Planned, TypeInv, TypeOK
<1>2. /\ Current = chunks[idx] /\ Current.job \in Job /\ Current.job.task \in AllTasks
      /\ approval[Current.job] # "completed" /\ planner[Current.job.task] # "completed"
  BY <1>1, CurrentOpen
<1>3. \A i \in Pos : chunks[i].job \in Job /\ chunks[i].job.task \in AllTasks /\ i \in Nat
  BY ChunkJobs DEF TypeInv
<1>4. \A j \in Job : approval'[j] = "completed" <=> approval[j] = "completed"
  BY <1>2 DEF LoopStart, LoopBlock, TypeInv, TypeOK
<1>5. \A d \in AllTasks : planner'[d] = "completed" <=> planner[d] = "completed"
  BY <1>2 DEF LoopStart, LoopBlock, TypeInv, TypeOK
<1>6. idx' = idx \/ idx' = idx + 1
  BY DEF LoopStart, LoopBlock
<1>7. ASSUME NEW j \in Job, approval'[j] = "completed"
      PROVE  \E i \in Pos' : i < idx' /\ chunks'[i].job = j
  <2>1. PICK i \in Pos : i < idx /\ chunks[i].job = j
    BY <1>4, <1>7 DEF DepInv
  <2>2. i < idx'
    BY <1>1, <1>3, <1>6, <2>1
  <2> QED
    BY <1>1, <2>1, <2>2
<1>8. \A i \in Pos' : planner'[chunks'[i].job.task] = "completed" => approval'[chunks'[i].job] = "completed"
  BY <1>1, <1>3, <1>4, <1>5 DEF DepInv
<1>9. LoopStart => DependenciesReady(Current)' /\ planner'[Current'.job.task] = "running"
  <2> SUFFICES ASSUME LoopStart
               PROVE  DependenciesReady(Current)' /\ planner'[Current'.job.task] = "running"
    OBVIOUS
  <2>1. Current'.job = Current.job
    BY <1>1 DEF LoopStart, Current
  <2>2. TaskOf(Current)' = TaskOf(Current)
    BY <1>1, <2>1 DEF TaskOf
  <2>3. planner' = [planner EXCEPT ![Current.job.task] = "running"] /\ DependenciesReady(Current)
    BY DEF LoopStart
  <2>4. \A d \in AllTasks : planner[d] = "completed" => planner'[d] = "completed"
    BY <1>2, <2>3 DEF TypeInv, TypeOK
  <2>5. TaskOf(Current).deps \subseteq AllTasks
    BY <1>1, <1>2, DepsType DEF TypeInv
  <2>6. planner'[Current.job.task] = "running"
    BY <1>2, <2>3 DEF TypeInv, TypeOK
  <2> QED
    BY <2>1, <2>2, <2>3, <2>4, <2>5, <2>6 DEF DependenciesReady
<1>10. LoopBlock => pc' \notin Working
  BY DEF LoopBlock, InLoop, Working
<1> QED
  BY <1>1, <1>7, <1>8, <1>9, <1>10 DEF DepInv

(* What a split chunk was is superseded, and what it becomes is new.       *)
LEMMA DepSplit ==
    ASSUME TypeInv, JobsInv, DepInv, Split
    PROVE  DepInv'
<1>1. /\ idx \in Pos /\ Len(chunks') = Len(chunks) + 1
      /\ \A i \in Pos' : Origin(i) \in Pos
      /\ \A i \in Pos' : i # idx /\ i # idx + 1 => chunks'[i] = chunks[Origin(i)]
      /\ \A i \in Pos' : chunks'[i].job.task = chunks[Origin(i)].job.task
  BY JobsSplit
<1>2. /\ Current = chunks[idx] /\ Current.job \in Job /\ Current.job.task \in AllTasks
      /\ approval[Current.job] # "completed" /\ planner[Current.job.task] # "completed"
  BY <1>1, CurrentOpen
<1>3. /\ idx' = idx /\ planner' = planner /\ pc' = "loop"
      /\ approval' = [approval EXCEPT ![Current.job] = "superseded"]
  BY DEF Split
<1>4. \A j \in Job : approval'[j] = "completed" <=> approval[j] = "completed"
  BY <1>2, <1>3 DEF TypeInv, TypeOK
<1>5. idx \in Nat /\ Len(chunks) \in Nat /\ idx <= Len(chunks)
  BY <1>1, LenProperties DEF TypeInv, TypeOK, Pos
<1>6. ASSUME NEW j \in Job, approval'[j] = "completed"
      PROVE  \E i \in Pos' : i < idx' /\ chunks'[i].job = j
  <2>1. PICK i \in Pos : i < idx /\ chunks[i].job = j
    BY <1>4, <1>6 DEF DepInv
  <2>2. i \in Pos' /\ i # idx /\ i # idx + 1 /\ Origin(i) = i
    BY <1>1, <1>5, <2>1 DEF Pos, Origin
  <2>3. chunks'[i] = chunks[i]
    BY <1>1, <2>2
  <2> QED
    BY <1>3, <2>1, <2>2, <2>3
<1>7. ASSUME NEW i \in Pos', planner'[chunks'[i].job.task] = "completed"
      PROVE  approval'[chunks'[i].job] = "completed"
  <2>1. Origin(i) \in Pos /\ planner[chunks[Origin(i)].job.task] = "completed"
    BY <1>1, <1>3, <1>7
  <2>2. approval[chunks[Origin(i)].job] = "completed" /\ Origin(i) # idx
    BY <1>2, <2>1 DEF DepInv
  <2>3. i # idx /\ i # idx + 1
    BY <1>5, <2>2 DEF Origin
  <2>4. chunks'[i] = chunks[Origin(i)] /\ chunks[Origin(i)].job \in Job
    BY <1>1, <2>1, <2>3, ChunkJobs DEF TypeInv
  <2> QED
    BY <1>4, <2>2, <2>4
<1> QED
  BY <1>3, <1>6, <1>7 DEF DepInv, Working, Planned

(* Every step of the run keeps completed tasks complete.                   *)
LEMMA DepStep == TypeInv /\ JobsInv /\ CallInv /\ DepInv /\ [Next]_vars => DepInv'
<1> SUFFICES ASSUME TypeInv, JobsInv, CallInv, DepInv, [Next]_vars PROVE DepInv'
  OBVIOUS
<1>1. CASE Aside
  <2>1. Pos' = Pos
    BY <1>1 DEF Aside, Pos
  <2>2. pc' \in Working => DependenciesReady(Current)' /\ planner'[Current'.job.task] = "running"
    <3> SUFFICES ASSUME pc' \in Working
                 PROVE  DependenciesReady(Current)' /\ planner'[Current'.job.task] = "running"
      OBVIOUS
    <3>1. pc \in Working /\ tasks' = tasks /\ planner' = planner /\ Current' = Current
      BY <1>1 DEF Aside, Current
    <3> QED
      BY <3>1 DEF DepInv, DependenciesReady, TaskOf
  <2> QED
    BY <1>1, <2>1, <2>2 DEF Aside, DepInv
<1>2. CASE Enter
  <2>1. /\ pc \in Working /\ pc' \notin Planned /\ Current' = Current /\ Pos' = Pos
        /\ UNCHANGED <<idx, chunks, planner, tasks>>
        /\ approval' = [approval EXCEPT ![Current.job] = "running"]
    BY <1>2 DEF Enter, EnterAssessment, Working, Planned, Current, Pos
  <2>2. idx \in Pos
    BY <2>1, LenProperties DEF TypeInv, TypeOK, InRange, Busy, Working, Pos
  <2>3. Current.job \in Job /\ approval[Current.job] # "completed"
    BY <2>2, CurrentOpen
  <2>4. \A j \in Job : approval'[j] = "completed" <=> approval[j] = "completed"
    BY <2>1, <2>3 DEF TypeInv, TypeOK
  <2>5. DependenciesReady(Current)' /\ planner'[Current'.job.task] = "running"
    BY <2>1 DEF DepInv, DependenciesReady, TaskOf
  <2>6. \A i \in Pos : chunks[i].job \in Job
    BY ChunkJobs DEF TypeInv
  <2> QED
    BY <2>1, <2>4, <2>5, <2>6 DEF DepInv
<1>3. CASE EndSchedule \/ Close
  <2>1. /\ UNCHANGED <<chunks, idx>> /\ Pos' = Pos /\ pc' \notin Working /\ pc' \notin Planned
    BY <1>3 DEF EndSchedule, Close, Abort, Working, Planned, Pos
  <2>2. \A j \in Job : approval'[j] = "completed" <=> approval[j] = "completed"
    BY <1>3 DEF EndSchedule, Close, Swept, Active, TypeInv, TypeOK
  <2>3. \A d \in AllTasks : planner'[d] = "completed" => planner[d] = "completed"
    BY <1>3 DEF EndSchedule, Close, Swept, Active, TypeInv, TypeOK
  <2>4. \A i \in Pos : chunks[i].job \in Job /\ chunks[i].job.task \in AllTasks
    BY ChunkJobs DEF TypeInv
  <2> QED
    BY <2>1, <2>2, <2>3, <2>4 DEF DepInv
<1>4. CASE \E t \in tasks : ScheduleTask(t)
  <2>1. PICK t \in tasks : ScheduleTask(t)
    BY <1>4
  <2>2. /\ \A i \in Pos' : (i \in Pos /\ chunks'[i] = chunks[i]) \/ chunks'[i].job.task = t.id
        /\ \A i \in Pos : chunks[i].job.task # t.id
    BY <2>1, JobsSchedule
  <2>3. /\ pc = "schedule" /\ pc' = "schedule" /\ idx' = idx /\ idx = 1 /\ approval' = approval
        /\ planner' = [planner EXCEPT ![t.id] = "pending"] /\ t.id \in AllTasks
    BY <2>1 DEF ScheduleTask, DepInv, Planned, TypeInv, TypeOK, Command
  <2>4. \A j \in Job : approval'[j] # "completed"
    BY <2>3 DEF DepInv, Pos
  <2>5. \A i \in Pos' : planner'[chunks'[i].job.task] # "completed"
    <3> SUFFICES ASSUME NEW i \in Pos' PROVE planner'[chunks'[i].job.task] # "completed"
      OBVIOUS
    <3>1. CASE chunks'[i].job.task = t.id
      BY <2>3, <3>1 DEF TypeInv, TypeOK
    <3>2. CASE i \in Pos /\ chunks'[i] = chunks[i]
      <4>1. chunks[i].job \in Job /\ chunks[i].job.task \in AllTasks /\ chunks[i].job.task # t.id
        BY <2>2, <3>2, ChunkJobs DEF TypeInv
      <4>2. planner[chunks[i].job.task] # "completed"
        BY <2>3, <2>4, <3>2, <4>1 DEF DepInv
      <4> QED
        BY <2>3, <3>2, <4>1, <4>2 DEF TypeInv, TypeOK
    <3> QED
      BY <2>2, <3>1, <3>2
  <2> QED
    BY <2>3, <2>4, <2>5 DEF DepInv, Working
<1> QED
  BY <1>1, <1>2, <1>3, <1>4, DepPass, DepLoop, DepSplit, DepFrame

(* In a first round, a chunk is worked on only when Li has completed every *)
(* job of every task it depends on.                                        *)
THEOREM DependenciesAreFirst == OwnNames /\ FirstRound => (Spec => []DependenciesFirst)
<1> SUFFICES ASSUME OwnNames, FirstRound PROVE Spec => []DependenciesFirst
  OBVIOUS
<1>1. Init => DepInv
  BY DEF Init, DepInv, FirstRound, Working, Planned, Pos
<1>2. Spec => []DepInv
  BY <1>1, TypeInvariant, CallInvariant, JobsInvariant, DepStep, PTL DEF Spec
<1>3. TypeInv /\ JobsInv /\ DepInv => DependenciesFirst
  <2> SUFFICES ASSUME TypeInv, JobsInv, DepInv, pc \in Working,
                      NEW d \in TaskOf(Current).deps, NEW i \in DOMAIN chunks,
                      chunks[i].job.task = d
               PROVE  i < idx /\ approval[chunks[i].job] = "completed"
    BY DEF DependenciesFirst, Working
  <2>1. i \in Pos /\ chunks[i].job \in Job
    BY ChunkJobs DEF TypeInv, TypeOK, Pos
  <2>2. planner[chunks[i].job.task] = "completed"
    BY DEF DepInv, DependenciesReady
  <2>3. approval[chunks[i].job] = "completed"
    BY <2>1, <2>2 DEF DepInv
  <2>4. PICK k \in Pos : k < idx /\ chunks[k].job = chunks[i].job
    BY <2>1, <2>3 DEF DepInv
  <2>5. k = i
    BY <2>1, <2>4, JobsDiffer
  <2> QED
    BY <2>3, <2>4, <2>5
<1> QED
  BY <1>2, <1>3, TypeInvariant, JobsInvariant, PTL

-----------------------------------------------------------------------------
(* Passed chunks are settled.  The executor is the only writer the loop    *)
(* does not wait for in every case, so the question is which chunk it      *)
(* prepares: the one under way or one that is to come, unless that chunk   *)
(* has Ma's answer already or was split.                                   *)
Heard == {"prefetch", "presubmit", "li", "approve"}

SlotInv ==
    /\ pc \in Planned => idx = 1
    /\ pc \in Planned \cup {"submit", "ma", "presubmit"} => future.state = "idle"
    /\ pc \in Working => planner[Current.job.task] = "running"
    /\ pc \in Heard => HasEvidence(Current)
    /\ pc = "presubmit" => DependenciesReady(chunks[idx + 1])

(* Every step of the run keeps SlotInv.                                    *)
LEMMA SlotStep == TypeInv /\ JobsInv /\ CallInv /\ SlotInv /\ [Next]_vars => SlotInv'
<1> SUFFICES ASSUME TypeInv, JobsInv, CallInv, SlotInv, [Next]_vars PROVE SlotInv'
  OBVIOUS
<1> USE DEF Planned, Working, Heard
<1>0. DependenciesReady(chunks[idx + 1]) /\ UNCHANGED <<chunks, idx, planner, tasks>>
      => DependenciesReady(chunks[idx + 1])'
  BY DEF DependenciesReady, TaskOf
<1>1. CASE UNCHANGED <<pc, chunks, idx, planner, tasks, evidence, future>>
  BY <1>0, <1>1 DEF SlotInv, Current, HasEvidence
<1>2. CASE Planning
  BY <1>2 DEF SlotInv, Planning, PlanReply, EndCommands, EndSchedule, PlanExhausted, TakeCommand,
              ScheduleTask, Abort
<1>3. CASE LoopEnd \/ LoopStop \/ LoopSkip \/ Pass \/ LoopBlock
  BY <1>3 DEF SlotInv, LoopEnd, LoopStop, LoopSkip, Pass, Skip, Conclude, GiveUp, LoopBlock, InLoop,
              Abort
<1>4. CASE LoopStart
  <2>1. /\ Current' = Filtered(Current) /\ Current'.job = Current.job
        /\ Current.job \in Job /\ Current.job.task \in AllTasks
        /\ planner' = [planner EXCEPT ![Current.job.task] = "running"] /\ evidence' = evidence
        /\ pc' \in {"prefetch", "prepare"} /\ (pc' = "prefetch" => HasEvidence(Filtered(Current)))
    BY <1>4, JobsFilter, ChunkJobs DEF LoopStart, Current, TypeInv
  <2>2. planner'[Current'.job.task] = "running"
    BY <2>1 DEF TypeInv, TypeOK
  <2>3. pc' = "prefetch" => HasEvidence(Current)'
    BY <2>1 DEF HasEvidence
  <2> QED
    BY <2>1, <2>2, <2>3 DEF SlotInv
<1>5. CASE PrepareReuse \/ PrepareFresh \/ Submit \/ Await
  BY <1>5 DEF SlotInv, PrepareReuse, PrepareFresh, Submit, Await, Abort, Current, Idle
<1>6. CASE Prefetch \/ PrefetchSubmit
  <2>1. UNCHANGED <<chunks, idx, planner, tasks, evidence>> /\ Current' = Current
        /\ HasEvidence(Current)' /\ pc \in Working
    BY <1>6 DEF Prefetch, PrefetchSubmit, Current, HasEvidence, SlotInv
  <2>2. pc' \in {"li", "presubmit", "closing"}
        /\ (pc' = "presubmit" => Lookahead /\ future' = future)
    BY <1>6 DEF Prefetch, PrefetchSubmit, EnterAssessment, Abort
  <2>3. pc' = "presubmit" => DependenciesReady(chunks[idx + 1])' /\ future'.state = "idle"
    BY <1>0, <2>1, <2>2 DEF Lookahead
  <2> QED
    BY <2>1, <2>2, <2>3 DEF SlotInv
<1>7. CASE Executor
  <2>1. future.state \in {"queued", "running"} /\ UNCHANGED <<pc, chunks, idx, planner, tasks, evidence>>
    BY <1>7 DEF Executor, PrepareStart, PrepareEnd
  <2>2. pc \notin Planned \cup {"submit", "ma", "presubmit"}
    BY <2>1 DEF SlotInv
  <2> QED
    BY <2>1, <2>2 DEF SlotInv, Current, HasEvidence
<1>8. CASE MaReply
  <2>1. \E e \in evidence' : e.chunk = Current
    <3>1. PICK o : evidence' = evidence \cup {[chunk |-> Current, obs |-> o, handed |-> FALSE]}
      BY <1>8 DEF MaReply
    <3> DEFINE e == [chunk |-> Current, obs |-> o, handed |-> FALSE]
    <3>2. e \in evidence' /\ e.chunk = Current
      BY <3>1
    <3> HIDE DEF e
    <3> QED
      BY <3>2
  <2> QED
    BY <1>8, <2>1 DEF MaReply, SlotInv, Current, HasEvidence
<1>9. CASE LiReply \/ (\E d \in Verdicts : Approve(d)) \/ RequestStop \/ ReplyCancelled \/ ReplyBroken
           \/ Split \/ Close
  BY <1>9 DEF LiReply, Approve, RequestStop, ReplyCancelled, ReplyBroken, Split, Close, Abort,
              SlotInv, Current, HasEvidence
<1>10. Cancel \/ Expire \/ RequestCheck \/ RequestSend \/ ReplyTruncated \/ UNCHANGED vars
       => UNCHANGED <<pc, chunks, idx, planner, tasks, evidence, future>>
  BY DEF Cancel, Expire, RequestCheck, RequestSend, ReplyTruncated, vars
<1> QED
  BY <1>1, <1>2, <1>3, <1>4, <1>5, <1>6, <1>7, <1>8, <1>9, <1>10
     DEF Next, Run, Looping, Preparing, Requesting, Deciding, Pass

(* SlotInv is an invariant of the run.                                     *)
LEMMA SlotInvariant == OwnNames => (Spec => []SlotInv)
<1> SUFFICES ASSUME OwnNames PROVE Spec => []SlotInv
  OBVIOUS
<1>1. Init => SlotInv
  BY DEF Init, SlotInv, Planned, Working, Heard, Idle
<1> QED
  BY <1>1, TypeInvariant, CallInvariant, JobsInvariant, SlotStep, PTL DEF Spec

(* What Ma answered herself she answered about the chunk under way or one  *)
(* the loop has left.                                                      *)
OwnInv == \A e \in evidence : ~ e.handed =>
    \E i \in Pos : /\ chunks[i] = e.chunk
                   /\ i < idx \/ (i = idx /\ pc \in Heard \cup {"closing", "ended"})

(* So an answer that is reused when a chunk is started was handed down.    *)
LEMMA ReusedIsInherited ==
    ASSUME TypeInv, JobsInv, OwnInv, LoopStart, HasEvidence(Filtered(Current))
    PROVE  Inherited(Filtered(Current))
<1>1. PICK e \in evidence : e.chunk = Filtered(Current)
  BY DEF HasEvidence
<1>2. idx \in Pos /\ idx \in Nat /\ Current = chunks[idx] /\ pc = "loop"
  BY JobsFilter DEF LoopStart, InLoop, Current, TypeInv, TypeOK
<1>3. Filtered(Current).job = Current.job
  BY <1>2, ChunkJobs DEF Filtered, TypeInv, TypeOK, Chunk
<1>4. ~ e.handed => FALSE
  <2> SUFFICES ASSUME ~ e.handed PROVE FALSE
    OBVIOUS
  <2>1. PICK i \in Pos : chunks[i] = e.chunk /\ i < idx
    BY <1>2 DEF OwnInv, Heard
  <2>2. chunks[i].job = chunks[idx].job
    BY <1>1, <1>2, <1>3, <2>1
  <2>3. i = idx
    BY <1>2, <2>2, JobsDiffer
  <2> QED
    BY <1>2, <2>1, <2>3
<1> QED
  BY <1>1, <1>4 DEF Inherited

(* Every step of the run keeps OwnInv.                                     *)
LEMMA OwnStep == TypeInv /\ JobsInv /\ CallInv /\ SlotInv /\ OwnInv /\ [Next]_vars => OwnInv'
<1> SUFFICES ASSUME TypeInv, JobsInv, CallInv, SlotInv, OwnInv, [Next]_vars,
                    NEW e \in evidence', ~ e.handed
             PROVE  \E i \in Pos' : /\ chunks'[i] = e.chunk
                                    /\ i < idx' \/ (i = idx' /\ pc' \in Heard \cup {"closing", "ended"})
  BY DEF OwnInv
<1>0. idx \in Nat
  BY DEF TypeInv, TypeOK
<1>1. CASE e \in evidence
  <2>1. PICK i \in Pos : /\ chunks[i] = e.chunk
                         /\ i < idx \/ (i = idx /\ pc \in Heard \cup {"closing", "ended"})
    BY <1>1 DEF OwnInv
  <2>2. CASE i < idx
    BY <2>1, <2>2, PassedStay
  <2>3. CASE i = idx /\ pc \in Heard \cup {"closing", "ended"}
    <3>1. Current = chunks[idx] /\ e.chunk = Current
      BY <2>1, <2>3 DEF Current
    <3>2. ~ Split
      <4> SUFFICES ASSUME Split PROVE FALSE
        OBVIOUS
      <4>1. e.chunk # Current
        BY DEF Split
      <4> QED
        BY <3>1, <4>1
    <3>3. /\ chunks' = chunks
          /\ idx' = idx + 1 \/ (idx' = idx /\ pc' \in Heard \cup {"closing", "ended"})
      <4>1. CASE UNCHANGED vars \/ Cancel \/ Expire \/ Executor
        BY <2>3, <4>1 DEF vars, Cancel, Expire, Executor, PrepareStart, PrepareEnd
      <4>2. CASE Looping
        BY <2>3, <4>2 DEF Looping, LoopEnd, LoopStop, LoopSkip, Skip, LoopBlock, LoopStart, InLoop, Heard
      <4>3. CASE Preparing
        BY <2>3, <4>3 DEF Preparing, PrepareReuse, PrepareFresh, Submit, Await, Prefetch,
                          PrefetchSubmit, EnterAssessment, Abort, Heard
      <4>4. CASE Requesting
        BY <2>3, <3>2, <4>4 DEF Requesting, RequestStop, RequestCheck, RequestSend, ReplyCancelled,
                          ReplyBroken, ReplyTruncated, MaReply, LiReply, GiveUp, Abort, Heard
      <4>5. CASE Deciding \/ Close
        BY <2>3, <4>5 DEF Deciding, Approve, Conclude, Close, Heard
      <4>6. CASE Planning
        BY <2>3, <4>6 DEF Planning, PlanReply, EndCommands, EndSchedule, PlanExhausted, TakeCommand,
                          ScheduleTask, Heard
      <4> QED
        BY <4>1, <4>2, <4>3, <4>4, <4>5, <4>6 DEF Next, Run
    <3>4. Pos' = Pos
      BY <3>3 DEF Pos
    <3> QED
      BY <1>0, <2>1, <2>3, <3>3, <3>4
  <2> QED
    BY <2>1, <2>2, <2>3
<1>2. CASE e \notin evidence
  <2>1. MaReply
    <3>1. Split => FALSE
      <4> SUFFICES ASSUME Split PROVE FALSE
        OBVIOUS
      <4> DEFINE heir(h) == [chunk |-> h, obs |-> WorkerEvidence(Obs(Current), h.cands), handed |-> TRUE]
      <4>1. e \in {heir(h) : h \in {Halves(Current)[1], Halves(Current)[2]}}
        BY <1>2 DEF Split
      <4>2. \A h : heir(h).handed
        OBVIOUS
      <4> QED
        BY <4>1, <4>2
    <3>2. ~ Requesting => evidence' = evidence
      BY DEF vars, Next, Run, Cancel, Expire, Planning, PlanReply, EndCommands, EndSchedule, PlanExhausted,
             TakeCommand, ScheduleTask, Looping, LoopEnd, LoopStop, LoopSkip, Skip, LoopBlock, LoopStart,
             Preparing, PrepareReuse, PrepareFresh, Submit, Await, Prefetch, PrefetchSubmit,
             Executor, PrepareStart, PrepareEnd, Deciding, Conclude, Approve, Close
    <3> QED
      BY <1>2, <3>1, <3>2 DEF Requesting, RequestStop, RequestCheck, RequestSend, ReplyCancelled,
             ReplyBroken, ReplyTruncated, LiReply, GiveUp
  <2>2. e.chunk = Current /\ pc' = "prefetch" /\ UNCHANGED <<chunks, idx>> /\ pc = "ma"
    <3>1. PICK o : evidence' = evidence \cup {[chunk |-> Current, obs |-> o, handed |-> FALSE]}
      BY <2>1 DEF MaReply
    <3>2. e = [chunk |-> Current, obs |-> o, handed |-> FALSE]
      BY <1>2, <3>1
    <3> QED
      BY <2>1, <3>2 DEF MaReply
  <2>3. idx \in Pos
    BY <2>2, LenProperties DEF TypeInv, TypeOK, InRange, Busy, Pos
  <2>4. Pos' = Pos /\ chunks'[idx] = e.chunk
    BY <2>2 DEF Pos, Current
  <2> QED
    BY <2>2, <2>3, <2>4 DEF Heard
<1> QED
  BY <1>1, <1>2

(* OwnInv is an invariant of the run.                                      *)
LEMMA OwnInvariant == OwnNames => (Spec => []OwnInv)
<1> SUFFICES ASSUME OwnNames PROVE Spec => []OwnInv
  OBVIOUS
<1>1. Init => OwnInv
  BY DEF Init, OwnInv
<1> QED
  BY <1>1, TypeInvariant, CallInvariant, JobsInvariant, SlotInvariant, OwnStep, PTL DEF Spec

(* What the executor may be preparing, as long as it may write: the chunk  *)
(* under way, which waits for it; a chunk to which Ma's answer was handed  *)
(* down, which was not waited for; or one to come, which then is as it was *)
(* submitted and whose dependencies no chunk in between can reopen.  No    *)
(* split makes its job anew.                                               *)
Waiting == {"prepare", "submit", "await", "closing", "ended"}

Due(F, i) ==
    \/ i <= idx /\ (i = idx => pc \notin {"loop", "skip"}) /\ Inherited(chunks[i])
    \/ i = idx /\ pc \in Waiting
    \/ /\ i >= idx /\ chunks[i] = F /\ DependenciesReady(F)
       /\ i = idx => pc \in {"loop", "skip"}
       /\ \A k \in idx..(i - 1) : chunks[k].job.task \notin TaskOf(F).deps

Expected(F) ==
    /\ \A i \in Pos : chunks[i].job.task = F.job.task =>
         F.job.txs = chunks[i].job.txs \/ ~ (F.job.txs \subseteq chunks[i].job.txs)
    /\ \A i \in Pos : chunks[i].job = F.job => Due(F, i)

Writing == future.state \in {"queued", "running"}

AheadInv == Writing => Expected(future.chunk)

(* A task whose entry is written is not one F waits for: F stays ready.    *)
LEMMA ReadyStays ==
    ASSUME NEW F, NEW t, DependenciesReady(F), t \notin TaskOf(F).deps, tasks' = tasks,
           TaskOf(F).deps \subseteq AllTasks,
           \A d \in AllTasks : d # t => planner'[d] = planner[d]
    PROVE  DependenciesReady(F)' /\ TaskOf(F)' = TaskOf(F)
BY DEF DependenciesReady, TaskOf

(* What is submitted is expected.                                          *)
LEMMA AheadSubmit ==
    ASSUME TypeInv, JobsInv, SlotInv, Submit \/ PrefetchSubmit
    PROVE  AheadInv'
<1>1. PICK i \in Pos :
        /\ future' = [state |-> "queued", chunk |-> chunks[i]]
        /\ \/ i = idx /\ pc' = "await"
           \/ i = idx + 1 /\ DependenciesReady(chunks[i]) /\ idx \in Pos /\ pc' = "li"
              /\ planner[Current.job.task] = "running" /\ Current = chunks[idx]
  <2>1. CASE Submit
    <3>1. idx \in Pos
      BY <2>1, LenProperties DEF TypeInv, TypeOK, InRange, Busy, Submit, Pos
    <3> QED
      BY <2>1, <3>1 DEF Submit, Current
  <2>2. CASE PrefetchSubmit
    <3>1. idx \in Pos /\ idx + 1 \in Pos
      BY <2>2, LenProperties DEF TypeInv, TypeOK, InRange, Busy, PrefetchSubmit, Pos
    <3> QED
      BY <2>2, <3>1 DEF PrefetchSubmit, SlotInv, Working, Current, EnterAssessment
  <2> QED
    BY <2>1, <2>2
<1>2. UNCHANGED <<chunks, idx, planner, tasks, evidence>> /\ Pos' = Pos
  BY DEF Submit, PrefetchSubmit, EnterAssessment, Pos
<1>3. PICK F : F = chunks[i] /\ future'.chunk = F
  BY <1>1
<1>4. \A k \in Pos : chunks[k].job.task = F.job.task =>
        F.job.txs = chunks[k].job.txs \/ ~ (F.job.txs \subseteq chunks[k].job.txs)
  <2> SUFFICES ASSUME NEW k \in Pos, k # i, chunks[k].job.task = F.job.task
               PROVE  ~ (F.job.txs \subseteq chunks[k].job.txs)
    BY <1>3
  <2>1. F.job.txs # {} /\ F.job.txs \cap chunks[k].job.txs = {}
    BY <1>3 DEF JobsInv, JobsReal, JobsApart, Pos
  <2> QED
    BY <2>1
<1>5. \A k \in Pos : chunks[k].job = F.job => k = i
  BY <1>3, JobsDiffer
<1>6. idx \in Nat
  BY DEF TypeInv, TypeOK
<1>7. i = idx + 1 => \A k \in idx..(i - 1) : k = idx
  BY <1>6
<1>8. i # idx => /\ DependenciesReady(F)' /\ TaskOf(F)' = TaskOf(F)
                 /\ \A k \in idx..(i - 1) : chunks[k].job.task \notin TaskOf(F).deps
  <2> SUFFICES ASSUME i # idx
               PROVE  /\ DependenciesReady(F)' /\ TaskOf(F)' = TaskOf(F)
                      /\ \A k \in idx..(i - 1) : chunks[k].job.task \notin TaskOf(F).deps
    OBVIOUS
  <2>1. /\ i = idx + 1 /\ DependenciesReady(F)
        /\ planner[Current.job.task] = "running" /\ Current = chunks[idx]
    BY <1>1, <1>3
  <2>2. Current.job.task \notin TaskOf(F).deps
    BY <2>1 DEF DependenciesReady
  <2>3. DependenciesReady(F)' /\ TaskOf(F)' = TaskOf(F)
    BY <1>2, <2>1 DEF DependenciesReady, TaskOf
  <2> QED
    BY <1>7, <2>1, <2>2, <2>3
<1>9. Expected(F)'
  <2>1. i = idx => pc' \in Waiting
    BY <1>1, <1>6 DEF Waiting
  <2>2. i = idx \/ i > idx
    BY <1>1, <1>6
  <2>3. chunks'[i] = F /\ idx' = idx /\ chunks' = chunks
    BY <1>2, <1>3
  <2>4. i = idx => Due(F, i)'
    <3> SUFFICES ASSUME i = idx PROVE Due(F, i)'
      OBVIOUS
    <3>1. i = idx' /\ pc' \in Waiting
      BY <2>1, <2>3
    <3> QED
      BY <3>1 DEF Due
  <2>5. i # idx => Due(F, i)'
    <3> SUFFICES ASSUME i # idx PROVE Due(F, i)'
      OBVIOUS
    <3>1. i >= idx' /\ i # idx'
      BY <2>2, <2>3, <1>6 DEF Pos
    <3>2. DependenciesReady(F)' /\ \A k \in idx'..(i - 1) : chunks'[k].job.task \notin TaskOf(F)'.deps
      BY <1>8, <2>3
    <3> QED
      BY <2>3, <3>1, <3>2 DEF Due
  <2>6. Due(F, i)'
    BY <2>4, <2>5
  <2> QED
    BY <1>2, <1>4, <1>5, <2>6 DEF Expected
<1> QED
  BY <1>3, <1>9 DEF AheadInv

(* The steps that leave the chunks, their order and the planner alone.     *)
LEMMA AheadCalm ==
    ASSUME NEW F, Expected(F), UNCHANGED <<chunks, idx, planner, tasks>>,
           evidence \subseteq evidence', pc' \in {"loop", "skip"} => pc \in {"loop", "skip"},
           pc \in {"loop", "skip"} => pc' \in {"loop", "skip"} \cup Waiting,
           pc \in Waiting => pc' \in Waiting
    PROVE  Expected(F)'
<1>1. Pos' = Pos
  BY DEF Pos
<1>2. \A ch : Inherited(ch) => Inherited(ch)'
  BY DEF Inherited
<1>3. TaskOf(F)' = TaskOf(F) /\ (DependenciesReady(F) => DependenciesReady(F)')
  BY DEF TaskOf, DependenciesReady
<1>4. \A i : Due(F, i) => Due(F, i)'
  BY <1>2, <1>3 DEF Due
<1> QED
  BY <1>1, <1>4 DEF Expected

(* The chunk under way is passed: if it is the one in the executor, it     *)
(* inherited Ma's answer.                                                  *)
LEMMA AheadPass ==
    ASSUME TypeInv, JobsInv, SlotInv, Writing, Expected(future.chunk), Writing', Pass
    PROVE  Expected(future.chunk)' /\ future'.chunk = future.chunk
<1>1. future' = future
  BY DEF Pass, Skip, Conclude, GiveUp, Writing, Idle
<1>2. PICK F : F = future.chunk
  OBVIOUS
<1>3. /\ idx \in Pos /\ idx \in Nat /\ chunks' = chunks /\ idx' = idx + 1 /\ pc' = "loop"
      /\ planner' = [planner EXCEPT ![Current.job.task] = ParentStatus(Current, approval')]
      /\ evidence' = evidence /\ tasks' = tasks /\ Current = chunks[idx]
  <2>1. pc \in Busy
    BY DEF Pass, Skip, Conclude, GiveUp, Busy
  <2>2. idx \in Pos /\ idx \in Nat
    BY <2>1, LenProperties DEF TypeInv, TypeOK, InRange, Pos
  <2> QED
    BY <2>2 DEF Pass, Skip, Conclude, GiveUp, Current
<1>4. \A d \in AllTasks : d # Current.job.task => planner'[d] = planner[d]
  BY <1>3 DEF TypeInv, TypeOK
<1>5. \A ch : Inherited(ch)' = Inherited(ch)
  BY <1>3 DEF Inherited
<1>6. chunks[idx].job = F.job => Inherited(chunks[idx])
  <2> SUFFICES ASSUME chunks[idx].job = F.job PROVE Inherited(chunks[idx])
    OBVIOUS
  <2>1. CASE Skip
    <3>0. Expected(F)
      BY <1>2
    <3>1. pc = "skip" /\ chunks[idx] = F
      BY <1>3, <2>1, <3>0 DEF Skip, Expected, Due, Waiting
    <3> QED
      BY <1>1, <1>2, <1>3, <2>1, <3>1 DEF Skip, Writing
  <2>2. CASE Conclude \/ \E why \in {"limit", "timeout"} : GiveUp(why)
    <3>1. pc \in {"ma", "li", "approve"}
      BY <2>2 DEF Conclude, GiveUp
    <3>2. pc # "ma"
      BY DEF SlotInv, Writing
    <3>3. pc \notin {"loop", "skip"} /\ pc \notin Waiting
      BY <3>1, <3>2 DEF Waiting
    <3>4. Expected(F)
      BY <1>2
    <3> QED
      BY <1>3, <3>3, <3>4 DEF Expected, Due
  <2> QED
    BY <2>1, <2>2 DEF Pass
<1>7. ASSUME NEW i \in Pos, chunks[i].job = F.job
      PROVE  \/ i < idx + 1 /\ Inherited(chunks[i])'
             \/ /\ i >= idx + 1 /\ chunks[i] = F /\ DependenciesReady(F)'
                /\ \A k \in (idx + 1)..(i - 1) : chunks[k].job.task \notin TaskOf(F)'.deps
  <2>0. i \in Nat
    BY DEF Pos
  <2>1. CASE i < idx /\ Inherited(chunks[i])
    BY <1>3, <1>5, <2>0, <2>1
  <2>2. CASE i = idx
    BY <1>3, <1>5, <1>6, <1>7, <2>2
  <2>3. CASE /\ i > idx /\ chunks[i] = F /\ DependenciesReady(F)
             /\ \A k \in idx..(i - 1) : chunks[k].job.task \notin TaskOf(F).deps
    <3>1. idx \in idx..(i - 1) /\ i >= idx + 1 /\ (idx + 1)..(i - 1) \subseteq idx..(i - 1)
      BY <1>3, <2>0, <2>3
    <3>2. Current.job.task \notin TaskOf(F).deps
      BY <1>3, <2>3, <3>1
    <3>3. TaskOf(F).deps \subseteq AllTasks
      BY <2>3, DepsType DEF TypeInv
    <3>4. DependenciesReady(F)' /\ TaskOf(F)' = TaskOf(F)
      BY <1>3, <1>4, <2>3, <3>2, <3>3, ReadyStays
    <3> QED
      BY <2>3, <3>1, <3>4
  <2>4. Expected(F)
    BY <1>2
  <2>5. i < idx \/ i = idx \/ i > idx
    BY <1>3, <2>0
  <2> QED
    BY <1>3, <1>7, <2>0, <2>1, <2>2, <2>3, <2>4, <2>5 DEF Expected, Due
<1>8. Expected(F)'
  <2>1. Pos' = Pos
    BY <1>3 DEF Pos
  <2>2. \A i \in Pos' : chunks'[i].job.task = F.job.task =>
          F.job.txs = chunks'[i].job.txs \/ ~ (F.job.txs \subseteq chunks'[i].job.txs)
    BY <1>2, <1>3, <2>1 DEF Expected
  <2>3. ASSUME NEW i \in Pos, chunks[i].job = F.job PROVE Due(F, i)'
    <3>1. i \in Nat
      BY DEF Pos
    <3>2. CASE i < idx + 1 /\ Inherited(chunks[i])'
      BY <1>3, <3>1, <3>2 DEF Due
    <3>3. CASE /\ i >= idx + 1 /\ chunks[i] = F /\ DependenciesReady(F)'
               /\ \A k \in (idx + 1)..(i - 1) : chunks[k].job.task \notin TaskOf(F)'.deps
      BY <1>3, <3>1, <3>3 DEF Due
    <3> QED
      BY <1>7, <2>3, <3>2, <3>3
  <2> QED
    BY <1>3, <2>1, <2>2, <2>3 DEF Expected
<1> QED
  BY <1>1, <1>2, <1>8

(* The chunk under way is started, or blocked; what the executor prepares  *)
(* is ready and is not blocked.                                            *)
LEMMA AheadLoop ==
    ASSUME TypeInv, JobsInv, OwnInv, NEW F, Expected(F), LoopStart \/ LoopBlock
    PROVE  Expected(F)'
<1>1. /\ idx \in Pos /\ Pos' = Pos /\ idx \in Nat /\ Current = chunks[idx]
      /\ \A i \in Pos : i # idx => chunks'[i] = chunks[i]
      /\ \A i \in Pos : chunks'[i].job = chunks[i].job
      /\ pc = "loop" /\ tasks' = tasks /\ evidence' = evidence
  BY JobsFilter DEF LoopStart, LoopBlock, InLoop, TypeInv, TypeOK
<1>2. \A ch : Inherited(ch)' = Inherited(ch)
  BY <1>1 DEF Inherited
<1>3. \A d \in AllTasks : d # Current.job.task => planner'[d] = planner[d]
  BY DEF LoopStart, LoopBlock, TypeInv, TypeOK
<1>4. \/ idx' = idx /\ pc' = "prepare"
      \/ idx' = idx /\ pc' = "prefetch" /\ Inherited(chunks[idx])'
      \/ idx' = idx + 1 /\ ~ DependenciesReady(Current) /\ pc' = "loop"
  <2>1. CASE LoopBlock
    BY <1>1, <2>1 DEF LoopBlock
  <2>2. CASE LoopStart
    <3>1. chunks'[idx] = Filtered(Current)
      BY <1>1, <2>2, JobsFilter DEF LoopStart, TypeInv, TypeOK, Pos
    <3>2. pc' = "prefetch" => Inherited(Filtered(Current))
      BY <2>2, ReusedIsInherited DEF LoopStart
    <3>3. pc' = "prefetch" => Inherited(chunks[idx])'
      BY <1>1, <2>2, <3>1, <3>2 DEF Inherited, LoopStart
    <3> QED
      BY <2>2, <3>3 DEF LoopStart
  <2> QED
    BY <2>1, <2>2
<1>5. ASSUME NEW i \in Pos, chunks'[i].job = F.job
      PROVE  \/ i < idx' /\ Inherited(chunks[i])'
             \/ i = idx' /\ pc' \notin {"loop", "skip"} /\ Inherited(chunks[i])'
             \/ i = idx' /\ pc' \in Waiting
             \/ /\ i >= idx' /\ chunks'[i] = F /\ DependenciesReady(F)'
                /\ i = idx' => pc' \in {"loop", "skip"}
                /\ \A k \in idx'..(i - 1) : chunks'[k].job.task \notin TaskOf(F)'.deps
  <2>0. i \in Nat /\ chunks[i].job = F.job
    BY <1>1, <1>5 DEF Pos
  <2>1. CASE i < idx /\ Inherited(chunks[i])
    <3>1. chunks'[i] = chunks[i] /\ i < idx'
      BY <1>1, <1>4, <2>0, <2>1
    <3>2. Inherited(chunks[i])'
      BY <1>1, <2>1, <3>1 DEF Inherited
    <3> QED
      BY <3>1, <3>2
  <2>2. CASE i = idx
    <3>1. DependenciesReady(Current)
      BY <1>1, <2>0, <2>2 DEF Expected, Due, Waiting
    <3> QED
      BY <1>4, <2>2, <3>1 DEF Waiting
  <2>3. CASE /\ i > idx /\ chunks[i] = F /\ DependenciesReady(F)
             /\ \A k \in idx..(i - 1) : chunks[k].job.task \notin TaskOf(F).deps
    <3>1. /\ idx \in idx..(i - 1) /\ i >= idx + 1 /\ i # idx
          /\ idx'..(i - 1) \subseteq idx..(i - 1) /\ i >= idx'
      BY <1>1, <1>4, <2>0, <2>3
    <3>2. Current.job.task \notin TaskOf(F).deps
      BY <1>1, <2>3, <3>1
    <3>0. TaskOf(F).deps \subseteq AllTasks
      BY <2>3, DepsType DEF TypeInv
    <3>3. DependenciesReady(F)' /\ TaskOf(F)' = TaskOf(F)
      BY <1>1, <1>3, <2>3, <3>0, <3>2, ReadyStays
    <3>4. \A k \in idx..(i - 1) : k \in Pos
      BY <1>1, <2>0, LenProperties DEF Pos, TypeInv, TypeOK
    <3>5. \A k \in idx..(i - 1) : chunks'[k].job.task = chunks[k].job.task
      BY <1>1, <3>4
    <3>6. \A k \in idx'..(i - 1) : chunks'[k].job.task \notin TaskOf(F)'.deps
      BY <2>3, <3>1, <3>3, <3>5
    <3>7. chunks'[i] = F
      BY <1>1, <2>3, <3>1
    <3>8. i = idx' => pc' \in {"loop", "skip"}
      BY <1>4, <3>1
    <3> QED
      BY <3>1, <3>3, <3>6, <3>7, <3>8
  <2>4. i < idx \/ i = idx \/ i > idx
    BY <1>1, <2>0
  <2> QED
    <3>1. Due(F, i)
      BY <2>0 DEF Expected
    <3>2. \/ i < idx /\ Inherited(chunks[i])
          \/ i = idx
          \/ /\ i > idx /\ chunks[i] = F /\ DependenciesReady(F)
             /\ \A k \in idx..(i - 1) : chunks[k].job.task \notin TaskOf(F).deps
      BY <1>1, <2>0, <2>4, <3>1 DEF Due
    <3> QED
      BY <1>1, <2>0, <2>1, <2>2, <2>3, <2>4, <3>2
<1>6. \A i \in Pos' : chunks'[i].job.task = F.job.task =>
        F.job.txs = chunks'[i].job.txs \/ ~ (F.job.txs \subseteq chunks'[i].job.txs)
  BY <1>1 DEF Expected
<1>7. ASSUME NEW i \in Pos, chunks'[i].job = F.job PROVE Due(F, i)'
  <2>1. i \in Nat /\ idx' \in Nat
    BY <1>1, <1>4 DEF Pos
  <2>2. CASE i < idx' /\ Inherited(chunks[i])'
    BY <2>1, <2>2 DEF Due
  <2>3. CASE i = idx' /\ pc' \notin {"loop", "skip"} /\ Inherited(chunks[i])'
    <3>1. i <= idx' /\ (i = idx' => pc' \notin {"loop", "skip"})
      BY <2>1, <2>3
    <3>2. Inherited(chunks[i])'
      BY <2>3
    <3> QED
      BY <3>1, <3>2 DEF Due
  <2> QED
    BY <1>5, <1>7, <2>1, <2>2, <2>3 DEF Due
<1> QED
  BY <1>1, <1>6, <1>7 DEF Expected

(* A chunk is split: no half has the job the executor prepares, and the    *)
(* chunks behind move.                                                     *)
LEMMA AheadSplit ==
    ASSUME TypeInv, JobsInv, NEW F, Expected(F), [Next]_vars, Split
    PROVE  Expected(F)'
<1>1. /\ idx \in Pos /\ Len(chunks') = Len(chunks) + 1
      /\ \A i \in Pos' : Origin(i) \in Pos
      /\ \A i \in Pos' : i # idx /\ i # idx + 1 => chunks'[i] = chunks[Origin(i)]
      /\ \A i \in Pos' : chunks'[i].job.task = chunks[Origin(i)].job.task
      /\ \A i \in {idx, idx + 1} : /\ chunks'[i].job.txs # {}
                                   /\ chunks'[i].job.txs \subseteq Current.job.txs
                                   /\ ~ (Current.job.txs \subseteq chunks'[i].job.txs)
  BY JobsSplit
<1>2. /\ idx \in Nat /\ Len(chunks) \in Nat /\ idx <= Len(chunks) /\ Current = chunks[idx]
      /\ idx' = idx /\ planner' = planner /\ tasks' = tasks /\ pc' = "loop"
  <2>1. idx \in Nat /\ Len(chunks) \in Nat /\ idx <= Len(chunks)
    BY <1>1, LenProperties DEF TypeInv, TypeOK, Pos
  <2> QED
    BY <2>1 DEF Split, Current
<1>3. DependenciesReady(F) => DependenciesReady(F)' /\ TaskOf(F)' = TaskOf(F)
  BY <1>2 DEF DependenciesReady, TaskOf
<1>4. ASSUME NEW i \in Pos', chunks'[i].job.task = F.job.task
      PROVE  /\ F.job.txs = chunks'[i].job.txs \/ ~ (F.job.txs \subseteq chunks'[i].job.txs)
             /\ chunks'[i].job = F.job => i # idx /\ i # idx + 1
  <2>1. /\ Origin(i) \in Pos /\ chunks[Origin(i)].job.task = F.job.task
        /\ \/ F.job.txs = chunks[Origin(i)].job.txs
           \/ ~ (F.job.txs \subseteq chunks[Origin(i)].job.txs)
    BY <1>1, <1>4 DEF Expected
  <2>2. CASE i \in {idx, idx + 1}
    <3>1. Origin(i) = idx
      BY <1>2, <2>2 DEF Origin
    <3>2. /\ chunks'[i].job.txs \subseteq chunks[idx].job.txs
          /\ ~ (chunks[idx].job.txs \subseteq chunks'[i].job.txs)
      BY <1>1, <1>2, <2>2
    <3>3. ~ (F.job.txs \subseteq chunks'[i].job.txs)
      BY <2>1, <3>1, <3>2
    <3> QED
      BY <3>3
  <2>3. CASE i \notin {idx, idx + 1}
    BY <1>1, <2>1, <2>3
  <2> QED
    BY <2>2, <2>3
<1>5. ASSUME NEW i \in Pos', chunks'[i].job = F.job
      PROVE  \/ i < idx /\ Inherited(chunks[i])'
             \/ /\ i > idx /\ chunks'[i] = F /\ DependenciesReady(F)'
                /\ \A k \in idx..(i - 1) : chunks'[k].job.task \notin TaskOf(F)'.deps
  <2>1. i # idx /\ i # idx + 1 /\ i \in Nat
    BY <1>4, <1>5 DEF Pos
  <2>2. PICK o \in Pos : o = Origin(i) /\ chunks'[i] = chunks[o] /\ chunks[o].job = F.job
    BY <1>1, <1>5, <2>1
  <2>3. o \in Nat /\ o # idx /\ (o < idx => i = o) /\ (o > idx => i = o + 1)
    BY <1>2, <2>1, <2>2 DEF Origin
  <2>4. CASE o < idx
    <3>1. Inherited(chunks[o])
      BY <1>2, <2>2, <2>3, <2>4 DEF Expected, Due
    <3>2. chunks[o] # Current
      BY <1>1, <1>2, <2>3, JobsDiffer
    <3>3. PICK ch : ch = chunks[o]
      OBVIOUS
    <3>4. Inherited(ch)'
      BY <3>1, <3>2, <3>3, InheritedGrows
    <3>5. chunks'[i] = ch
      BY <2>2, <3>3
    <3> QED
      BY <2>3, <2>4, <3>4, <3>5 DEF Inherited
  <2>5. CASE o > idx
    <3>1. /\ chunks[o] = F /\ DependenciesReady(F)
          /\ \A k \in idx..(o - 1) : chunks[k].job.task \notin TaskOf(F).deps
      BY <1>2, <2>2, <2>3, <2>5 DEF Expected, Due
    <3>2. \A k \in idx..(i - 1) : k \in Pos' /\ Origin(k) \in idx..(o - 1)
      <4>1. i = o + 1 /\ o <= Len(chunks)
        BY <2>3, <2>5, <1>2 DEF Pos
      <4> QED
        BY <1>1, <1>2, <2>3, <2>5, <4>1 DEF Pos, Origin
    <3>3. \A k \in idx..(i - 1) : chunks'[k].job.task \notin TaskOf(F)'.deps
      BY <1>1, <1>3, <3>1, <3>2
    <3> QED
      BY <1>2, <1>3, <2>2, <2>3, <2>5, <3>1, <3>3
  <2> QED
    BY <1>2, <2>3, <2>4, <2>5
<1>6. ASSUME NEW i \in Pos', chunks'[i].job = F.job PROVE Due(F, i)'
  <2>1. i \in Nat
    BY DEF Pos
  <2>2. CASE i < idx /\ Inherited(chunks[i])'
    BY <1>2, <2>1, <2>2 DEF Due
  <2>3. CASE /\ i > idx /\ chunks'[i] = F /\ DependenciesReady(F)'
             /\ \A k \in idx..(i - 1) : chunks'[k].job.task \notin TaskOf(F)'.deps
    BY <1>2, <2>1, <2>3 DEF Due
  <2> QED
    BY <1>5, <1>6, <2>2, <2>3
<1> QED
  BY <1>2, <1>4, <1>6 DEF Expected

(* Every step of the run keeps what the executor prepares expected.        *)
LEMMA AheadStep ==
    TypeInv /\ JobsInv /\ CallInv /\ SlotInv /\ OwnInv /\ AheadInv /\ [Next]_vars => AheadInv'
<1> SUFFICES ASSUME TypeInv, JobsInv, CallInv, SlotInv, OwnInv, AheadInv, [Next]_vars PROVE AheadInv'
  OBVIOUS
<1>1. CASE Submit \/ PrefetchSubmit
  BY <1>1, AheadSubmit
<1>2. CASE PrepareFresh \/ Await
  BY <1>2 DEF PrepareFresh, Await, AheadInv, Writing, Idle
<1>3. CASE Planning
  <2>1. future' = future /\ pc \in Planned
    BY <1>3 DEF Planning, PlanReply, EndCommands, EndSchedule, PlanExhausted, TakeCommand,
                ScheduleTask, Planned
  <2> QED
    BY <2>1 DEF SlotInv, AheadInv, Writing
<1>4. CASE Pass
  <2>1. CASE Writing'
    <3>1. Writing
      BY <1>4, <2>1 DEF Writing, Pass, Skip, Conclude, GiveUp, Idle
    <3>2. Expected(future.chunk)'
      BY <1>4, <2>1, <3>1, AheadPass DEF AheadInv
    <3> QED
      BY <3>2 DEF AheadInv
  <2> QED
    BY <2>1 DEF AheadInv
<1>5. CASE LoopStart \/ LoopBlock \/ Split
  <2>1. future' = future
    BY <1>5 DEF LoopStart, LoopBlock, Split
  <2>2. PICK F : F = future.chunk
    OBVIOUS
  <2>3. Writing => Expected(F)'
    BY <1>5, <2>2, AheadLoop, AheadSplit DEF AheadInv
  <2> QED
    BY <2>1, <2>2, <2>3 DEF AheadInv, Writing, Expected
<1>6. CASE /\ UNCHANGED <<chunks, idx, planner, tasks>> /\ evidence \subseteq evidence'
           /\ pc' \in {"loop", "skip"} => pc \in {"loop", "skip"}
           /\ pc \in {"loop", "skip"} => pc' \in {"loop", "skip"} \cup Waiting
           /\ pc \in Waiting => pc' \in Waiting
           /\ Writing' => Writing /\ future'.chunk = future.chunk
  <2>1. PICK F : F = future.chunk
    OBVIOUS
  <2>2. Writing => Expected(F)'
    BY <1>6, <2>1, AheadCalm DEF AheadInv
  <2> QED
    BY <1>6, <2>1, <2>2 DEF AheadInv, Expected
<1>7. CASE Executor
  <2>1. /\ UNCHANGED <<chunks, idx, planner, tasks, evidence, pc>>
        /\ Writing /\ future'.chunk = future.chunk
    BY <1>7 DEF Executor, PrepareStart, PrepareEnd, Writing, TypeInv, TypeOK, Slot, Idle
  <2> QED
    BY <1>6, <2>1
<1>8. Cancel \/ Expire \/ LoopEnd \/ LoopStop \/ LoopSkip \/ PrepareReuse \/ Prefetch \/ RequestStop
      \/ RequestCheck \/ RequestSend \/ ReplyCancelled \/ ReplyBroken \/ ReplyTruncated \/ MaReply
      \/ LiReply \/ (\E d \in Verdicts : Approve(d)) \/ Close \/ UNCHANGED vars
      => /\ UNCHANGED <<chunks, idx, planner, tasks>> /\ evidence \subseteq evidence'
         /\ pc' \in {"loop", "skip"} => pc \in {"loop", "skip"}
         /\ pc \in {"loop", "skip"} => pc' \in {"loop", "skip"} \cup Waiting
         /\ pc \in Waiting => pc' \in Waiting
         /\ Writing' => Writing /\ future'.chunk = future.chunk
         \/ Close
  BY DEF Cancel, Expire, LoopEnd, LoopStop, LoopSkip, InLoop, PrepareReuse, Prefetch, EnterAssessment,
         RequestStop, RequestCheck, RequestSend, ReplyCancelled, ReplyBroken, ReplyTruncated,
         MaReply, LiReply, Approve, vars, Abort, Writing, Waiting, Answered, Asking
<1>9. CASE Close
  BY <1>9 DEF Close, AheadInv, Writing
<1> QED
  BY <1>1, <1>2, <1>3, <1>4, <1>5, <1>6, <1>7, <1>8, <1>9
     DEF Next, Run, Looping, Preparing, Requesting, Deciding, Pass

(* What the executor prepares stays expected.                              *)
LEMMA AheadInvariant == OwnNames => (Spec => []AheadInv)
<1> SUFFICES ASSUME OwnNames PROVE Spec => []AheadInv
  OBVIOUS
<1>1. Init => AheadInv
  BY DEF Init, AheadInv, Writing, Idle
<1> QED
  BY <1>1, TypeInvariant, CallInvariant, JobsInvariant, SlotInvariant, OwnInvariant, AheadStep, PTL DEF Spec

(* The entries of a passed chunk are final, up to what PassedIsSettled     *)
(* excuses.                                                                *)
RestInv == \A i \in Pos : i < idx =>
    /\ approval[chunks[i].job] \notin Active
    /\ worker[chunks[i].job] \notin Active \/ Inherited(chunks[i])

(* While a chunk is assessed, Ma's entry of it is closed, unless it was    *)
(* inherited.                                                              *)
CalmInv == pc \in Heard => worker[Current.job] \notin Active \/ Inherited(Current)

(* Every step of the run keeps CalmInv.                                    *)
LEMMA CalmStep ==
    TypeInv /\ JobsInv /\ CallInv /\ SlotInv /\ AheadInv /\ CalmInv /\ [Next]_vars => CalmInv'
<1> SUFFICES ASSUME TypeInv, JobsInv, CallInv, SlotInv, AheadInv, CalmInv, [Next]_vars, pc' \in Heard
             PROVE  worker'[Current'.job] \notin Active \/ Inherited(Current)'
  BY DEF CalmInv
<1>1. CASE pc \in Heard /\ UNCHANGED <<chunks, idx, evidence, worker>>
  BY <1>1 DEF CalmInv, Current, Inherited
<1>2. CASE LoopStart \/ MaReply
  <2>1. idx \in Pos /\ idx' = idx /\ Current'.job = Current.job
    <3>1. CASE LoopStart
      BY <3>1, JobsFilter DEF LoopStart, Current
    <3>2. CASE MaReply
      BY <3>2, LenProperties DEF MaReply, Current, TypeInv, TypeOK, InRange, Busy, Pos
    <3> QED
      BY <1>2, <3>1, <3>2
  <2>2. Current.job \in Job
    BY <2>1, ChunkJobs DEF TypeInv, Current
  <2>3. worker' = [worker EXCEPT ![Current.job] = "completed"]
    BY <1>2 DEF LoopStart, MaReply, Heard
  <2> QED
    BY <2>1, <2>2, <2>3 DEF Active, TypeInv, TypeOK
<1>3. CASE Executor
  <2>1. /\ UNCHANGED <<pc, chunks, idx, evidence>> /\ Writing
        /\ \A j \in Job : j # future.chunk.job => worker'[j] = worker[j]
    BY <1>3 DEF Executor, PrepareStart, PrepareEnd, Writing, TypeInv, TypeOK
  <2>2. idx \in Pos /\ idx \in Nat /\ Current = chunks[idx] /\ Current.job \in Job
    BY <2>1, LenProperties, ChunkJobs DEF TypeInv, TypeOK, InRange, Busy, Pos, Heard, Current
  <2>3. Current.job = future.chunk.job => Inherited(Current)
    <3>1. Expected(future.chunk) /\ pc \notin Waiting /\ pc \notin {"loop", "skip"}
      BY <2>1 DEF AheadInv, Waiting, Heard
    <3> QED
      BY <2>2, <3>1 DEF Expected, Due
  <2>4. Current' = Current /\ (Inherited(Current) => Inherited(Current)')
    BY <2>1 DEF Current, Inherited
  <2> QED
    BY <2>1, <2>2, <2>3, <2>4 DEF CalmInv
<1>4. Cancel \/ Expire \/ UNCHANGED vars => pc \in Heard /\ UNCHANGED <<chunks, idx, evidence, worker>>
  BY DEF Cancel, Expire, vars
<1>5. ~ Planning /\ ~ Close /\ (Looping => LoopStart)
  BY DEF Planning, PlanReply, EndCommands, EndSchedule, PlanExhausted, TakeCommand, ScheduleTask,
         Close, Looping, LoopEnd, LoopStop, LoopSkip, Skip, LoopBlock, LoopStart, InLoop, Abort, Heard
<1>6. Preparing => pc \in Heard /\ UNCHANGED <<chunks, idx, evidence, worker>>
  BY DEF Preparing, PrepareReuse, PrepareFresh, Submit, Await, Prefetch, PrefetchSubmit,
         EnterAssessment, Abort, Heard
<1>7. Requesting => MaReply \/ (pc \in Heard /\ UNCHANGED <<chunks, idx, evidence, worker>>)
  BY DEF Requesting, RequestStop, RequestCheck, RequestSend, ReplyCancelled, ReplyBroken,
         ReplyTruncated, LiReply, Split, GiveUp, Abort, Heard
<1>8. Deciding => pc \in Heard /\ UNCHANGED <<chunks, idx, evidence, worker>>
  BY DEF Deciding, Approve, Conclude, Heard
<1> QED
  BY <1>1, <1>2, <1>3, <1>4, <1>5, <1>6, <1>7, <1>8 DEF Next, Run

(* Who may write an entry, once the plan is cut.                           *)
LEMMA Writers ==
    ASSUME TypeInv, [Next]_vars, pc \notin Planned, NEW j \in Job
    PROVE  /\ \/ approval'[j] = approval[j]
              \/ idx \in Pos /\ j = Current.job
              \/ Close /\ approval[j] \in Active
           /\ \/ worker'[j] = worker[j]
              \/ idx \in Pos /\ j = Current.job
              \/ Close /\ worker[j] \in Active
              \/ Writing /\ j = future.chunk.job
              \/ Split /\ j \in {Halves(Current)[1].job, Halves(Current)[2].job}
<1> USE DEF TypeInv, TypeOK
<1>1. CASE UNCHANGED <<approval, worker>>
  BY <1>1
<1>2. CASE LoopBlock \/ LoopStart \/ Await \/ MaReply \/ Enter \/ Pass
  <2>1. idx \in Pos
    <3>1. CASE LoopBlock \/ LoopStart
      BY <3>1, LenProperties DEF LoopBlock, LoopStart, InLoop, Pos
    <3>2. CASE Await \/ MaReply \/ Enter \/ Pass
      <4>1. pc \in Busy
        BY <3>2 DEF Await, MaReply, Enter, Pass, Skip, Conclude, GiveUp, Busy
      <4> QED
        BY <4>1, LenProperties DEF InRange, Pos
    <3> QED
      BY <1>2, <3>1, <3>2
  <2>2. j # Current.job => approval'[j] = approval[j] /\ worker'[j] = worker[j]
    <3>1. CASE LoopBlock \/ LoopStart
      BY <3>1 DEF LoopBlock, LoopStart
    <3>2. CASE Await \/ MaReply \/ Enter
      BY <3>2 DEF Await, MaReply, Enter, EnterAssessment
    <3>3. CASE Pass
      BY <3>3 DEF Pass, Skip, Conclude, GiveUp
    <3> QED
      BY <1>2, <3>1, <3>2, <3>3
  <2> QED
    BY <2>1, <2>2
<1>3. CASE Close
  BY <1>3 DEF Close, Swept
<1>4. CASE Executor
  BY <1>4 DEF Executor, PrepareStart, PrepareEnd, Writing
<1>5. CASE Split
  <2>1. idx \in Pos
    BY <1>5, LenProperties DEF Split, InRange, Busy, Pos
  <2> QED
    BY <1>5, <2>1 DEF Split
<1>6. Cancel \/ Expire \/ UNCHANGED vars => UNCHANGED <<approval, worker>>
  BY DEF Cancel, Expire, vars
<1>7. ~ Planning
  BY DEF Planning, PlanReply, EndCommands, EndSchedule, PlanExhausted, TakeCommand, ScheduleTask,
         Planned
<1>8. LoopEnd \/ LoopStop \/ LoopSkip \/ PrepareReuse \/ PrepareFresh \/ Submit
      => UNCHANGED <<approval, worker>>
  BY DEF LoopEnd, LoopStop, LoopSkip, PrepareReuse, PrepareFresh, Submit
<1>9. Prefetch \/ PrefetchSubmit => Enter \/ UNCHANGED <<approval, worker>>
  BY DEF Prefetch, PrefetchSubmit, Enter
<1>10. RequestStop \/ RequestCheck \/ RequestSend \/ ReplyCancelled \/ ReplyBroken \/ ReplyTruncated
       \/ LiReply \/ (\E d \in Verdicts : Approve(d)) => UNCHANGED <<approval, worker>>
  BY DEF RequestStop, RequestCheck, RequestSend, ReplyCancelled, ReplyBroken, ReplyTruncated,
         LiReply, Approve
<1> QED
  BY <1>1, <1>2, <1>3, <1>4, <1>5, <1>6, <1>7, <1>8, <1>9, <1>10
     DEF Next, Run, Looping, Preparing, Requesting, Deciding, Pass

(* No step writes the entries of a passed chunk, up to what                *)
(* PassedIsSettled excuses.                                                *)
LEMMA SettledRows ==
    ASSUME TypeInv, JobsInv, SlotInv, AheadInv, RestInv, [Next]_vars, NEW i \in Pos, i < idx
    PROVE  /\ approval'[chunks[i].job] = approval[chunks[i].job]
           /\ worker'[chunks[i].job] = worker[chunks[i].job] \/ Inherited(chunks[i])
<1> DEFINE j == chunks[i].job
<1>1. i \in Nat /\ j \in Job /\ idx \in Nat /\ 1 <= i
  BY ChunkJobs DEF TypeInv, TypeOK, Pos
<1>2. pc \notin Planned
  BY <1>1 DEF SlotInv
<1>3. idx \in Pos => j # Current.job
  BY <1>1, JobsDiffer DEF Current
<1>4. approval[j] \notin Active /\ (worker[j] \notin Active \/ Inherited(chunks[i]))
  BY DEF RestInv
<1>5. Writing /\ j = future.chunk.job => Inherited(chunks[i])
  <2> SUFFICES ASSUME Writing, chunks[i].job = future.chunk.job PROVE Inherited(chunks[i])
    OBVIOUS
  <2>1. Expected(future.chunk)
    BY DEF AheadInv
  <2>2. ~ (i = idx) /\ ~ (i >= idx)
    BY <1>1
  <2> QED
    BY <2>1, <2>2 DEF Expected, Due
<1>6. Split => j \notin {Halves(Current)[1].job, Halves(Current)[2].job}
  <2> SUFFICES ASSUME Split PROVE j # Halves(Current)[1].job /\ j # Halves(Current)[2].job
    OBVIOUS
  <2>1. /\ idx \in Pos
        /\ chunks'[idx] = Halves(Current)[1] /\ chunks'[idx + 1] = Halves(Current)[2]
        /\ \A k \in {idx, idx + 1} : /\ chunks'[k].job.txs # {}
                                     /\ chunks'[k].job.txs \subseteq Current.job.txs
        /\ \A k \in Pos' : Origin(k) \in Pos
        /\ \A k \in Pos' : chunks'[k].job.task = chunks[Origin(k)].job.task
        /\ Len(chunks') = Len(chunks) + 1
    BY JobsSplit
  <2>2. idx \in Pos' /\ idx + 1 \in Pos' /\ Origin(idx) = idx /\ Origin(idx + 1) = idx
    BY <1>1, <2>1, LenProperties DEF Pos, Origin, TypeInv, TypeOK
  <2>3. \A k \in {idx, idx + 1} : chunks'[k].job.task = Current.job.task
    BY <2>1, <2>2 DEF Current
  <2>4. chunks[i].job.task = Current.job.task => chunks[i].job.txs \cap Current.job.txs = {}
    <3>1. idx \in Pos /\ i # idx /\ Current = chunks[idx]
      BY <1>1, <2>1 DEF Current
    <3>2. JobsApart(chunks) /\ i \in 1..Len(chunks) /\ idx \in 1..Len(chunks)
      BY <3>1 DEF JobsInv, Pos
    <3> QED
      BY <3>1, <3>2 DEF JobsApart
  <2>5. \A k \in {idx, idx + 1} : chunks'[k].job # chunks[i].job
    <3> SUFFICES ASSUME NEW k \in {idx, idx + 1}, chunks'[k].job = chunks[i].job PROVE FALSE
      OBVIOUS
    <3>1. /\ chunks[i].job.task = Current.job.task
          /\ chunks[i].job.txs # {} /\ chunks[i].job.txs \subseteq Current.job.txs
      BY <2>1, <2>3
    <3> QED
      BY <2>4, <3>1
  <2> QED
    BY <2>1, <2>5
<1> HIDE DEF j
<1>7. /\ \/ approval'[j] = approval[j]
         \/ idx \in Pos /\ j = Current.job
         \/ Close /\ approval[j] \in Active
      /\ \/ worker'[j] = worker[j]
         \/ idx \in Pos /\ j = Current.job
         \/ Close /\ worker[j] \in Active
         \/ Writing /\ j = future.chunk.job
         \/ Split /\ j \in {Halves(Current)[1].job, Halves(Current)[2].job}
  BY <1>1, <1>2, Writers
<1>8. approval'[j] = approval[j] /\ (worker'[j] = worker[j] \/ Inherited(chunks[i]))
  BY <1>3, <1>4, <1>5, <1>6, <1>7
<1> QED
  BY <1>8 DEF j

(* A chunk the loop leaves has closed entries.                             *)
LEMMA RestPass ==
    ASSUME TypeInv, JobsInv, CalmInv, NEW i, i = idx, Pass \/ LoopBlock
    PROVE  /\ i \in Pos /\ idx' = i + 1 /\ chunks'[i].job = chunks[i].job /\ Pos' = Pos
           /\ approval'[chunks[i].job] \notin Active
           /\ worker'[chunks[i].job] \notin Active \/ Inherited(chunks[i])'
<1> USE DEF Active
<1>1. CASE LoopBlock
  <2>1. i \in Pos /\ idx' = i + 1 /\ chunks'[i].job = chunks[i].job /\ Pos' = Pos
    BY <1>1, JobsFilter DEF LoopBlock
  <2>2. chunks[i].job \in Job /\ Current.job = chunks[i].job
    BY <2>1, ChunkJobs DEF TypeInv, Current
  <2> QED
    BY <1>1, <2>1, <2>2 DEF LoopBlock, TypeInv, TypeOK
<1>2. CASE Pass
  <2>1. pc \in Busy /\ (Conclude => pc = "approve")
    BY <1>2 DEF Pass, Skip, Conclude, GiveUp, Busy
  <2>2. i \in Pos
    BY <2>1, LenProperties DEF TypeInv, TypeOK, InRange, Pos
  <2>3. chunks' = chunks /\ idx' = i + 1 /\ Pos' = Pos /\ evidence' = evidence
    BY <1>2 DEF Pass, Skip, Conclude, GiveUp, Pos
  <2>4. chunks[i].job \in Job /\ Current = chunks[i]
    BY <2>2, ChunkJobs DEF TypeInv, Current
  <2>5. approval'[chunks[i].job] \notin Active
    BY <1>2, <2>4 DEF Pass, Skip, Conclude, GiveUp, TypeInv, TypeOK
  <2>6. worker'[chunks[i].job] \notin Active \/ Conclude
    BY <1>2, <2>4 DEF Pass, Skip, GiveUp, TypeInv, TypeOK
  <2>7. Conclude => worker' = worker /\ (worker[chunks[i].job] \notin Active \/ Inherited(chunks[i]))
    BY <2>1, <2>4 DEF CalmInv, Heard, Conclude
  <2>8. Conclude => worker'[chunks[i].job] \notin Active \/ Inherited(chunks[i])'
    BY <2>3, <2>7 DEF Inherited
  <2> QED
    BY <2>2, <2>3, <2>5, <2>6, <2>8
<1> QED
  BY <1>1, <1>2

(* Every step of the run keeps passed chunks closed.                       *)
LEMMA RestStep ==
    TypeInv /\ JobsInv /\ CallInv /\ SlotInv /\ AheadInv /\ CalmInv /\ RestInv /\ [Next]_vars
        => RestInv'
<1> SUFFICES ASSUME TypeInv, JobsInv, CallInv, SlotInv, AheadInv, CalmInv, RestInv, [Next]_vars
             PROVE  RestInv'
  OBVIOUS
<1>1. ASSUME NEW i \in Pos, i < idx
      PROVE  /\ i \in Pos' /\ chunks'[i] = chunks[i]
             /\ approval'[chunks'[i].job] \notin Active
             /\ worker'[chunks'[i].job] \notin Active \/ Inherited(chunks[i])'
  <2>1. i \in Pos' /\ chunks'[i] = chunks[i]
    BY <1>1, PassedStay
  <2>2. /\ approval'[chunks[i].job] = approval[chunks[i].job]
        /\ worker'[chunks[i].job] = worker[chunks[i].job] \/ Inherited(chunks[i])
    BY <1>1, SettledRows
  <2>3. /\ approval[chunks[i].job] \notin Active
        /\ worker[chunks[i].job] \notin Active \/ Inherited(chunks[i])
    BY <1>1 DEF RestInv
  <2>4. Inherited(chunks[i]) => Inherited(chunks[i])'
    <3>1. ~ (Split /\ chunks[i] = Current)
      <4> SUFFICES ASSUME Split, chunks[i] = Current PROVE FALSE
        OBVIOUS
      <4>1. idx \in Pos /\ i # idx /\ idx \in Nat
        BY <1>1, JobsSplit DEF TypeInv, TypeOK, Pos
      <4> QED
        BY <4>1, JobsDiffer DEF Current
    <3>2. PICK ch : ch = chunks[i]
      OBVIOUS
    <3>3. Inherited(ch) => Inherited(ch)'
      BY <3>1, <3>2, InheritedGrows
    <3> QED
      BY <2>1, <3>2, <3>3 DEF Inherited
  <2> QED
    BY <2>1, <2>2, <2>3, <2>4
<1>2. CASE Pass \/ LoopBlock
  <2>1. PICK k : k = idx
    OBVIOUS
  <2>2. /\ k \in Pos /\ idx' = k + 1 /\ chunks'[k].job = chunks[k].job /\ Pos' = Pos
        /\ approval'[chunks[k].job] \notin Active
        /\ worker'[chunks[k].job] \notin Active \/ Inherited(chunks[k])'
    BY <1>2, <2>1, RestPass
  <2>3. \A i \in Pos' : i < idx' => i = k \/ (i \in Pos /\ i < idx)
    BY <2>1, <2>2 DEF TypeInv, TypeOK, Pos
  <2> QED
    BY <1>1, <2>2, <2>3 DEF RestInv
<1>3. CASE idx' = idx
  <2>1. \A i \in Pos' : i < idx' => i \in Pos
    <3> SUFFICES ASSUME NEW i \in Pos', i < idx PROVE i \in Pos
      BY <1>3
    <3>1. i \in Nat /\ 1 <= i /\ idx \in Nat /\ Len(chunks) \in Nat
      BY LenProperties DEF Pos, TypeInv, TypeOK
    <3>2. CASE i <= Len(chunks)
      BY <3>1, <3>2 DEF Pos
    <3>3. CASE i > Len(chunks)
      <4>1. idx > Len(chunks) /\ idx # 1
        BY <3>1, <3>3
      <4>2. pc \notin Planned
        BY <4>1 DEF SlotInv
      <4>3. ~ (LoopBlock \/ LoopStart \/ Split)
        BY <4>1, <3>1, JobsFilter, JobsSplit DEF Pos
      <4>4. Pos' = Pos
        BY <4>2, <4>3, JobsFrame DEF Pos, Planned, EndCommands, TakeCommand, ScheduleTask
      <4> QED
        BY <4>4
    <3> QED
      BY <3>1, <3>2, <3>3
  <2> QED
    BY <1>1, <1>3, <2>1 DEF RestInv
<1>4. Pass \/ LoopBlock \/ idx' = idx
  <2>1. Cancel \/ Expire \/ Planning \/ UNCHANGED vars => idx' = idx
    BY DEF vars, Cancel, Expire, Planning, PlanReply, EndCommands, EndSchedule, PlanExhausted,
           TakeCommand, ScheduleTask
  <2>2. LoopEnd \/ LoopStop \/ LoopSkip \/ LoopStart => idx' = idx
    BY DEF LoopEnd, LoopStop, LoopSkip, LoopStart
  <2>3. Preparing \/ Executor => idx' = idx
    BY DEF Preparing, PrepareReuse, PrepareFresh, Submit, Await, Prefetch, PrefetchSubmit,
           Executor, PrepareStart, PrepareEnd
  <2>4. Requesting => idx' = idx \/ Pass
    BY DEF Requesting, RequestStop, RequestCheck, RequestSend, ReplyCancelled, ReplyBroken,
           ReplyTruncated, MaReply, LiReply, Split, Pass
  <2>5. Deciding \/ Close => idx' = idx \/ Pass
    BY DEF Deciding, Approve, Close, Pass
  <2> QED
    BY <2>1, <2>2, <2>3, <2>4, <2>5 DEF Next, Run, Looping, Pass
<1> QED
  BY <1>2, <1>3, <1>4

(* The entries of a chunk the loop has left are never written again, save  *)
(* by the executor where a split handed Ma's answer down to the chunk.     *)
THEOREM PassedEntriesRest == OwnNames => (Spec => PassedIsSettled)
<1> SUFFICES ASSUME OwnNames PROVE Spec => PassedIsSettled
  OBVIOUS
<1>1. Init => RestInv
  BY DEF Init, RestInv, Pos
<1>4. Init => CalmInv
  BY DEF Init, CalmInv, Heard
<1>5. Spec => []CalmInv
  BY <1>4, TypeInvariant, CallInvariant, JobsInvariant, SlotInvariant, AheadInvariant, CalmStep, PTL
     DEF Spec
<1>2. Spec => []RestInv
  BY <1>1, <1>5, TypeInvariant, CallInvariant, JobsInvariant, SlotInvariant, AheadInvariant, RestStep,
     PTL DEF Spec
<1>3. TypeInv /\ JobsInv /\ SlotInv /\ AheadInv /\ RestInv /\ [Next]_vars
      => [\A i \in 1..(idx - 1) : i \in DOMAIN chunks =>
            LET j == chunks[i].job
            IN  /\ approval'[j] = approval[j]
                /\ worker'[j] = worker[j] \/ Inherited(chunks[i])]_vars
  <2> SUFFICES ASSUME TypeInv, JobsInv, SlotInv, AheadInv, RestInv, [Next]_vars,
                      NEW i \in 1..(idx - 1), i \in DOMAIN chunks
               PROVE  LET j == chunks[i].job
                      IN  /\ approval'[j] = approval[j]
                          /\ worker'[j] = worker[j] \/ Inherited(chunks[i])
    OBVIOUS
  <2>1. i \in Pos /\ i < idx
    BY DEF Pos, TypeInv, TypeOK
  <2> QED
    BY <2>1, SettledRows
<1> QED
  BY <1>2, <1>3, TypeInvariant, JobsInvariant, SlotInvariant, AheadInvariant, PTL
     DEF Spec, PassedIsSettled
=============================================================================
