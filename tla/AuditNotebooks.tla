--------------------------- MODULE AuditNotebooks ---------------------------
(***************************************************************************)
(* The working memory of an agentic audit: for each of the two agents a    *)
(* notebook of derived facts, bounded in bytes, and a list of tasks,       *)
(* bounded in entries.  Both are written by the thread of the run and by   *)
(* its executor, under one lock, are published at every change of a task,  *)
(* and come back in a later round of the same run, when the documents may  *)
(* have changed.  This module is the memory of one agent; what a task      *)
(* stands for is AgenticAudit's business.                                  *)
(***************************************************************************)
EXTENDS Integers, Sequences, SequencesExt, FiniteSets

CONSTANTS
    Source,         \* documents and transactions
    Order,          \* the order in which the inventory lists them
    Weight,         \* kind of entry -> its size
    Huge,           \* pairs of a source and a version with oversized details
    MaxBytes,       \* size of a notebook (8 MiB)
    TaskId,         \* tasks
    MaxTasks,       \* entries of a task list (512)
    MaxVersion,     \* bound: versions of a source
    MaxRounds       \* bound: rounds

Version == 1..MaxVersion
Kind    == {"basic", "details", "summary", "result"}

ASSUME NotebooksAssumption ==
    /\ Order \in Seq(Source) /\ ToSet(Order) = Source
    /\ Weight \in [Kind -> Nat \ {0}]
    /\ Huge \subseteq Source \X Version
    /\ MaxBytes \in Nat /\ MaxTasks \in Nat \ {0}
    /\ MaxVersion \in Nat \ {0} /\ MaxRounds \in Nat \ {0}

VARIABLES
    source,     \* source -> version of its content in this round
    entries,    \* the notebook, oldest entry first
    tasks,      \* the task list, oldest entry first
    served,     \* the facts handed out last in this round, a set of at most one
    round

vars == <<source, entries, tasks, served, round>>

\* "ended" stands for completed, partial, blocked, cancelled, failed and
\* superseded, "active" for the other statuses.
Status == {"active", "ended"}

\* A fingerprint says which content of which sources an entry was made from.
PrintOf(S) == [x \in S |-> source[x]]

Prints == UNION {[S -> Version] : S \in SUBSET Source}

\* An entry is found by its kind and the sources it is about.
Entry == [kind : Kind, of : SUBSET Source, print : Prints, content : Prints]

Task == [id : TaskId, status : Status]

Init ==
    /\ source \in [Source -> {1}]
    /\ entries = << >> /\ tasks = << >> /\ served = {}
    /\ round = 1

-----------------------------------------------------------------------------
(* The notebook.                                                           *)
Weigh(e) == IF e.kind = "details" /\ \E x \in e.of : <<x, e.print[x]>> \in Huge
            THEN MaxBytes + 1 ELSE Weight[e.kind]

Total(s) == FoldSeq(LAMBDA e, n : Weigh(e) + n, 0, s)

(* fit_book: the oldest entries go until the rest fits.                    *)
\* Faulty variant: only one entry goes.
FitByOne(s) == IF Total(s) <= MaxBytes THEN s ELSE Tail(s)

Fits(s) == Total(s) <= MaxBytes

From(s, k) == SubSeq(s, k + 1, Len(s))

Fit(s) == LET gone == CHOOSE k \in 0..Len(s) :
                         Fits(From(s, k)) /\ \A j \in 0..(k - 1) : ~Fits(From(s, j))
          IN From(s, gone)

Made(kind, S) == [kind |-> kind, of |-> S, print |-> PrintOf(S), content |-> PrintOf(S)]

SameKey(e, kind, S) == e.kind = kind /\ e.of = S

\* The position of the entry with a key, or 0.
Cached(s, kind, S) == SelectInSeq(s, LAMBDA e : SameKey(e, kind, S))

\* No key is there twice (TypeOK), so it is enough that one entry goes.
Dropped(s, kind, S) == RemoveFirstMatch(s, LAMBDA e : SameKey(e, kind, S))

\* All projections of a source, in whatever kind of entry of its own.
Without(s, x) == Dropped(Dropped(s, "basic", {x}), "details", {x})

(* put: an entry too big for an empty notebook is refused, which leaves an *)
(* older entry of the same key where it is.                                *)
\* Faulty variant: the older entry stays as well.
PutBeside(s, e) == IF Weigh(e) > MaxBytes THEN Fit(s) ELSE Fit(Append(s, e))

Put(s, e) ==
    IF Weigh(e) > MaxBytes THEN Fit(s)
    ELSE Fit(Append(Dropped(s, e.kind, e.of), e))

(* facts: a cached entry answers only if its fingerprint is the source's.  *)
\* Faulty variant: a cached entry always answers.
HitByKey(kind, x) == Cached(entries, kind, {x}) # 0

Hit(kind, x) == LET at == Cached(entries, kind, {x})
                IN  at # 0 /\ entries[at].print = PrintOf({x})

Facts(kind, x) ==
    LET old == Cached(entries, kind, {x})
        rest == IF old = 0 THEN entries ELSE Without(entries, x)
        new == Made(kind, {x})
        answer == IF Hit(kind, x) THEN entries[old] ELSE new
    IN /\ entries' = IF Hit(kind, x) THEN entries ELSE Put(rest, new)
       /\ served' = {[kind |-> kind, of |-> {x}, content |-> answer.content]}
       /\ UNCHANGED <<source, tasks, round>>

(* The results of a stage, of all sources at once: searches, observations, *)
(* assessments.  They are written again whenever the stage is.             *)
PutResult ==
    /\ entries' = Put(entries, Made("result", Source))
    /\ UNCHANGED <<source, tasks, served, round>>

(* register_inventory: as facts for every source in turn, without moving   *)
(* the entries that are still good; the summary is replaced in place.      *)
Registered(s, x) ==
    LET old == Cached(s, "basic", {x})
        new == Made("basic", {x})
    IN IF old # 0 /\ s[old].print = new.print THEN s
       ELSE LET rest == IF old = 0 THEN s ELSE Without(s, x)
            IN IF Weigh(new) > MaxBytes THEN rest ELSE Append(rest, new)

\* The notebook once the first i sources are registered.
Inventory[i \in 0..Len(Order)] ==
    IF i = 0 THEN entries ELSE Registered(Inventory[i - 1], Order[i])

Summarised(s) ==
    LET new == Made("summary", Source) IN
    IF Weigh(new) > MaxBytes THEN s
    ELSE IF Cached(s, "summary", Source) = 0 THEN Append(s, new)
    ELSE [i \in DOMAIN s |-> IF SameKey(s[i], "summary", Source) THEN new ELSE s[i]]

-----------------------------------------------------------------------------
(* The task list.  A new task takes the place of the first that has ended; *)
(* when none has, the list is left alone and the run gets an error.        *)
Positions(id) == {i \in DOMAIN tasks : tasks[i].id = id}

\* Faulty variant: the oldest entry goes, ended or not.
RemovableAny == {1}

Removable == {i \in DOMAIN tasks : tasks[i].status = "ended"}

Listed(id, status) ==
    LET new == [id |-> id, status |-> status]
        first == CHOOSE i \in Removable : \A j \in Removable : i <= j
    IN IF Positions(id) # {} THEN [i \in DOMAIN tasks |-> IF i \in Positions(id) THEN new ELSE tasks[i]]
       ELSE IF Len(tasks) < MaxTasks THEN Append(tasks, new)
       ELSE IF Removable = {} THEN tasks
       ELSE Append(RemoveAt(tasks, first), new)

SetTask(id, status) ==
    /\ tasks' = Listed(id, status)
    /\ UNCHANGED <<source, entries, served, round>>

OrganizeInventory(id) ==
    /\ entries' = Fit(Summarised(Inventory[Len(Order)]))
    /\ tasks' = Listed(id, "ended")
    /\ UNCHANGED <<source, served, round>>

(* A later round of the same run brings back what a round published, and   *)
(* of another run nothing.  It may begin from any state: what the round    *)
(* before does after the snapshot was taken no longer matters.  The        *)
(* documents may have changed meanwhile.                                   *)
NewRound ==
    /\ round < MaxRounds /\ round' = round + 1
    /\ source' \in [Source -> Version]
    /\ \A x \in Source : source'[x] >= source[x]
    /\ \/ entries' = Fit(entries) /\ UNCHANGED tasks
       \/ entries' = << >> /\ tasks' = << >>
    /\ served' = {}

Next ==
    \/ \E kind \in {"basic", "details"}, x \in Source : Facts(kind, x)
    \/ PutResult
    \/ \E id \in TaskId :
          \/ OrganizeInventory(id)
          \/ \E status \in Status : SetTask(id, status)
    \/ NewRound

Spec == Init /\ [][Next]_vars

-----------------------------------------------------------------------------
(* Everything in its domain, one entry for a key and one for a task.  The  *)
(* list of tasks and the notebook are within their bounds after every      *)
(* operation, be it one entry put, a whole inventory or a notebook brought *)
(* back ("字节数 <= 8*1024*1024", docs/master-worker-audit.md:56).           *)
TypeOK ==
    /\ source \in [Source -> Version]
    /\ entries \in Seq(Entry)
    /\ \A i, j \in DOMAIN entries : SameKey(entries[i], entries[j].kind, entries[j].of) => i = j
    /\ Fits(entries)
    /\ tasks \in Seq(Task) /\ Len(tasks) <= MaxTasks
    /\ \A i, j \in DOMAIN tasks : tasks[i].id = tasks[j].id => i = j
    /\ served \subseteq [kind : Kind, of : SUBSET Source, content : Prints]
    /\ round \in 1..MaxRounds

(* What is handed out is what the source says in this round, although the  *)
(* notebook holds entries of earlier rounds, some of them of documents     *)
(* that changed, and evictions take one projection of a source and leave   *)
(* the other ("内容变化使基本/详细投影失效", docs/master-worker-audit.md:63). *)
FactsAreFresh == \A f \in served : f.content = PrintOf(f.of)

(* An active task is never taken from the list within a round: only ended  *)
(* ones make room ("已结束任务可整条淘汰", docs/master-worker-audit.md:60).    *)
ActiveTasksStay ==
    [][round' = round =>
         \A i \in DOMAIN tasks : tasks[i].status = "active" =>
             \E j \in DOMAIN tasks' : tasks'[j].id = tasks[i].id]_vars
=============================================================================
