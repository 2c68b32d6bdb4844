# Verification of omni_ai_controller

TLA+ models of the controller in `src/omni_ai_controller`, the TLC runs that
check them and TLAPS proofs about them.  Every definition is translated from
the Python source; `PROJECT.json` maps each one to the lines it stands for.

To check everything:

    tlc -workers 2 -config <run>.cfg <module>.tla      # the runs of PROJECT.json
    tlapm <module>.tla                                 # *_proofs, AgenticAudit_jobs

## 1. The system and its parts

The controller is one Python process with a threading HTTP server
(`service.py`): every request has a thread of its own.  It talks to a local
model server (`client.py`), to a PostgreSQL database (accounts, conversations,
Mutsu's control data, metrics) and to an external vision service.  What happens at the
same time: request threads, one executor thread inside each audit run, a
metrics thread, administrators' browsers, the audit server that calls
`/internal/audit/*`, and whoever restarts the process.

| Part | State | Operations | Interacts with | Where it is hard |
|---|---|---|---|---|
| **Agentic audit run** `agentic_audit.py` | plan, chunks, position in them, Ma's evidence, Li's assessments, used and locked ids, three lists of task statuses | plan, cut into chunks, prepare, ask Ma, ask Li, approve, split, give up, skip, block, sweep | its executor, the two model roles, the registry | two threads write one status list; cancellation and deadline at any moment; truncation and timeouts change the list that is iterated |
| **Registry of runs** `_PROGRESS`, `AUDIT_SKILL_LOCK`, `service.py:918-947` | 32 snapshots by run id, a lock, the handler's polling | begin, publish, cancel (by the handler or by `/internal/audit/cancel`), read back steps, wait for the lock | all runs, the legacy skill, the handler of each call | eviction, a repeated call of one run, a handler that outlives its client |
| **Notebooks and task lists** `audit_notebooks.py`, `audit_inventory.py` | a bounded notebook and a bounded task list for each agent | facts, put, register inventory, set task, resume | the run, the next round of the run | stale entries after a document changed, eviction order, limits |
| **Stored conversations** `conversation_store.py`, `mutsu_control.py`, `service.py:1240-1390` | conversation rows, messages, the mark `support_run_id` | create, rename, delete, start/finish of a chat, start/finish/fail of a Mutsu turn | the model between two transactions, behaviour events | deletion or restart during the model call, two messages at once, a commit whose answer is lost |
| **Administrator accounts and sessions** `admin_account_store.py`, `admin_session.py`, `service.py:400-520`, `scripts/bootstrap-admin.py` | account rows with a version, throttle counters, cookies | bootstrap, login, create, permissions, token, password, delete | request threads | a login overlaps changes of its row; lost counts; a version that starts again |
| **Vision settings** `vision.py:225-327`, `service.py:682-713` | one JSON file, a temporary file of each save | save model, save key, remove key, show | request threads, recognitions | read-modify-write without a lock, a crash while writing |
| **Mutsu control** `mutsu_control_store.py`, `mutsu_control.py` | settings with a revision, two catalogues, numbered events | load, save settings, save entry, record, page | browser windows, chats | optimistic locking, a limit of 100 under concurrent saves, paging while events commit out of order |
| **Hardware metrics** `metric_store.py` | running averages by bucket in four resolutions, a collector thread | record, prune, chart | sensors, the dashboard | averages over missing samples, deletion against charts that still need a bucket |
| **Model client** `client.py` | none between requests | request, stream | every model call | read timeouts against a total budget, cancellation inside a stream, streams cut in the middle |
| Service control `admin.py`, `runtime.py` | one non-blocking lock | start, stop, restart | Docker | none beyond the lock |
| Legacy audit skill `audit_skill.py` | none | reconcile | `AUDIT_SKILL_LOCK` | shares the lock |
| **Vision recognition, bank statements** `vision.py:330-841`, `receipt_wire.py`, `bank_statement.py` | none between requests | one request, the result made of the answer | external service, vision settings | answers nobody vouches for: missing ranges, pages that do not exist, receipts filtered after one was called the primary |
| Command line, configuration, deployment | none shared | | | |

What makes each part correct:

* *Run.*  No transaction or receipt is decided twice; a reimbursement group is
  decided as a whole or not at all; a match rests on what Ma saw; what is
  settled is not sent again; a task waits for the tasks it depends on; a
  result without an error code left nothing out; whatever fails, the run ends,
  with nothing active and the decisions already made intact.
* *Registry.*  One run at a time works with the models; each call sees its own
  cancellation, its own deadline and its own steps; a cancelled call gives the
  lock up.
* *Notebooks.*  Handed-out facts are those of the document as it is now; the
  bounds hold and only the oldest, or ended, entries pay for them.
* *Conversations.*  What the client is told agrees with what is stored;
  question and answer of a Mutsu conversation are never separated; the mark is
  held exactly as long as somebody is answering.
* *Accounts.*  A session stops working when the account changes; every wrong
  login counts; more wrong answers than the throttle allows get through only
  while they are checked side by side; there is one super administrator.
* *Vision settings.*  The file is whole or absent at every moment; a key that
  was removed does not come back by itself.
* *Recognition.*  Whatever the cloud model answers, the result is coherent: its
  receipts cite pages of the document, its primary receipt is among them, and
  its status does not call for one that was left out.
* *Mutsu control.*  No window overwrites settings it has not seen; catalogues
  stay within their bound; paging misses nothing.
* *Metrics.*  What a bucket and a chart say is true of the samples taken.
* *Model client.*  A request ends, with the whole answer or with an error.

## 2. Modules

| Module | Models | Extends / composed with |
|---|---|---|
| `AuditRelations` | candidates, groups, relations, `_remaining_candidates`, `_kernel_relations`, `_worker_evidence`, the test in `_approved_decisions` | pure operators |
| `AgenticAudit` | one run from the moment it holds the lock | extends `AuditRelations` |
| `AuditLedger` | abstract: a ledger of decisions that grows, is consistent and is sealed | instantiated in `AgenticAudit` as `Ledger` |
| `AuditRuns` | calls side by side: `_PROGRESS`, the lock, the handlers | |
| `AuditNotebooks` | the memory of one agent across rounds | |
| `Conversations` | both kinds of conversation and their handlers | |
| `AdminAccounts` | accounts, logins, sessions, management calls | |
| `VisionSettings` | the settings file and the requests that change it | |
| `ReceiptResult` | the result made of an answer about a document | pure operators |
| `VisionService` | recognitions of documents and statements | extends `VisionSettings` (whose file it reads while it changes) and `ReceiptResult` |
| `MutsuControl` | settings, catalogues and events of Mutsu | |
| `HardwareMetrics` | collector, buckets, deletion, charts | |
| `ModelRequest` | abstract: a request that ends with the whole answer or an error | instantiated in `ModelStream` as `Contract` |
| `ModelStream` | `_request_stream` against a server that sends what it likes | |
| `Parts` | the four parts above that share no state with any other, each run through while the others rest | extends `VisionService`, `MutsuControl`, `HardwareMetrics`, `ModelStream` |
| `MCParts` | constants of the hardware history | extends `Parts` and `MCVision` (constants of `VisionService`) |
| `MC*` | constants for TLC | each extends its module |
| `*_proofs` | theorems | each extends its module and `TLAPS` |
| `AgenticAudit_jobs` | theorems about candidates and jobs on their way through the list of chunks | extends `AgenticAudit_proofs` |

Definitions marked "Faulty variant" are used by no specification.  Each is one
plausible slip in the code; the "mutants" of `PROJECT.json` say which
definition it replaces and which property then fails, which shows that the
property watches that code.

### AgenticAudit

`pc` follows the run's thread: `plan` and `commands` (the planner's request
and the first part of `_scoped_jobs`, command by command), `schedule` (its
topological order and `_worker_chunks`), `loop` (`while batch_index <= len(chunks)`), then for
a chunk `prepare/submit/await` (the executor), `ma`, `prefetch/presubmit` (the
next chunk goes to the executor), `li`, `approve` (`_approved_decisions`,
decision by decision) and back; `closing` is the `finally` part with the
executor's shutdown, the release of the lock and the sweep, `ended` the
return.  `call` is the request under way and has two stages because
`check_active` and the sending are two steps.  `planner`, `worker` and
`approval` are the three families of task-list entries; `future` is the
one-slot `ThreadPoolExecutor`, whose thread takes steps of its own
(`PrepareStart`, `PrepareEnd`).  `Cancel` and `Expire` may happen at any time.

Abstracted: texts and amounts; token budgets (`Layouts` lets any chunk be the
one that met its budget, so every cut the code can make is a behaviour);
the plan's priorities (any ready task may be next); the fields of reports.
The kernel that produces the candidates is outside the repository;
`GroupAssumption` says what `_kernel_relations` needs of its groups.

### AuditRuns

One call of `/internal/audit/agentic` is a thread (`Begin` to `Finish`) and a
handler.  `Arrive` is the request; then the handler watches its client: `Notice`
sees that it is gone, `Cancel` calls `cancel_audit_run`, once a second until the
thread is done, `Abort` is `CancelledError`, after which the handler is gone and
the thread goes on, and `Reply` is the answer.  `CancelRun` is
`/internal/audit/cancel/{run_id}`, which may come while the client waits.  A
client may leave (`Disconnect`) and a deadline pass (`Expire`).  `order` and
`snap` are the `OrderedDict` `_PROGRESS`: a publication moves its key to the end
and drops the first one beyond `Capacity`; a dropped snapshot is created anew by
the next publication of its run, without deadline, status and cancellation.
The work between acquiring and releasing the lock is reduced to what the
snapshot sees: checks, requests, publications of steps, the five ways to leave
the `with` block.  `AgenticAudit` is the detail of that work; the two meet in the
stop flags (`Cancel`/`Expire` there, `CancelAuditRun`/`Expire` here) and in the
published steps.

A registry of bounded size cannot promise everything to everybody, and the
properties say what it does promise: a call is `Undisturbed` if, while it was
under way, at most `Capacity - 1` other runs were, and no other call of its own
run.  Runs that ended before do not count, although their snapshots stay until
they are dropped.  `beside` and `stopped` are history, for the properties only:
the calls under way at the same time, and the calls that the cancel endpoint
stopped.

### AuditNotebooks

`entries` is `notebook["entries"]`, oldest first; an entry is a kind, the
sources it is about, a fingerprint (the version of each source) and a content.
`Facts` is `facts` with its cache test, `Put` and `Fit` are `put` and
`fit_book`, `OrganizeInventory` is `register_inventory` with the summary,
`Listed` is `set_task`, `NewRound` is the resumption of what a round
published, with documents that may have changed.

### Conversations

Each transaction is one step, because each locks the conversation's row first;
a transaction commits, is refused, or commits without the controller learning
of it (`Outcome`).  Between them the handler calls the model (`ask`) or fails;
`Prepare`, `Fail` and `Clear` are the parts of `send_mutsu_message` (service.py:1329)
around it, with its `finally` clause.  `Crash` loses every handler and keeps
the database.

### AdminAccounts

A login takes four steps (`Admit` the throttle, `LookUp` the SELECT, `Verify`
the password and the UPDATE it leads to, `Answer` the cookie), because other
requests act between them.  A management call takes two (`Allow` the session
and permission check, `Act` the statement).  A cookie is the account, the
version of the row that was read, and, for the properties only, what the row
said (`of`).  The database gives every row a new id; names may come back.
`wrong` counts wrong logins independently of the row, for the properties only;
`recent` is `login_attempts`, one counter for each name.

### VisionSettings, ReceiptResult, VisionService

A save is `Ask`, `Write` (the read of the current file and the temporary file,
half written), `Flush` (fsync), `Rename`, and `Show`, the answer, which reads
the file once more; `Unlink` removes it; `Fail` and `Crash` come anywhere.
`removal` remembers, for the property only, that a removal was answered with no
key stored while no save was under way.

A recognition is `Receive` (the checks of `analyze_receipt`,
`recognize_document` or `analyze_bank_statement`), `Send` (the credentials, read
once), `Answered` and `Reply`, or `Refuse` at any point.  `ResultOf` is the rest
of `recognize_document`: it depends on the pages an answer cites, the receipts
and reviews it lists, its primary receipt and its status, and nothing else of
the answer is in the model.  `Expand` is `expand_receipt_result`.

### MutsuControl

A save is a transaction in two steps: its statement, which locks the row of the
settings (the UPDATE itself, or SELECT ... FOR UPDATE) and draws the number of
its event, and its commit or rollback.  Chats record events without that lock.
`Open` and `Turn` are a window that asks for events page by page.

### HardwareMetrics

`Sample` is `record_snapshot`, all four resolutions in one transaction; `Prune`
the deletion every twelfth sample; `Restart` the collector's thread starting
anew.  Averages are exact fractions.  `Point` is the query of `history`.
`sampled` keeps every sample, for the property only.  `CodeFits` is an
assumption that TLC evaluates about the numbers of the code itself: each chart
finds its buckets kept, cuts none in two and stays within the query's LIMIT.

### ModelStream

`wire` holds the lines that were sent and not read, `tail` what is after them:
silence, a line that has begun and goes on (`trickle`) or stopped (`stalled`),
or the end of the connection.  `Check` is the test before every line, `ReadLine`
the loop's body, `ReadTimeout` the socket's timeout, which is what is left of
the budget.  `Contract` maps it to `ModelRequest`.

## 3. Runs

| Run | Question | Properties |
|---|---|---|
| `audit_safety` | safety of a first round | `TypeOK`, `NoDoubleUse`, `WholeRelations`, `MatchesAreFounded`, `SettledIsNotSent`, `DependenciesFirst`, `CompletedMeansReviewed`, `QuietAfterStop`, `PassedIsSettled` |
| `audit_later_round` | a later round refines the ledger and ends | `KeepsLedger`, `Termination` |
| `runs_registry` | the registry drops snapshots, but not those of calls it has room for | `TypeOK`, `OneAtATime`, `RunningIsProcessing`, `StopsForCause`, `ApprovedIsKept` |
| `runs_live` | nobody keeps the lock for ever | `AbandonedGivesUpLock`, `EveryCallEnds` |
| `conversations` | chats overlapping with failures, a restart and deletions | `TypeOK`, `TurnsAreWhole`, `MarkStays`, `MarkGoesAway` |
| `accounts` | logins overlapping with changes of the account | `TypeOK`, `SessionsAreCurrent`, `LockFollowsFailures`, `OneSuper`, `BoundedGuesses` |
| `notebooks` | caches and bounds over three rounds | `TypeOK` (with the bound of the notebook), `FactsAreFresh`, `ActiveTasksStay` |
| `parts` | settings and recognition, Mutsu's control data, metrics, a streamed request | `TypeOK`, `RemovalHolds`, `ResultIsCoherent`, `BothFormsAgree`, `PagingIsComplete`, `HistoryIsTrue`, `NoLostUpdate`, `KeepsPromise` |
| `audit_stale_approval`, `audit_empty_task`, `runs_retry_cancel`, `conversations_stuck` | statements of the repository that the code does not keep (section 6) | one each, violated |

### Bounds and why they are enough

* **audit_safety**: three transactions, three receipts, five candidates.  `t1`
  and `t2` compete for `r1`, `t2` has the alternative `r2`, and `r2` is also in
  the two-receipt group of `t3`: so a match can settle part of a later chunk,
  a whole one, or a member of a group.  The commands leave a candidate over
  (the kernel's own task appears), slice a group, and depend on each other.
  Claims and verdicts include false, doubtful and half-group ones.
  `MaxChunkTx = 2` makes chunks that can be split, `MaxChunks = 3` reaches the
  limit at which they are given up instead.  2 transactions and 4 candidates are
  the code's own limits; its 128 chunks are 3 here.
* **audit_later_round**: the same with a receipt confirmed earlier, which
  breaks the group (`Kernel` drops it whole), and with approvals that an
  earlier round left behind.
* **runs_registry**: three calls of three runs, of which at most two are under
  way at once (`AtOnce`), a registry of two snapshots, and one legacy request.
  When the third run begins, the registry is full and drops a snapshot: that of
  a run that ended, or, if the third call overlaps first one and then the other,
  that of a call still running, which is then not `Undisturbed`.  The code's
  numbers are 32 snapshots and as many calls as threads serve.  One assessment,
  so that a partial result differs from a whole one; one incident (a client
  leaves, a handler is aborted, a run is cancelled, a deadline passes), since the
  properties are about who is hit by it.  Without the condition
  `RunningIsProcessing` is violated in this instance.
* **runs_live**: two calls of two runs and two incidents, which may hit one call
  or both.  **runs_retry_cancel**: two calls of one run.
* **conversations**: three kinds of rivals for one Mutsu conversation (two
  messages and a general request that names it) and two chats in one general
  conversation.  `Window = 2` is shorter than the longest conversation, so the
  window moves.  One failed or unheard transaction and one restart, at any
  point.
* **accounts**: three ids, so that the super administrator, a user and a user
  created again under the same name exist; two login threads; `LockAt = 2` so
  that a lock needs wrong logins of both; `MaxVersion = 2` gives a version that
  was raised and one that starts again.
* **notebooks**: a notebook of four units with entries of one and two, so that
  basic and detailed entries of two sources, the summary and a result cannot
  all stay; one version with details that never fit; a list of two tasks out
  of three; three rounds and three versions, so that a document changes twice.

* **parts** runs four specifications side by side, each while the other three
  rest in their initial states: the parts share no variable, so nothing can
  happen in a mixture that does not happen in one of them, and the states add up
  instead of multiplying.  *Vision*: two requests about the settings, so that a
  removal meets a save, one crash, one recognition; documents of up to two
  pages, well and badly formed; answers with pages out of the document, no
  ranges, inverted ranges, two reviews of one page, receipts that are none.
  *Control*: two windows, one recorder, a catalogue with one place, pages of two
  events, three events, so that one page is full and the next is not.
  *Metrics*: buckets of 1, 2 and 4 seconds kept for 2, 3 and 6, charts with
  display periods of one and of two buckets, deletion every second sample: a
  bucket is deleted while others of its chart are drawn.  *Stream*: two pieces, two marks, two
  lines on the wire at once, and lines that say nothing without limit.

Symmetry is used for ids, handlers, scripts and passwords in `accounts` and
for tasks in `notebooks`, which check safety properties only.  Deadlock is not
checked: every one of these systems may stop when requests, rounds or bounds
are used up.

### Fairness

* `AgenticAudit!FairSpec`: weak fairness of the run's thread and of its
  executor.  Both are operating-system threads nobody suspends; a request is
  always answered, because reading has a timeout (`client.py`).  `Cancel` and
  `Expire` are not fair, so `Termination` does not rest on being stopped.
* `AuditRuns!FairSpec`: weak fairness of every thread, of a handler's
  cancellation and answer once they are due, and of the legacy request's release.
  Clients need neither call nor leave and the clock need not move.  A thread waiting for the lock with weak fairness only
  may starve behind others that take it again, but each call takes it once,
  and `runs_live` has no legacy request.
  `EveryCallEnds` states the deadline's passing as its hypothesis: without it
  a call that splits and retries is bounded only in `AgenticAudit`.
* `Conversations!Spec`: weak fairness of the handlers of Mutsu messages, which
  run to their end unless the process dies.  `MarkGoesAway` excuses exactly
  the restart and the two transactions whose failure the code only logs.
* `ModelStream!StreamFairness`: the client runs, the budget passes, and a line
  that has begun ends.  The last is an assumption about the server, and the code
  needs it: the time is checked between lines and the timeout of a read begins
  anew with every byte, so a line that arrives byte by byte for ever would hold
  the request beyond its budget.  Nothing is assumed of a server that is silent,
  stops in the middle of a line, or never stops sending lines that say nothing.

## 4. Proofs

Proved for every value of the constants that satisfies the named assumptions
(`CandidateAssumption`, `GroupAssumption`, `RunAssumption`, `RunsAssumption`,
`ConversationsAssumption`, `AccountsAssumption`, `SettingsAssumption`,
`ServiceAssumption`, `ControlAssumption`, `StreamAssumption`, `NotebooksAssumption`,
`MetricsAssumption`), with no step left open:

| Theorem | States | Argument |
|---|---|---|
| `AgenticAudit_proofs!TypeCorrect` | `TypeOK` | with `InRange`: while a chunk is worked on, `idx` points at one |
| `AgenticAudit_proofs!DecidedOnce` | `NoDoubleUse` | `UsedInv`: everything decided is in `used`, with which the next decision is compared |
| `AgenticAudit_proofs!GroupsDecidedWhole` | `WholeRelations` | `WholeInv`: scopes and chunks hold the kernel mates of their members, and normalising, cutting, filtering and splitting keep it; so a relation of a chunk is one of the kernel |
| `AgenticAudit_proofs!StopIsQuiet` | `QuietAfterStop` | from `OneLateSubmission` (`LateInv`: the one late submission leaves the thread where the next thing it reads is a stop flag) and `EndIsQuiet` (the sweep runs when the executor is idle, and no step follows it) |
| `AgenticAudit_proofs!SettledStaysHome` | `SettledIsNotSent` | `SettledInv`: a chunk is filtered when it starts, and nothing is locked while it is under way |
| `AgenticAudit_proofs!RunKeepsLedger` | `KeepsLedger` | refinement: `Conclude` is `Record`, `Close` is `Seal`, every other step stutters; consistency comes from the two invariants above |
| `AgenticAudit_jobs!NothingIsLeftOut` | `CompletedMeansReviewed` | `CoverInv`: until an error or a reason for manual review appears, what is to do of the kernel is in a task not cut yet, in a chunk not passed yet, or was assessed; the two halves of a split hold all of it because a chunk is finite and `Rank` numbers it |
| `AgenticAudit_jobs!MatchesRestOnEvidence` | `MatchesAreFounded`, if `OwnNames` | `FoundedInv`: an assessed chunk was passed and is unchanged; Ma's observations are forgotten only of a chunk that is split, which is another one because jobs differ (`JobsInv`: two chunks of one task share no transaction) |
| `AgenticAudit_jobs!DependenciesAreFirst` | `DependenciesFirst`, if `OwnNames` and `FirstRound` | `DepInv`: only jobs of passed chunks are approved; a completed task has no chunk that is not; a chunk under way had its dependencies ready when it began, and a task whose entry is written meanwhile is its own |
| `AgenticAudit_jobs!PassedEntriesRest` | `PassedIsSettled`, if `OwnNames`: the entries of a chunk the loop has left are not written again, save Ma's entry of a chunk to which a split handed her answer down (`Inherited`), which the executor may still overwrite | `SlotInv` (when the executor's slot is free and Ma's answer is there), `OwnInv` (what Ma answered herself is about the chunk under way or one the loop has left, so an answer that is reused was handed down), `AheadInv` (what is being prepared is the chunk under way, or one to come that will wait for it, or one that inherited its answer), `CalmInv` (while a chunk is assessed Ma's entry of it is closed, unless it inherited her answer), `RestInv` (entries of passed chunks are closed) |
| `AuditRuns_proofs!TypeCorrect` | `TypeOK` | inductive as it is |
| `AuditRuns_proofs!MutualExclusion` | `OneAtATime` | inductive with `TypeOK` |
| `AuditRuns_proofs!RunningIsCancellable`, `StopHasCause`, `AnswersAreComplete` | `RunningIsProcessing`, `StopsForCause`, `ApprovedIsKept`, of calls that are `Undisturbed` | `RegistryInv`: a run is once in the order (`Once`); `beside` holds at least the calls under way with one (`Cohort`); and while an undisturbed call runs, only runs under way beside it come after it in the order (`Late`). Those are fewer than `Capacity`, so the order is too short to drop it (`Roomy`, a pigeonhole argument with `FS_Injection`), and `Private` says what a call's snapshot, its ending and its result have to do with each other. A call that arrives meanwhile may end the condition, never restore it (`StaysUndisturbed`) |
| `Conversations_proofs!TypeCorrect` | `TypeOK` | with `Sorted`: only messages to Mutsu prepare, record, fail and clear |
| `Conversations_proofs!MarkIsKept` | `MarkStays` | every step of a request treats its conversation in one of five ways (`Touch`), and a mark is set only where there is none and taken back only by its owner |
| `Conversations_proofs!TurnsStayWhole` | `TurnsAreWhole` | `MarkedLast`: the last message of a marked conversation is the question that holds the mark; `Story`: what a request has left in its conversation, by how far it is; conversations only grow at their end, so what others left stays (`TracesKept`) |
| `AdminAccounts_proofs!TypeCorrect` | `TypeOK` | every step treats every row in one of five ways (`Evolves`) and every login in one of four (`Moves`) |
| `AdminAccounts_proofs!OldSessionsAreVoid` | `SessionsAreCurrent` | `Followed`: whoever read a row, be it a cookie or a login still checking the password, saw a version not above the present one, and the present facts if it is the same; `Evolves` keeps that for each row |
| `AdminAccounts_proofs!LockIsExact` | `LockFollowsFailures` | `CountsRight`: every step leaves a row's count and lock alone, or counts a wrong login in both the row and `wrong`, or clears both |
| `AdminAccounts_proofs!OneSuperOnly` | `OneSuper` | `NamesDiffer`: names of rows are unique, and a row is the super administrator exactly if it is called Mutsu |
| `AdminAccounts_proofs!GuessesAreBounded` | `BoundedGuesses` | inductive, because of what a step may do (`Throttles`): let one in while the count is below the limit, or answer one in flight and count it at most once |
| `VisionService_proofs!ServiceIsOK`, `RemovedKeysStayRemoved` | `ServiceOK`, `RemovalHolds` | first for `SettingsSpec` (`SettingsAreOK`), with `NoKeyUnderWay`: after a removal that was answered with no key stored and no save under way, no save has a key in hand; a step of `VisionService` takes a step of the settings or none |
| `VisionService_proofs!ResultsAreCoherent`, `FormsAlwaysAgree` | `ResultIsCoherent`, `BothFormsAgree` | lemmas about `FirstPage`, `LastPage`, `Pages`, `Kept`, `Primary` and `Expand` for every answer, then `AboutPages`: a recognition is about pages its document has |
| `Parts_proofs!ControlIsOK` | `ControlOK` | with `Roomy` (the entry about to be committed was counted) and `Handed` (numbers of open transactions have been drawn); cardinalities from `FiniteSetTheorems` |
| `Parts_proofs!UpdatesAreKept` | `NoLostUpdate` | `Compared`: who shows the present revision shows the present settings, and while a settings transaction is open nobody else commits one |
| `Parts_proofs!PagesAreComplete` | `PagingIsComplete` | a page holds every event between its least and the bound below which it was asked for; a short page holds all of them |
| `Parts_proofs!StreamIsOK` | `StreamOK` | inductive with `InOrder` (what was heard and what is on the wire are, in order, what was said) and `MarksAgree` (the end mark is last) |
| `Parts_proofs!StreamKeepsSafety` | the safety part of `KeepsPromise` | refinement: `Dial` is `Ask`, a piece sent is `Speak`, the second mark is `Conclude`, closing is `Deliver` or `Refuse`, every other step stutters; an answer is whole by `InOrder` and `MarksAgree` |
| `Parts_proofs!MetricsAreOK`, `HistoryStaysTrue` | `MetricsOK` (a row begins no later than now and counts no more samples than were stored), `HistoryIsTrue` | `Retained`: a sample is in its bucket of every resolution, or the bucket has expired; so a bucket that is entered for the first time has no earlier sample, because none is kept for less than its own width. `RowsAreTrue`: the running average stays between the values and, if none is missing, is their mean (`RowFirst`, `RowStep`); a chart's bar is made of whole buckets (`StartNested`) |
| `Parts_proofs!PartsCompose`, `PartsAreOK`, `PartsKeepTheirWord` | `TypeOK` of `Parts`, and the safety properties of the four together | a step of `Parts` is for each part a step of its own or a stutter |
| `AuditNotebooks_proofs!TypeCorrect` | `TypeOK` (bounds and unique keys) | with `Honest`: an entry's content is what its fingerprint names. Each operation of the notebook yields a list that is well formed (`DroppedGood`, `PutGood`, `RegisteredGood`, `SummarisedGood`), and what evicts, one that fits (`FitGood`) |
| `AuditNotebooks_proofs!FactsStayFresh` | `FactsAreFresh` | a cached entry answers only if its fingerprint is the source's, and by `Honest` its content is then the source's |
| `AuditNotebooks_proofs!ActiveStay` | `ActiveTasksStay` | only an ended task is taken out, and every other keeps its entry (`ListedGood`) |

Two hypotheses are named in `AgenticAudit_jobs`.  `OwnNames` says that none of
Li's commands calls its task `kernel-unassigned`, the name of the task the code
adds for what the plan left out (agentic_audit.py:816-822).  The code accepts
such a command, and then two tasks of one name may have jobs of one name, so that
one writes the other's entries; nothing is said of that case.  `FirstRound` says
that no approval was persisted by an earlier round; `audit_stale_approval` shows
what those do.  `audit_safety` satisfies both.

`SessionsAreCurrent` alone is not inductive: a login that has read the row and
not yet answered is invisible to it.  Nor is `NoDoubleUse` (it says nothing of
`used`), `WholeRelations` (it says nothing of the chunks) or `TurnsAreWhole` (it
says nothing of a question whose answer is still to come), `FactsAreFresh` (of
entries not handed out yet) or `HistoryIsTrue` (of samples whose bucket is gone).

`Inventory`, the registration of all sources one after the other, and the
library's `MapThenSumSet` and `MapThenFoldSet`, by which a history is summed up,
are defined by recursion.  That a function with such a definition exists is
itself proved (`InventoryExists`, `FoldExists`), by taking the least number, or
the smallest subset (`Descent`), for which there were none.  The same argument
gives what is said of their values: a total takes its elements in any order
(`TotalTake`), and an average lies between the bounds of what is averaged
(`MeanHolds`).  `Total`, the size of a notebook, is not looked into: eviction
needs only that the empty notebook fits (`NothingFits`).

Only model-checked: everything temporal beyond safety (`Termination`,
`EveryCallEnds`, `AbandonedGivesUpLock`, `MarkGoesAway` and the ending of
`KeepsPromise` need fairness and `ENABLED`, which the prover does not handle),
and the properties not in the table.

## 5. Hazards

`PROJECT.json` lists them at their lines, with the properties that watch them.
A note says what a property does not cover: two calls of one run id and more runs
at once than the registry holds (`RunningIsProcessing` and `StopsForCause` fail of
them), the eviction of a completed task that a later job depends on, two reviews
of one page, a save of the model that began before the key was removed.

## 6. Where the code differs from what the repository says

* `audit_stale_approval`: `finish_parent` reads `approve:` entries that a
  resumed notebook brought from the round before, so a task is reported
  completed before its jobs of this round ran ("no fabricated completion",
  agentic_audit.py:836).
* `audit_empty_task`: a task whose scope has no candidate left has no job, so
  its entry stays `pending` and tasks that depend on it are blocked; only
  unknown and circular dependencies should be
  (docs/master-worker-audit.md:12-13).
* `runs_retry_cancel`: a handler cancels by run id, every second while its client
  is gone and once when it is aborted; all calls of a run share a snapshot, which
  each of them resets, so another call of the run is cancelled although its own
  client waits ("The parent audit no longer waits for this run.",
  agentic_audit.py:58).
* `conversations_stuck`: the mark of a Mutsu message survives a restart, a
  commit that was not heard of, and a failed clean-up; the administrator is
  then told for ever that his previous message is being answered
  (conversation_store.py:494).

Two numbers in README.md:179-184 (8 candidates to a chunk, 30 chunks) are not
the code's (4 and 128, agentic_audit.py:38-41); the constants of the models are
parameters, so nothing here depends on them.

Of less weight, without a run: after a truncated answer Ma's observations are
handed to the halves of a chunk so that she is not asked again
(docs/master-worker-audit.md:25-26), but they are looked up by the exact
candidates (agentic_audit.py:1035); if a match meanwhile removes one, she is
asked once more.  A save of the vision model that is under way while the key is
removed writes the key back (vision.py:261, 296), although README.md:152 says that
the removal takes effect at once; `RemovalHolds` says what does hold.  A chart
averages the buckets of a period without weighing them (metric_store.py:183),
so its point is not the mean of the samples; it lies between them.

## 7. What is not modelled

* Service control (`admin.py`, `runtime.py`): one non-blocking lock around one
  external command; the state is Docker's.
* The legacy audit skill beyond its use of the lock, and the classification of a
  voucher (`voucher_classifier.py`): one call to a model and checks of the form
  of its answer, without state.
* The command line and deployment: no state shared with anything.
* HTTP and JSON parsing, prompts and schemas, sensors, texts, amounts and dates
  (of receipts, transactions, candidates): data that no property tells apart.
* The password confirmation for the laboratory (service.py:1008-1036): one row
  read and a counter of its own, in one request.
* `MetricCollector.start` after `stop`: the service does each once
  (service.py:341-349); the thread that outlives a stop is a daemon and ends with
  the process.
* Reading and listing of conversations, accounts, skills and capabilities.
* The notebooks are checked beside the run, not within it: that a completed task
  may be evicted while a later job depends on it is not a behaviour of
  `AgenticAudit`.

What could come next: two calls of one run id in full and the notebooks within the
run.
