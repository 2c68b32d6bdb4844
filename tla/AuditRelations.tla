--------------------------- MODULE AuditRelations ---------------------------
(***************************************************************************)
(* The deterministic kernel's candidates, the relations they stand for and *)
(* what may be claimed or decided about them: the pure part of             *)
(* agentic_audit.py.  A candidate pairs one transaction with some receipts *)
(* and may belong to a reimbursement group, whose receipts only make sense *)
(* together.  Identifiers, amounts, dates and texts are abstracted away.   *)
(***************************************************************************)
EXTENDS Integers, FiniteSets

CONSTANTS
    Transaction,        \* transaction identifiers
    Receipt,            \* receipt identifiers
    Group,              \* reimbursement group identifiers
    NoGroup,            \* the group of a candidate that has none
    Source,             \* candidates the kernel put in the context
    TxOf,               \* candidate -> its transaction
    ReceiptsOf,         \* candidate -> its receipts
    GroupOf,            \* candidate -> its group, or NoGroup
    ConfirmedTx,        \* transactions an earlier round confirmed
    ConfirmedReceipt    \* receipts an earlier round confirmed

ASSUME CandidateAssumption ==
    /\ NoGroup \notin Group
    /\ IsFiniteSet(Source)
    /\ TxOf \in [Source -> Transaction]
    /\ ReceiptsOf \in [Source -> SUBSET Receipt]
    /\ GroupOf \in [Source -> Group \cup {NoGroup}]
    /\ ConfirmedTx \subseteq Transaction
    /\ ConfirmedReceipt \subseteq Receipt

-----------------------------------------------------------------------------
(* Candidates that belong to the same reimbursement group.                 *)
Mates(c, d) ==
    /\ GroupOf[c] # NoGroup
    /\ GroupOf[d] = GroupOf[c]
    /\ TxOf[d] = TxOf[c]

(* The kernel that makes the candidates is not part of this repository.    *)
(* Groups reach it with one candidate for each receipt, or at least with a *)
(* receipt of its own for each candidate.                                  *)
ASSUME GroupAssumption ==
    \A c \in Source : GroupOf[c] # NoGroup =>
        \E r \in ReceiptsOf[c] : \A d \in Source : d # c /\ Mates(c, d) => r \notin ReceiptsOf[d]

(* The candidates of S that touch a locked transaction or receipt, or have *)
(* a group mate in S that does: a group is kept or dropped as a whole.     *)
Touches(c, tx, rc) == TxOf[c] \in tx \/ ReceiptsOf[c] \cap rc # {}

\* Faulty variant: each candidate is judged alone, which slices groups.
RemainingAlone(S, tx, rc) == {c \in S : ~ Touches(c, tx, rc)}

Remaining(S, tx, rc) ==
    {c \in S : /\ ~ Touches(c, tx, rc)
               /\ \A d \in S : Mates(c, d) => ~ Touches(d, tx, rc)}

(* The candidates a round works on.                                        *)
Kernel == Remaining(Source, ConfirmedTx, ConfirmedReceipt)

(* A set of candidates that holds every kernel mate of its members.        *)
GroupClosed(S) == \A c \in S, d \in Kernel : Mates(c, d) => d \in S

Txs(S) == {TxOf[c] : c \in S}

-----------------------------------------------------------------------------
(* What a set of candidates asserts: a transaction, the receipts that go   *)
(* with it and the group they form.                                        *)
Relation == [tx : Transaction, ids : SUBSET Receipt, group : Group \cup {NoGroup}]

RelationOf(c, S) ==
    [tx    |-> TxOf[c],
     ids   |-> IF GroupOf[c] = NoGroup
               THEN ReceiptsOf[c]
               ELSE UNION {ReceiptsOf[d] : d \in {e \in S : Mates(c, e)}},
     group |-> GroupOf[c]]

KernelRelations(S) == {RelationOf(c, S) : c \in S}

(* An observation of the evidence worker: the relation it is about, and    *)
(* whether it is solid (a finding, some evidence and nothing unresolved).  *)
Observation == [rel : Relation, solid : BOOLEAN]

WorkerEvidence(claims, S) == {o \in claims : o.rel \in KernelRelations(S)}

-----------------------------------------------------------------------------
(* A decision of the planner; "sure" stands for a confidence of at least   *)
(* .88.                                                                    *)
Recommendation == {"match", "suggest", "leave_unmatched"}

Decision == [rec : Recommendation, tx : Transaction, ids : SUBSET Receipt, sure : BOOLEAN]

About(o, d) == o.rel.tx = d.tx /\ o.rel.ids = d.ids

\* Faulty variants: receipts may be shared; the worker's doubts are ignored.
AcceptableShared(d, observations, S, usedTx, usedRc) ==
    /\ d.tx \in Txs(S) /\ d.tx \notin usedTx
    /\ d.ids # {} => \E o \in WorkerEvidence(observations, S) : About(o, d)
    /\ d.rec = "match" => d.ids # {} /\ d.sure

AcceptableDoubtful(d, observations, S, usedTx, usedRc) ==
    AcceptableShared(d, observations, S, usedTx, usedRc) /\ d.ids \cap usedRc = {}

(* The planner's decision d about the candidates S is kept, given the      *)
(* worker's observations and what earlier decisions used.                  *)
Acceptable(d, observations, S, usedTx, usedRc) ==
    /\ d.tx \in Txs(S)
    /\ d.tx \notin usedTx
    /\ d.ids \cap usedRc = {}
    /\ d.ids # {} => \E o \in WorkerEvidence(observations, S) : About(o, d)
    /\ d.rec = "match" =>
         /\ d.ids # {}
         /\ d.sure
         /\ \E o \in WorkerEvidence(observations, S) : About(o, d) /\ o.solid
=============================================================================
