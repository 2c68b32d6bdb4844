------------------------ MODULE VisionService_proofs ------------------------
(***************************************************************************)
(* The recognition of documents, for every number of requests, documents   *)
(* and answers.  The settings file is always whole, and a key that was     *)
(* removed stays removed: after the removal every save that is under way   *)
(* came later and brought no key, so it finds none.  The result is         *)
(* coherent by the way the pages of a receipt are brought into the         *)
(* document, whatever the model has answered.                              *)
(***************************************************************************)
EXTENDS VisionService, FiniteSetTheorems, TLAPS

(* A removal that was answered leaves only saves that have yet to find a   *)
(* key.                                                                    *)
NoKeyUnderWay ==
    removal => /\ file = Missing
               /\ \A j \in Job : Saves(j) => job[j].at = "asked" /\ job[j].key = None

SettingsInv == SettingsOK /\ NoKeyUnderWay

(* The fields of a request, by how far it is.                              *)
LEMMA RequestFields ==
    ASSUME NEW q \in Request
    PROVE  /\ q.at \in {"idle", "asked", "writing", "written", "changed"}
           /\ q.at = "idle" <=> q = Idle
           /\ q.at \in {"writing", "written"} => q.what = "save"
           /\ q.what = "save" => q.model \in Model /\ q.key \in Key \cup {None}
           /\ q.what = "save" /\ q.at # "asked" => q.key \in Key
           /\ q.what \in {"show", "remove"} => q.model = None /\ q.key = None
           /\ q = [at |-> q.at, what |-> q.what, model |-> q.model, key |-> q.key]
           /\ q.what \in {"none", "show", "remove", "save"}
           /\ q.what = "none" <=> q.at = "idle"
  BY DEF Request, Idle

TempFor(q) == CASE q.at = "writing" -> Half([model |-> q.model, key |-> q.key])
                [] q.at = "written" -> [model |-> q.model, key |-> q.key]
                [] OTHER -> None

LEMMA TempIs ==
    (temp = [j \in Job |-> CASE job[j].at = "writing" -> Half(New(j))
                             [] job[j].at = "written" -> New(j)
                             [] OTHER -> None]) <=> temp = [j \in Job |-> TempFor(job[j])]
  BY DEF TempFor, New

(* A request goes on to q, and its temporary file with it.                 *)
LEMMA JobMoves ==
    ASSUME SettingsOK, NEW j \in Job, NEW q \in Request,
           job' = [job EXCEPT ![j] = q], temp' = [temp EXCEPT ![j] = TempFor(q)],
           file' \in Content \cup {Missing}, removal' \in BOOLEAN, UNCHANGED crashes
    PROVE  SettingsOK'
<1>1. job' \in [Job -> Request] /\ crashes' \in 0..MaxCrashes
  BY DEF SettingsOK
<1>2. temp = [i \in Job |-> TempFor(job[i])]
  BY TempIs DEF SettingsOK
<1>3. temp' = [i \in Job |-> TempFor(job'[i])]
  BY <1>2 DEF SettingsOK
<1>4. temp' = [i \in Job |-> CASE job'[i].at = "writing" -> Half(New(i)')
                               [] job'[i].at = "written" -> New(i)'
                               [] OTHER -> None]
  BY <1>3 DEF TempFor, New
<1> QED BY <1>1, <1>4 DEF SettingsOK

LEMMA SettingsStart == SettingsInit => SettingsInv
<1> SUFFICES ASSUME SettingsInit PROVE SettingsInv
  OBVIOUS
<1>1. Idle \in Request /\ crashes \in 0..MaxCrashes
  BY SettingsAssumption DEF Idle, Request, SettingsInit
<1> QED BY <1>1 DEF SettingsInit, SettingsInv, SettingsOK, NoKeyUnderWay, Idle

-----------------------------------------------------------------------------
LEMMA AskStep ==
    ASSUME SettingsInv, NEW j \in Job, NEW q \in Request, Ask(j, q)
    PROVE  SettingsInv'
<1>1. TempFor(q) = None /\ temp[j] = None
  BY DEF Ask, TempFor, SettingsInv, SettingsOK, Idle
<1>2. temp' = [temp EXCEPT ![j] = TempFor(q)]
  BY <1>1 DEF Ask, SettingsInv, SettingsOK
<1>3. SettingsOK'
  BY <1>2, JobMoves DEF Ask, SettingsInv, SettingsOK
<1>4. NoKeyUnderWay'
  <2>1. job'[j] = q /\ \A i \in Job \ {j} : job'[i] = job[i]
    BY DEF Ask, SettingsInv, SettingsOK
  <2> QED BY <2>1 DEF Ask, SettingsInv, NoKeyUnderWay, Saves
<1> QED BY <1>3, <1>4 DEF SettingsInv

LEMMA FailStep ==
    ASSUME SettingsInv, NEW j \in Job, Fail(j)
    PROVE  SettingsInv'
<1>1. Idle \in Request /\ TempFor(Idle) = None
  BY DEF Idle, Request, TempFor
<1>2. SettingsOK'
  BY <1>1, JobMoves DEF Fail, SettingsInv, SettingsOK
<1>3. job'[j] = Idle /\ \A i \in Job \ {j} : job'[i] = job[i]
  BY DEF Fail, SettingsInv, SettingsOK
<1>4. NoKeyUnderWay'
  BY <1>3 DEF Fail, SettingsInv, NoKeyUnderWay, Saves, Idle
<1> QED BY <1>2, <1>4 DEF SettingsInv

LEMMA WriteStep ==
    ASSUME SettingsInv, NEW j \in Job, Write(j)
    PROVE  SettingsInv'
<1>1. PICK k \in KeyFor(j) :
          /\ job' = [job EXCEPT ![j] = [job[j] EXCEPT !.at = "writing", !.key = k]]
          /\ Put(j, Half([model |-> job[j].model, key |-> k]))
  BY DEF Write, SettingsInv, SettingsOK
<1>2. job[j] \in Request /\ Saves(j) /\ job[j].at = "asked"
  BY DEF Write, SettingsInv, SettingsOK
<1>3. job[j].model \in Model /\ job[j].key \in Key \cup {None}
  BY <1>2, RequestFields DEF Saves
<1>4. k \in Key
  BY <1>1, <1>3 DEF KeyFor, SettingsInv, SettingsOK, Content, Missing
<1> DEFINE q == [job[j] EXCEPT !.at = "writing", !.key = k]
<1>5. job[j] \in [at : {"asked"}, what : {"save"}, model : Model, key : Key \cup {None}]
  BY <1>2 DEF Request, Saves
<1>6. /\ q \in [at : {"writing"}, what : {"save"}, model : Model, key : Key]
      /\ q.at = "writing" /\ q.model = job[j].model /\ q.key = k
  BY <1>4, <1>5
<1>7. q \in Request /\ TempFor(q) = Half([model |-> job[j].model, key |-> k])
  <2> HIDE DEF q
  <2> QED BY <1>6 DEF Request, TempFor
<1> HIDE DEF q
<1>8. SettingsOK'
  BY <1>1, <1>7, JobMoves DEF Put, Write, SettingsInv, SettingsOK, q
<1>9. ~removal
  BY <1>1, <1>2, <1>4 DEF SettingsInv, NoKeyUnderWay, KeyFor, Missing
<1> QED BY <1>8, <1>9 DEF SettingsInv, NoKeyUnderWay, Write

LEMMA FlushStep ==
    ASSUME SettingsInv, NEW j \in Job, Flush(j)
    PROVE  SettingsInv'
<1>1. job[j] \in Request /\ job[j].at = "writing"
  BY DEF Flush, SettingsInv, SettingsOK
<1>2. job[j].what = "save" /\ job[j].model \in Model /\ job[j].key \in Key
  BY <1>1, RequestFields
<1> DEFINE q == [job[j] EXCEPT !.at = "written"]
<1>3. q = [at |-> "written", what |-> "save", model |-> job[j].model, key |-> job[j].key]
  BY <1>1, <1>2, RequestFields
<1>4. q \in Request /\ TempFor(q) = New(j)
  BY <1>2, <1>3 DEF Request, TempFor, New
<1>5. job' = [job EXCEPT ![j] = q]
  BY DEF Flush, SettingsInv, SettingsOK
<1> HIDE DEF q
<1>6. SettingsOK'
  BY <1>4, <1>5, JobMoves DEF Flush, Put, SettingsInv, SettingsOK
<1>7. ~removal
  BY <1>1, <1>2 DEF SettingsInv, NoKeyUnderWay, Saves
<1> QED BY <1>6, <1>7 DEF SettingsInv, NoKeyUnderWay, Flush

(* A request that has changed the file: with what it leaves there.         *)
LEMMA ChangedStep ==
    ASSUME SettingsInv, NEW j \in Job, job' = [job EXCEPT ![j].at = "changed"],
           job[j].at \in {"asked", "written"}, job[j].at = "asked" => job[j].what = "remove",
           temp' = [temp EXCEPT ![j] = None],
           file' \in Content \cup {Missing}, removal => file' = Missing,
           UNCHANGED <<removal, crashes>>
    PROVE  SettingsInv'
<1>1. job[j] \in Request
  BY DEF SettingsInv, SettingsOK
<1> DEFINE q == [job[j] EXCEPT !.at = "changed"]
<1>2. q = [at |-> "changed", what |-> job[j].what, model |-> job[j].model, key |-> job[j].key]
  BY <1>1, RequestFields
<1>3. q \in Request
  <2>1. CASE job[j].what = "remove"
    BY <1>1, <1>2, <2>1, RequestFields DEF Request
  <2>2. CASE job[j].what = "save"
    BY <1>1, <1>2, <2>2, RequestFields DEF Request
  <2> QED BY <1>1, <2>1, <2>2, RequestFields
<1>4. TempFor(q) = None
  BY <1>2 DEF TempFor
<1>5. job' = [job EXCEPT ![j] = q]
  BY DEF SettingsInv, SettingsOK
<1> HIDE DEF q
<1>6. SettingsOK'
  BY <1>3, <1>4, <1>5, JobMoves DEF SettingsInv, SettingsOK
<1>7. ASSUME removal, NEW i \in Job, Saves(i)'
      PROVE  job'[i].at = "asked" /\ job'[i].key = None
  <2>1. CASE i = j
    <3>1. Saves(j)
      BY <1>2, <1>5, <1>7, <2>1 DEF Saves, q, SettingsInv, SettingsOK
    <3> QED BY <1>1, <1>7, <3>1, RequestFields DEF Saves, SettingsInv, NoKeyUnderWay
  <2>2. CASE i # j
    BY <1>5, <1>7, <2>2 DEF Saves, SettingsInv, SettingsOK, NoKeyUnderWay
  <2> QED BY <2>1, <2>2
<1> QED BY <1>6, <1>7 DEF SettingsInv, NoKeyUnderWay

LEMMA RenameStep ==
    ASSUME SettingsInv, NEW j \in Job, Rename(j)
    PROVE  SettingsInv'
<1>1. job[j] \in Request /\ job[j].at = "written" /\ file' = New(j)
  BY DEF Rename, SettingsInv, SettingsOK
<1>2. job[j].what = "save" /\ job[j].model \in Model /\ job[j].key \in Key
  BY <1>1, RequestFields
<1>3. file' \in Content
  BY <1>1, <1>2 DEF New, Content
<1>4. ~removal
  BY <1>1, <1>2 DEF SettingsInv, NoKeyUnderWay, Saves
<1> QED BY <1>1, <1>3, <1>4, ChangedStep DEF Rename

LEMMA UnlinkStep ==
    ASSUME SettingsInv, NEW j \in Job, Unlink(j)
    PROVE  SettingsInv'
<1>1. temp[j] = None
  BY DEF Unlink, SettingsInv, SettingsOK
<1>2. temp' = [temp EXCEPT ![j] = None]
  BY <1>1 DEF Unlink, SettingsInv, SettingsOK
<1> QED BY <1>2, ChangedStep DEF Unlink

LEMMA ShowStep ==
    ASSUME SettingsInv, NEW j \in Job, Show(j)
    PROVE  SettingsInv'
<1>1. Idle \in Request /\ TempFor(Idle) = None
  BY DEF Idle, Request, TempFor
<1>2. temp[j] = None
  BY DEF Show, SettingsInv, SettingsOK
<1>3. temp' = [temp EXCEPT ![j] = TempFor(Idle)]
  BY <1>1, <1>2 DEF Show, SettingsInv, SettingsOK
<1>4. SettingsOK'
  <2>1. removal' \in BOOLEAN
    BY DEF Show, Promise, SettingsInv, SettingsOK
  <2> QED BY <1>1, <1>3, <2>1, JobMoves DEF Show, SettingsInv, SettingsOK
<1>5. job'[j] = Idle /\ \A i \in Job \ {j} : job'[i] = job[i]
  BY DEF Show, SettingsInv, SettingsOK
<1>6. ASSUME removal'
      PROVE  /\ file' = Missing
             /\ \A i \in Job : Saves(i)' => job'[i].at = "asked" /\ job'[i].key = None
  <2>1. /\ file = Missing /\ file' = file
        /\ \A i \in Job : Saves(i) => job[i].at = "asked" /\ job[i].key = None
    BY <1>6 DEF Show, Promise, SettingsInv, NoKeyUnderWay
  <2>2. ~Saves(j)'
    BY <1>5 DEF Saves, Idle
  <2> QED BY <1>5, <2>1, <2>2 DEF Saves
<1> QED BY <1>4, <1>6 DEF SettingsInv, NoKeyUnderWay

LEMMA CrashStep ==
    ASSUME SettingsInv, Crash
    PROVE  SettingsInv'
<1>1. Idle \in Request /\ crashes' \in 0..MaxCrashes
  BY SettingsAssumption DEF Idle, Request, Crash, SettingsInv, SettingsOK
<1>2. SettingsOK'
  BY <1>1 DEF Crash, SettingsInv, SettingsOK, Idle
<1> QED BY <1>2 DEF Crash, SettingsInv, NoKeyUnderWay, Saves, Idle

LEMMA SettingsStep == SettingsInv /\ [SettingsNext]_settings => SettingsInv'
<1> SUFFICES ASSUME SettingsInv, [SettingsNext]_settings PROVE SettingsInv'
  OBVIOUS
<1>1. CASE UNCHANGED settings
  BY <1>1 DEF settings, SettingsInv, SettingsOK, NoKeyUnderWay, Saves, New
<1> QED BY <1>1, AskStep, FailStep, WriteStep, FlushStep, RenameStep, UnlinkStep, ShowStep,
           CrashStep DEF SettingsNext

(* The file is absent or whole, and a removed key stays removed - for the  *)
(* settings on their own.                                                  *)
THEOREM SettingsAreOK == SettingsSpec => [](SettingsOK /\ RemovalHolds)
<1>1. SettingsInv => SettingsOK /\ RemovalHolds
  BY DEF SettingsInv, NoKeyUnderWay, RemovalHolds
<1> QED BY <1>1, SettingsStart, SettingsStep, PTL DEF SettingsSpec
-----------------------------------------------------------------------------
(* The least and the greatest of sets of numbers.                          *)
LEMMA Least ==
    ASSUME NEW S \in SUBSET Nat, S # {}
    PROVE  Min(S) \in S /\ \A y \in S : Min(S) <= y
<1>0. \A x \in S : x \in Nat
  OBVIOUS
<1>1. PICK x \in S : \A y \in S : <<y, x>> \notin OpToRel(<, Nat)
  BY WFMin, NatLessThanWellFounded, Zenon
<1>2. \A y \in S : ~(y < x)
  BY <1>0, <1>1, Zenon DEF OpToRel
<1>3. \A y \in S : x <= y
  BY <1>0, <1>2
<1> QED BY <1>3 DEF Min

LEMMA Greatest ==
    ASSUME NEW n \in Nat, NEW S \in SUBSET (0..n), S # {}
    PROVE  Max(S) \in S /\ \A y \in S : Max(S) >= y
<1> DEFINE T == {n - x : x \in S}
<1>0. \A x \in S : x \in 0..n /\ x \in Nat /\ n - x \in Nat
  OBVIOUS
<1>1. T \in SUBSET Nat /\ T # {}
  BY <1>0
<1> HIDE DEF T
<1>2. Min(T) \in T /\ \A y \in T : Min(T) <= y
  BY <1>1, Least
<1>3. PICK x \in S : Min(T) = n - x
  BY <1>2 DEF T
<1>4. \A y \in S : n - x <= n - y
  BY <1>2, <1>3 DEF T
<1>5. \A y \in S : x >= y
  BY <1>0, <1>4
<1> QED BY <1>5 DEF Max

LEMMA MinOfTwo ==
    ASSUME NEW a \in Int, NEW b \in Int
    PROVE  Min({a, b}) = IF a <= b THEN a ELSE b
<1> DEFINE m == IF a <= b THEN a ELSE b
<1>1. m \in {a, b} /\ \A y \in {a, b} : m <= y
  OBVIOUS
<1>2. \A x \in {a, b} : (\A y \in {a, b} : x <= y) => x = m
  OBVIOUS
<1> QED BY <1>1, <1>2 DEF Min

LEMMA MaxOfTwo ==
    ASSUME NEW a \in Int, NEW b \in Int
    PROVE  Max({a, b}) = IF a >= b THEN a ELSE b
<1> DEFINE m == IF a >= b THEN a ELSE b
<1>1. m \in {a, b} /\ \A y \in {a, b} : m >= y
  OBVIOUS
<1>2. \A x \in {a, b} : (\A y \in {a, b} : x >= y) => x = m
  OBVIOUS
<1> QED BY <1>1, <1>2 DEF Max

LEMMA Clamped ==
    ASSUME NEW x \in Int, NEW low \in Int, NEW high \in Int, low <= high
    PROVE  Clamp(x, low, high) \in low..high
<1>1. Min({x, high}) \in Int /\ Min({x, high}) <= high
  BY MinOfTwo
<1> QED BY <1>1, MaxOfTwo DEF Clamp

-----------------------------------------------------------------------------
(* The pages of a receipt lie in the document.                             *)
LEMMA PagesFit ==
    ASSUME NEW r \in RawReceipt, NEW n \in Nat \ {0}
    PROVE  /\ FirstPage(r, n) \in 1..n /\ LastPage(r, n) \in FirstPage(r, n)..n
           /\ Pages(r, n) \subseteq FirstPage(r, n)..LastPage(r, n)
           /\ Pages(r, n) \subseteq 1..n
<1>1. FirstPage(r, n) \in 1..n
  <2>1. CASE Junk \in {r.start, r.end} \/ r.start \in {Unset, 0}
    BY <2>1 DEF FirstPage
  <2>2. CASE ~(Junk \in {r.start, r.end} \/ r.start \in {Unset, 0})
    <3>1. r.start \in Int
      BY <2>2 DEF RawReceipt
    <3> DEFINE x == r.start
    <3>2. x \in Int /\ n \in Int /\ 1 \in Int /\ 1 <= n
      BY <3>1
    <3> HIDE DEF x
    <3>3. Clamp(x, 1, n) \in 1..n
      BY <3>2, Clamped
    <3> QED BY <2>2, <3>3 DEF FirstPage, x
  <2> QED BY <2>1, <2>2
<1>2. LastPage(r, n) \in FirstPage(r, n)..n
  <2> DEFINE first == FirstPage(r, n)
  <2>0. first \in Int /\ first <= n /\ n \in Int
    BY <1>1
  <2> HIDE DEF first
  <2>1. CASE Junk \in {r.start, r.end} \/ r.end \in {Unset, 0}
    BY <2>0, <2>1 DEF LastPage, first
  <2>2. CASE ~(Junk \in {r.start, r.end} \/ r.end \in {Unset, 0})
    <3>1. r.end \in Int
      BY <2>2 DEF RawReceipt
    <3>2. Clamp(r.end, first, n) \in first..n
      BY <2>0, <3>1, Clamped
    <3> QED BY <2>2, <3>2 DEF LastPage, first
  <2> QED BY <2>1, <2>2
<1>3. Pages(r, n) \subseteq FirstPage(r, n)..LastPage(r, n)
  BY DEF Pages
<1> QED BY <1>1, <1>2, <1>3

(* The pages a receipt cites, within the document.                         *)
LEMMA Cited ==
    ASSUME NEW r \in RawReceipt, NEW n \in Nat, r.pages \cap (1..n) # {}
    PROVE  /\ Min(r.pages \cap (1..n)) \in 1..n
           /\ Max(r.pages \cap (1..n)) \in 1..n
<1> DEFINE valid == r.pages \cap (1..n)
<1>1. valid \in SUBSET Nat /\ valid \in SUBSET (0..n) /\ valid # {}
  OBVIOUS
<1> HIDE DEF valid
<1>2. Min(valid) \in valid /\ Max(valid) \in valid
  BY <1>1, Least, Greatest
<1> QED BY <1>2 DEF valid

LEMMA ExpandIsReceipt ==
    ASSUME NEW r \in RawReceipt, NEW n \in Nat
    PROVE  Expand(r, n) \in RawReceipt /\ Expand(r, n).malformed = r.malformed
<1> DEFINE valid == r.pages \cap (1..n)
<1>1. CASE r.malformed \/ valid = {}
  BY <1>1 DEF Expand
<1>2. CASE ~(r.malformed \/ valid = {})
  <2>1. Min(valid) \in Int /\ Max(valid) \in Int
    BY <1>2, Cited
  <2>2. Expand(r, n) = [r EXCEPT !.start = IF r.start = Unset THEN Min(valid) ELSE r.start,
                                 !.end   = IF r.end = Unset THEN Max(valid) ELSE r.end]
    BY <1>2 DEF Expand, RawReceipt
  <2> HIDE DEF valid
  <2> QED BY <2>1, <2>2 DEF RawReceipt
<1> QED BY <1>1, <1>2

\* What the result is made of.
Given(a, n, compact) == IF compact THEN Expanded(a, n) ELSE a

LEMMA ExpandedIs ==
    ASSUME NEW a \in RawAnswer, NEW n \in Nat
    PROVE  /\ Expanded(a, n) \in RawAnswer
           /\ DOMAIN Expanded(a, n).receipts = DOMAIN a.receipts
           /\ \A i \in DOMAIN a.receipts : Expanded(a, n).receipts[i] = Expand(a.receipts[i], n)
           /\ Expanded(a, n).receipts = << >> <=> a.receipts = << >>
           /\ Expanded(a, n).reviews = a.reviews /\ Expanded(a, n).reviewed = a.reviewed
           /\ Expanded(a, n).primary = a.primary /\ Expanded(a, n).status = a.status
<1> DEFINE s == [i \in DOMAIN a.receipts |-> Expand(a.receipts[i], n)]
<1>1. a.receipts \in Seq(RawReceipt) /\ DOMAIN a.receipts = 1..Len(a.receipts)
      /\ Len(a.receipts) \in Nat /\ \A i \in DOMAIN a.receipts : a.receipts[i] \in RawReceipt
  BY DEF RawAnswer
<1>2. \A i \in DOMAIN a.receipts : s[i] \in RawReceipt
  BY <1>1, ExpandIsReceipt
<1>3. s \in Seq(RawReceipt) /\ Len(s) = Len(a.receipts)
  <2>1. s \in [1..Len(a.receipts) -> RawReceipt]
    BY <1>1, <1>2
  <2> QED BY <1>1, <2>1
<1>4. Expanded(a, n) = [a EXCEPT !.receipts = s]
  BY DEF Expanded, RawAnswer
<1>5. s = << >> <=> a.receipts = << >>
  <2> HIDE DEF s
  <2> QED BY <1>1, <1>3
<1>6. DOMAIN s = DOMAIN a.receipts /\ \A i \in DOMAIN a.receipts : s[i] = Expand(a.receipts[i], n)
  OBVIOUS
<1> HIDE DEF s
<1> QED BY <1>3, <1>4, <1>5, <1>6 DEF RawAnswer

LEMMA GivenIs ==
    ASSUME NEW a \in RawAnswer, NEW n \in Nat, NEW compact \in BOOLEAN
    PROVE  Given(a, n, compact) \in RawAnswer
  BY ExpandedIs DEF Given

\* The receipt of a whole document.
WholeDocument(n) == [start |-> 1, end |-> n, pages |-> {}, malformed |-> FALSE]

LEMMA ReceiptsAre ==
    ASSUME NEW a \in RawAnswer, NEW n \in Nat
    PROVE  /\ DOMAIN Receipts(a, n) \in SUBSET Nat
           /\ \A i \in DOMAIN Receipts(a, n) : Receipts(a, n)[i] \in RawReceipt
<1>1. CASE a.receipts = << >> /\ ~a.reviewed
  <2>1. Receipts(a, n) = <<WholeDocument(n)>>
    BY <1>1 DEF Receipts, WholeDocument
  <2>2. WholeDocument(n) \in RawReceipt
    BY DEF WholeDocument, RawReceipt
  <2> QED BY <2>1, <2>2
<1>2. CASE ~(a.receipts = << >> /\ ~a.reviewed)
  BY <1>2 DEF Receipts, RawAnswer
<1> QED BY <1>1, <1>2

(* What the result is, field by field.                                     *)
LEMMA ResultIs ==
    ASSUME NEW a \in RawAnswer, NEW n \in Nat
    PROVE  /\ DOMAIN ResultOf(a, n).receipts = Kept(a, n)
           /\ \A i \in Kept(a, n) :
                 LET r == Receipts(a, n)[i]  x == ResultOf(a, n).receipts[i] IN
                 /\ x.start = FirstPage(r, n) /\ x.end = LastPage(r, n)
                 /\ x.pages = Pages(r, n)
           /\ ResultOf(a, n).primary = Primary(a, n)
           /\ ResultOf(a, n).status = StatusOf(a, n)
           /\ \A p \in 1..n : ResultOf(a, n).reviews[p] = PublishedAs(a, p)
  BY DEF ResultOf

(* The result of any answer is coherent.                                   *)
LEMMA Coherent ==
    ASSUME NEW a \in RawAnswer, NEW n \in Nat \ {0}
    PROVE  LET r == ResultOf(a, n) IN
           /\ \A i \in DOMAIN r.receipts :
                 LET x == r.receipts[i] IN
                 /\ x.start \in 1..n /\ x.end \in x.start..n
                 /\ x.pages \subseteq x.start..x.end
           /\ IF DOMAIN r.receipts = {} THEN r.primary = Unset ELSE r.primary \in DOMAIN r.receipts
           /\ r.status = "accepted" => r.primary # Unset
<1> DEFINE r == ResultOf(a, n)
<1>1. ASSUME NEW i \in Kept(a, n)
      PROVE  LET x == r.receipts[i] IN
             /\ x.start \in 1..n /\ x.end \in x.start..n /\ x.pages \subseteq x.start..x.end
  <2>1. Receipts(a, n)[i] \in RawReceipt
    BY ReceiptsAre DEF Kept
  <2> HIDE DEF r
  <2> QED BY <2>1, PagesFit, ResultIs DEF r
<1>2. Kept(a, n) \in SUBSET Nat
  BY ReceiptsAre DEF Kept
<1>3. IF Kept(a, n) = {} THEN Primary(a, n) = Unset ELSE Primary(a, n) \in Kept(a, n)
  BY <1>2, Least DEF Primary
<1>4. StatusOf(a, n) = "accepted" => Primary(a, n) # Unset
  BY DEF StatusOf
<1> HIDE DEF r
<1> QED BY <1>1, <1>3, <1>4, ResultIs DEF r

(* Answers whose receipts agree, but for malformed ones, have one result.  *)
LEMMA SameResult ==
    ASSUME NEW a \in RawAnswer, NEW b \in RawAnswer, NEW n \in Nat,
           DOMAIN Receipts(a, n) = DOMAIN Receipts(b, n),
           \A i \in DOMAIN Receipts(a, n) :
               \/ Receipts(a, n)[i] = Receipts(b, n)[i]
               \/ Receipts(a, n)[i].malformed /\ Receipts(b, n)[i].malformed,
           a.reviews = b.reviews, a.primary = b.primary, a.status = b.status
    PROVE  ResultOf(a, n) = ResultOf(b, n)
<1>1. \A p : FilteredAs(a, p) = FilteredAs(b, p) /\ PublishedAs(a, p) = PublishedAs(b, p)
  BY DEF FilteredAs, PublishedAs
<1>2. \A r : LeftOut(a, r, n) = LeftOut(b, r, n)
  BY <1>1 DEF LeftOut
<1>3. Kept(a, n) = Kept(b, n) /\ \A i \in Kept(a, n) : Receipts(a, n)[i] = Receipts(b, n)[i]
  BY <1>2 DEF Kept
<1>4. Primary(a, n) = Primary(b, n) /\ StatusOf(a, n) = StatusOf(b, n)
  BY <1>3 DEF Primary, StatusOf
<1> QED BY <1>1, <1>3, <1>4 DEF ResultOf

LEMMA FormsAgree ==
    ASSUME NEW a \in RawAnswer, NEW n \in Nat, IsCompact(a),
           \A i \in DOMAIN a.receipts : a.receipts[i].pages \subseteq 1..n
    PROVE  ResultOf(Expanded(a, n), n) = ResultOf(InFull(a), n)
<1> DEFINE f == [i \in DOMAIN a.receipts |-> WithRange(a.receipts[i])]
<1>1. a.receipts \in Seq(RawReceipt) /\ DOMAIN a.receipts = 1..Len(a.receipts)
      /\ Len(a.receipts) \in Nat /\ \A i \in DOMAIN a.receipts : a.receipts[i] \in RawReceipt
  BY DEF RawAnswer
<1>2. ASSUME NEW i \in DOMAIN a.receipts
      PROVE  /\ WithRange(a.receipts[i]) \in RawReceipt
             /\ \/ WithRange(a.receipts[i]) = Expand(a.receipts[i], n)
                \/ /\ WithRange(a.receipts[i]).malformed
                   /\ Expand(a.receipts[i], n).malformed
  <2> DEFINE r == a.receipts[i]
  <2>1. r \in RawReceipt /\ r.start = Unset /\ r.end = Unset /\ r.pages \subseteq 1..n
    BY <1>1 DEF IsCompact
  <2>2. r.pages \cap (1..n) = r.pages
    BY <2>1
  <2> HIDE DEF r
  <2>3. CASE r.pages = {}
    BY <2>1, <2>2, <2>3 DEF WithRange, Expand, r
  <2>4. CASE r.pages # {}
    <3>1. Min(r.pages) \in Int /\ Max(r.pages) \in Int
      BY <2>1, <2>2, <2>4, Cited
    <3>2. WithRange(r) = [r EXCEPT !.start = Min(r.pages), !.end = Max(r.pages)]
      BY <2>4 DEF WithRange
    <3>3. WithRange(r) \in RawReceipt /\ WithRange(r).malformed = r.malformed
      BY <2>1, <3>1, <3>2 DEF RawReceipt
    <3>4. CASE r.malformed
      BY <2>1, <3>3, <3>4, ExpandIsReceipt DEF r
    <3>5. CASE ~r.malformed
      <4>1. Expand(r, n) = [r EXCEPT !.start = IF r.start = Unset THEN Min(r.pages) ELSE r.start,
                                     !.end = IF r.end = Unset THEN Max(r.pages) ELSE r.end]
        BY <2>1, <2>2, <2>4, <3>5 DEF Expand, RawReceipt
      <4>2. Expand(r, n) = WithRange(r)
        BY <2>1, <3>2, <4>1
      <4> QED BY <3>3, <4>2 DEF r
    <3> QED BY <3>4, <3>5
  <2> QED BY <2>3, <2>4
<1>3. f \in Seq(RawReceipt) /\ Len(f) = Len(a.receipts)
  <2>1. f \in [1..Len(a.receipts) -> RawReceipt]
    BY <1>1, <1>2
  <2> QED BY <1>1, <2>1
<1>4. InFull(a) = [a EXCEPT !.receipts = f]
  BY DEF InFull, RawAnswer
<1>5. DOMAIN f = DOMAIN a.receipts /\ \A i \in DOMAIN a.receipts : f[i] = WithRange(a.receipts[i])
  OBVIOUS
<1> HIDE DEF f
<1>6. /\ InFull(a) \in RawAnswer /\ InFull(a).receipts = f
      /\ InFull(a).reviews = a.reviews /\ InFull(a).reviewed = a.reviewed
      /\ InFull(a).primary = a.primary /\ InFull(a).status = a.status
  BY <1>3, <1>4 DEF RawAnswer
<1> DEFINE e == Expanded(a, n)
           g == InFull(a)
<1>7. /\ e \in RawAnswer /\ DOMAIN e.receipts = DOMAIN a.receipts
      /\ \A i \in DOMAIN a.receipts : e.receipts[i] = Expand(a.receipts[i], n)
      /\ e.receipts = << >> <=> a.receipts = << >>
      /\ e.reviews = a.reviews /\ e.reviewed = a.reviewed
      /\ e.primary = a.primary /\ e.status = a.status
  BY ExpandedIs
<1>8. f = << >> <=> a.receipts = << >>
  BY <1>1, <1>3
<1> HIDE DEF e, g
<1>9. /\ DOMAIN Receipts(e, n) = DOMAIN Receipts(g, n)
      /\ \A i \in DOMAIN Receipts(e, n) :
             \/ Receipts(e, n)[i] = Receipts(g, n)[i]
             \/ Receipts(e, n)[i].malformed /\ Receipts(g, n)[i].malformed
  <2>1. CASE a.receipts = << >> /\ ~a.reviewed
    BY <1>6, <1>7, <1>8, <2>1 DEF Receipts, g
  <2>2. CASE ~(a.receipts = << >> /\ ~a.reviewed)
    <3>1. Receipts(e, n) = e.receipts /\ Receipts(g, n) = f
      BY <1>6, <1>7, <1>8, <2>2 DEF Receipts, g
    <3> QED BY <1>2, <1>5, <1>7, <3>1
  <2> QED BY <2>1, <2>2
<1>10. ResultOf(e, n) = ResultOf(g, n)
  BY <1>6, <1>7, <1>9, SameResult DEF g
<1> QED BY <1>10 DEF e, g
-----------------------------------------------------------------------------
(* A recognition is about a document: its images are of pages it has.      *)
AboutPages ==
    \A c \in Call :
        /\ call[c].at \in {"ready", "sent"} /\ call[c].kind # "statement" =>
               call[c].n \in 1..MaxPages /\ call[c].pages \subseteq 1..call[c].n
        /\ call[c].at = "answered" =>
               /\ call[c].pages \subseteq 1..call[c].n
               /\ call[c].compact => IsCompact(call[c].answer)

ServiceInv == SettingsInv /\ CallOK /\ AboutPages

Kinds == {"legacy", "image", "pdf_rendered", "statement"}

Ready == [at : {"ready"}, kind : Kinds, pages : SUBSET (1..MaxPages), n : 0..MaxPages,
          model : Model \cup {None}]
Sent == [at : {"sent"}, kind : Kinds, pages : SUBSET (1..MaxPages), n : 0..MaxPages, model : Model]
Done == [at : {"answered"}, pages : SUBSET (1..MaxPages), n : 1..MaxPages,
         compact : BOOLEAN, answer : Answer]

LEMMA CallOKIs == CallOK <=> call \in [Call -> {NoCall} \cup Ready \cup Sent \cup Done]
  BY DEF CallOK, Ready, Sent, Done, Kinds

(* A document that is accepted has the pages it is said to have.           *)
LEMMA PageNumbers ==
    ASSUME NEW d \in Documents, Fits(d)
    PROVE  /\ Numbers(d) \in SUBSET (1..MaxPages)
           /\ KindOf(d) \in Kinds
           /\ d.kind = "statement" => Len(d.pages) \in 0..MaxPages
           /\ d.kind # "statement" =>
                  PageCount(d) \in 1..MaxPages /\ Numbers(d) \subseteq 1..PageCount(d)
<1>1. /\ d.pages \in Seq(1..MaxPages) /\ Len(d.pages) \in Nat /\ MaxPages \in Nat \ {0}
      /\ d.single \in BOOLEAN /\ d.count \in 0..MaxPages /\ d.kind \in Kinds
  BY ServiceAssumption DEF Documents, Kinds
<1>2. ToSet(d.pages) \subseteq 1..MaxPages
  BY <1>1 DEF ToSet
<1>3. Numbers(d) \in SUBSET (1..MaxPages)
  BY <1>1, <1>2 DEF Numbers
<1>4. KindOf(d) \in Kinds
  BY <1>1 DEF KindOf, Kinds
<1>5. ASSUME d.kind = "statement" PROVE Len(d.pages) \in 0..MaxPages
  <2>1. Numbers(d) = 1..Len(d.pages)
    BY <1>5 DEF Fits, StatementFits, Complete
  <2>2. Len(d.pages) = 0 \/ Len(d.pages) \in Numbers(d)
    BY <1>1, <2>1
  <2> HIDE DEF Numbers
  <2>3. Len(d.pages) = 0 \/ Len(d.pages) \in 1..MaxPages
    BY <1>3, <2>2
  <2> QED BY <1>1, <2>3
<1>6. ASSUME d.kind # "statement"
      PROVE  PageCount(d) \in 1..MaxPages /\ Numbers(d) \subseteq 1..PageCount(d)
  <2>1. WellFormed(d)
    BY <1>6 DEF Fits, ReceiptFits
  <2>2. CASE d.single
    BY <1>1, <2>2 DEF PageCount, Numbers
  <2>3. CASE ~d.single /\ d.count > 0
    <3>1. PageCount(d) = d.count
      BY <2>3 DEF PageCount
    <3>2. d.pages # << >> => Numbers(d) \subseteq 1..d.count
      BY <1>1, <2>1, <2>3 DEF WellFormed
    <3>3. d.pages = << >> => Numbers(d) = {}
      BY <2>3 DEF Numbers, ToSet
    <3> QED BY <1>1, <2>3, <3>1, <3>2, <3>3
  <2>4. CASE ~d.single /\ ~(d.count > 0)
    <3>1. PageCount(d) = Max(Numbers(d))
      BY <2>4 DEF PageCount
    <3>2. d.pages # << >>
      BY <2>1, <2>4 DEF WellFormed
    <3>3. Len(d.pages) > 0 /\ d.pages[1] \in Numbers(d)
      BY <1>1, <2>4, <3>2 DEF Numbers, ToSet
    <3> DEFINE S == Numbers(d)
    <3>4. S \in SUBSET (0..MaxPages) /\ S # {} /\ S \in SUBSET (1..MaxPages)
      <4>1. S \in SUBSET (1..MaxPages) /\ S # {}
        BY <1>3, <3>3
      <4> HIDE DEF S
      <4> QED BY <1>1, <4>1
    <3> HIDE DEF S
    <3>5. Max(S) \in S /\ \A y \in S : Max(S) >= y
      BY <1>1, <3>4, Greatest
    <3>6. Max(S) \in 1..MaxPages /\ S \subseteq 1..Max(S)
      <4>1. \A y \in S : y \in 1..MaxPages /\ y \in Nat /\ 1 <= y
        BY <1>1, <3>4
      <4> QED BY <3>5, <4>1
    <3> QED BY <3>1, <3>6 DEF S
  <2> QED BY <1>1, <2>2, <2>3, <2>4
<1> QED BY <1>3, <1>4, <1>5, <1>6

(* A recognition goes on to q.                                             *)
LEMMA CallMoves ==
    ASSUME ServiceInv, NEW c \in Call, NEW q \in {NoCall} \cup Ready \cup Sent \cup Done,
           call' = [call EXCEPT ![c] = q], UNCHANGED settings,
           q.at \in {"ready", "sent"} /\ q.kind # "statement" =>
               q.n \in 1..MaxPages /\ q.pages \subseteq 1..q.n,
           q.at = "answered" => q.pages \subseteq 1..q.n /\ (q.compact => IsCompact(q.answer))
    PROVE  ServiceInv'
<1>1. call'[c] = q /\ \A k \in Call \ {c} : call'[k] = call[k]
  BY CallOKIs DEF ServiceInv
<1>2. CallOK'
  BY CallOKIs DEF ServiceInv, CallOK, Ready, Sent, Done, Kinds
<1>3. AboutPages'
  BY <1>1 DEF ServiceInv, AboutPages
<1>4. SettingsInv'
  BY DEF ServiceInv, settings, SettingsInv, SettingsOK, NoKeyUnderWay, Saves, New
<1> QED BY <1>2, <1>3, <1>4 DEF ServiceInv

LEMMA ReceiveStep ==
    ASSUME ServiceInv, NEW c \in Call, NEW d \in Document, Receive(c, d)
    PROVE  ServiceInv'
<1> DEFINE q == [at |-> "ready", kind |-> KindOf(d), pages |-> Numbers(d),
                 n |-> IF d.kind = "statement" THEN Len(d.pages) ELSE PageCount(d),
                 model |-> d.model]
<1>1. d \in Documents /\ Fits(d) /\ d.model \in Model \cup {None} /\ MaxPages \in Nat
  BY ServiceAssumption DEF Receive, Documents
<1>2. /\ Numbers(d) \in SUBSET (1..MaxPages) /\ KindOf(d) \in Kinds
      /\ d.kind = "statement" => Len(d.pages) \in 0..MaxPages
      /\ d.kind # "statement" =>
             PageCount(d) \in 1..MaxPages /\ Numbers(d) \subseteq 1..PageCount(d)
  BY <1>1, PageNumbers
<1>3. q.n \in 0..MaxPages
  BY <1>1, <1>2
<1>4. q \in Ready
  BY <1>1, <1>2, <1>3 DEF Ready
<1>5. q.kind # "statement" => q.n \in 1..MaxPages /\ q.pages \subseteq 1..q.n
  <2>1. CASE d.kind # "statement"
    BY <1>2, <2>1
  <2>2. CASE d.kind = "statement"
    <3>1. d.single => Len(d.pages) = 1 /\ Numbers(d) = {1}
      <4> SUFFICES ASSUME d.single PROVE Len(d.pages) = 1 /\ Numbers(d) = {1}
        OBVIOUS
      <4>1. Numbers(d) = 1..Len(d.pages) /\ Numbers(d) = {1}
        BY <1>1, <2>2 DEF Fits, StatementFits, Complete, Numbers
      <4>2. Len(d.pages) \in Nat
        BY <1>1 DEF Documents
      <4>3. 1 \in 1..Len(d.pages)
        BY <4>1
      <4>4. Len(d.pages) \in 1..Len(d.pages)
        BY <4>2, <4>3
      <4> QED BY <4>1, <4>4
    <3>2. ~d.single => q.kind = "statement"
      BY <2>2 DEF KindOf
    <3>3. MaxPages \in Nat \ {0}
      BY ServiceAssumption
    <3>4. d.single => q.n = 1 /\ q.pages = {1}
      BY <2>2, <3>1
    <3> HIDE DEF q
    <3> QED BY <3>2, <3>3, <3>4
  <2> QED BY <2>1, <2>2
<1>6. q.at = "ready" /\ call' = [call EXCEPT ![c] = q] /\ UNCHANGED settings
  BY DEF Receive
<1> HIDE DEF q
<1> QED BY <1>4, <1>5, <1>6, CallMoves

(* What is not idle is ready, sent or answered.                            *)
LEMMA CallFields ==
    ASSUME ServiceInv, NEW c \in Call
    PROVE  /\ call[c].at = "ready" => call[c] \in Ready
           /\ call[c].at = "sent" => call[c] \in Sent
           /\ call[c].at = "answered" => call[c] \in Done
  BY CallOKIs DEF ServiceInv, NoCall, Ready, Sent, Done

LEMMA SendStep ==
    ASSUME ServiceInv, NEW c \in Call, Send(c)
    PROVE  ServiceInv'
<1> DEFINE k == call[c]
           m == IF k.model = None THEN file.model ELSE k.model
           q == [k EXCEPT !.at = "sent", !.model = m]
<1>1. k \in Ready /\ file \in Content
  BY CallFields DEF Send, ServiceInv, SettingsInv, SettingsOK
<1>2. m \in Model
  BY <1>1 DEF Ready, Content
<1>3. q \in Sent /\ q.kind = k.kind /\ q.n = k.n /\ q.pages = k.pages /\ q.at = "sent"
  <2> HIDE DEF m, k
  <2> QED BY <1>1, <1>2 DEF Ready, Sent
<1>4. call' = [call EXCEPT ![c] = q] /\ UNCHANGED settings
  BY DEF Send, ModelFor, ServiceInv, CallOK
<1>5. q.kind # "statement" => q.n \in 1..MaxPages /\ q.pages \subseteq 1..q.n
  BY <1>3 DEF Send, ServiceInv, AboutPages
<1> HIDE DEF q
<1> QED BY <1>3, <1>4, <1>5, CallMoves

LEMMA AnsweredStep ==
    ASSUME ServiceInv, NEW c \in Call, NEW a \in Answer, Answered(c, a)
    PROVE  ServiceInv'
<1> DEFINE k == call[c]
           q == [at |-> "answered", pages |-> k.pages, n |-> k.n,
                 compact |-> CompactForm(c), answer |-> a]
<1>1. k \in Sent /\ k.n \in 1..MaxPages /\ k.pages \subseteq 1..k.n
  BY CallFields DEF Answered, ServiceInv, AboutPages
<1>2. CompactForm(c) \in BOOLEAN /\ (CompactForm(c) => IsCompact(a))
  BY DEF CompactForm, Answered
<1>3. q \in Done
  BY <1>1, <1>2 DEF Done, Sent
<1>4. call' = [call EXCEPT ![c] = q] /\ UNCHANGED settings
  BY DEF Answered, ServiceInv, CallOK
<1>5. q.at = "answered" /\ q.pages \subseteq 1..q.n /\ (q.compact => IsCompact(q.answer))
  BY <1>1, <1>2
<1> HIDE DEF q
<1> QED BY <1>3, <1>4, <1>5, CallMoves

LEMMA ServiceStep == ServiceInv /\ [ServiceNext]_service => ServiceInv'
<1> SUFFICES ASSUME ServiceInv, [ServiceNext]_service PROVE ServiceInv'
  OBVIOUS
<1>1. ASSUME NEW c \in Call, Refuse(c) \/ Reply(c) PROVE ServiceInv'
  <2>1. call' = [call EXCEPT ![c] = NoCall] /\ UNCHANGED settings
    BY <1>1 DEF Refuse, Reply
  <2>2. NoCall.at = "idle" /\ NoCall \in {NoCall} \cup Ready \cup Sent \cup Done
    BY DEF NoCall
  <2> QED BY <2>1, <2>2, CallMoves
<1>2. CASE SettingsNext /\ call' = IF crashes' = crashes THEN call ELSE [c \in Call |-> NoCall]
  <2>1. SettingsInv'
    BY <1>2, SettingsStep DEF ServiceInv
  <2>2. CallOK' /\ AboutPages'
    BY <1>2 DEF ServiceInv, CallOK, AboutPages, NoCall
  <2> QED BY <2>1, <2>2 DEF ServiceInv
<1>3. CASE UNCHANGED service
  <2>1. SettingsInv'
    BY <1>3, SettingsStep DEF ServiceInv, service
  <2>2. CallOK' /\ AboutPages'
    BY <1>3 DEF ServiceInv, CallOK, AboutPages, service
  <2> QED BY <2>1, <2>2 DEF ServiceInv
<1> QED BY <1>1, <1>2, <1>3, ReceiveStep, SendStep, AnsweredStep DEF ServiceNext, CallNext

LEMMA AlwaysService == ServiceSpec => []ServiceInv
<1>1. ServiceInit => ServiceInv
  <2> SUFFICES ASSUME ServiceInit PROVE ServiceInv
    OBVIOUS
  <2>1. SettingsInv
    BY SettingsStart DEF ServiceInit
  <2>2. CallOK /\ AboutPages
    BY DEF ServiceInit, CallOK, AboutPages, NoCall
  <2> QED BY <2>1, <2>2 DEF ServiceInv
<1> QED BY <1>1, ServiceStep, PTL DEF ServiceSpec

(* What an answered recognition holds.                                     *)
LEMMA AnsweredIs ==
    ASSUME ServiceInv, NEW c \in Call, IsAnswered(c)
    PROVE  /\ call[c].n \in Nat \ {0} /\ call[c].answer \in RawAnswer
           /\ call[c].compact \in BOOLEAN /\ call[c].pages \subseteq 1..call[c].n
           /\ call[c].compact => IsCompact(call[c].answer)
           /\ Result(c) = ResultOf(Given(call[c].answer, call[c].n, call[c].compact), call[c].n)
<1>1. call[c] \in Done
  BY CallFields DEF IsAnswered
<1>2. call[c].n \in 1..MaxPages /\ call[c].answer \in RawAnswer /\ MaxPages \in Nat
  BY <1>1, ServiceAssumption DEF Done
<1> QED BY <1>1, <1>2 DEF Done, ServiceInv, AboutPages, IsAnswered, Result, Given

-----------------------------------------------------------------------------
(* Everything keeps its domain: the settings file is absent or whole at    *)
(* every moment, and a recognition is one of a document that was accepted. *)
THEOREM ServiceIsOK == ServiceSpec => []ServiceOK
<1>1. ServiceInv => ServiceOK
  BY DEF ServiceInv, SettingsInv, ServiceOK
<1> QED BY <1>1, AlwaysService, PTL

(* Once a removal was answered with no key stored and no save under way,   *)
(* none comes back by itself.  A removal that is answered while a save is  *)
(* under way promises nothing: that save may have read the key             *)
(* (vision.py:261) and store it again (296).                               *)
THEOREM RemovedKeysStayRemoved == ServiceSpec => []RemovalHolds
<1>1. ServiceInv => RemovalHolds
  BY DEF ServiceInv, SettingsInv, NoKeyUnderWay, RemovalHolds
<1> QED BY <1>1, AlwaysService, PTL

(* Whatever the model answers, the result cites pages of the document and  *)
(* names one of its receipts as the primary one.                           *)
THEOREM ResultsAreCoherent == ServiceSpec => []ResultIsCoherent
<1>1. ASSUME ServiceInv, NEW c \in Call, IsAnswered(c)
      PROVE  LET r == Result(c)  n == call[c].n IN
             /\ call[c].pages \subseteq 1..n
             /\ \A i \in DOMAIN r.receipts :
                   LET x == r.receipts[i] IN
                   /\ x.start \in 1..n /\ x.end \in x.start..n
                   /\ x.pages \subseteq x.start..x.end
             /\ IF DOMAIN r.receipts = {} THEN r.primary = Unset ELSE r.primary \in DOMAIN r.receipts
             /\ r.status = "accepted" => r.primary # Unset
  <2> DEFINE n == call[c].n
             a == Given(call[c].answer, n, call[c].compact)
  <2>1. n \in Nat \ {0} /\ a \in RawAnswer /\ Result(c) = ResultOf(a, n)
        /\ call[c].pages \subseteq 1..n
    BY <1>1, AnsweredIs, GivenIs
  <2> HIDE DEF n, a
  <2> QED BY <2>1, Coherent DEF n
<1>2. ServiceInv => ResultIsCoherent
  BY <1>1 DEF ResultIsCoherent
<1> QED BY <1>2, AlwaysService, PTL

(* The compact form of an answer and the full one have the same result.    *)
THEOREM FormsAlwaysAgree == ServiceSpec => []BothFormsAgree
<1>1. ASSUME ServiceInv, NEW c \in Call, IsAnswered(c), call[c].compact,
             \A i \in DOMAIN call[c].answer.receipts :
                 call[c].answer.receipts[i].pages \subseteq 1..call[c].n
      PROVE  Result(c) = ResultOf(InFull(call[c].answer), call[c].n)
  <2> DEFINE n == call[c].n
             a == call[c].answer
  <2>1. n \in Nat /\ a \in RawAnswer /\ IsCompact(a) /\ Result(c) = ResultOf(Expanded(a, n), n)
    BY <1>1, AnsweredIs DEF Given
  <2>2. \A i \in DOMAIN a.receipts : a.receipts[i].pages \subseteq 1..n
    BY <1>1
  <2> HIDE DEF n, a
  <2> QED BY <2>1, <2>2, FormsAgree DEF n, a
<1>2. ServiceInv => BothFormsAgree
  BY <1>1 DEF BothFormsAgree
<1> QED BY <1>2, AlwaysService, PTL
=============================================================================
