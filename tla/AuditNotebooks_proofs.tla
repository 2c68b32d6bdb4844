------------------------ MODULE AuditNotebooks_proofs ------------------------
(***************************************************************************)
(* The memory of an agent, for every number of sources, weights and        *)
(* bounds.  Whatever an operation does to a notebook, it does by taking    *)
(* entries away, by replacing one and by adding one whose key is not       *)
(* there: so no key is there twice, and an entry always says what its      *)
(* fingerprint stands for.                                                 *)
(***************************************************************************)
EXTENDS AuditNotebooks, SequenceTheorems, WellFoundedInduction, TLAPS

\* No two entries of one key.
Distinct(s) == \A i, j \in DOMAIN s : SameKey(s[i], s[j].kind, s[j].of) => i = j

\* Every entry says what its sources said when it was made.
Honest(s) == \A i \in DOMAIN s : s[i].content = s[i].print

Good(s) == s \in Seq(Entry) /\ Distinct(s) /\ Honest(s)

Lacks(s, kind, S) == \A i \in DOMAIN s : ~SameKey(s[i], kind, S)

TypeInv == TypeOK /\ Honest(entries)

-----------------------------------------------------------------------------
(* A set of numbers that is not empty has a least one.                     *)
LEMMA LeastNumber ==
    ASSUME NEW S \in SUBSET Nat, S # {}
    PROVE  \E x \in S : \A y \in S : x <= y
<1>0. \A x \in S : x \in Nat
  OBVIOUS
<1>1. PICK x \in S : \A y \in S : <<y, x>> \notin OpToRel(<, Nat)
  BY WFMin, NatLessThanWellFounded, Zenon
<1>2. \A y \in S : ~(y < x)
  BY <1>0, <1>1, Zenon DEF OpToRel
<1>3. \A y \in S : x <= y
  BY <1>0, <1>2
<1> QED
  BY <1>3

(* An empty notebook weighs nothing.                                       *)
LEMMA NothingFits == Fits(<< >>)
<1> DEFINE iter == CHOOSE g : g = [S \in SUBSET {} |->
                       IF S = {} THEN 0
                       ELSE Weigh(<< >>[CHOOSE x \in S : TRUE]) + g[S \ {CHOOSE x \in S : TRUE}]]
<1>1. Total(<< >>) = iter[{}]
  <2>1. DOMAIN << >> = {}
    OBVIOUS
  <2> QED
    BY <2>1 DEF Total, FoldSeq, FoldFunction, FoldFunctionOnSet, MapThenFoldSet
<1>2. iter = [S \in SUBSET {} |->
                  IF S = {} THEN 0
                  ELSE Weigh(<< >>[CHOOSE x \in S : TRUE]) + iter[S \ {CHOOSE x \in S : TRUE}]]
  <2> DEFINE g == [S \in SUBSET {} |-> 0]
  <2>1. g = [S \in SUBSET {} |->
                 IF S = {} THEN 0
                 ELSE Weigh(<< >>[CHOOSE x \in S : TRUE]) + g[S \ {CHOOSE x \in S : TRUE}]]
    OBVIOUS
  <2> HIDE DEF g
  <2> QED
    BY <2>1
<1> HIDE DEF iter
<1>3. iter[{}] = 0
  BY <1>2
<1> QED
  BY <1>1, <1>3, NotebooksAssumption DEF Fits

(* A search finds the entry of a key, if there is one.                     *)
LEMMA CachedFinds ==
    ASSUME NEW s \in Seq(Entry), NEW kind, NEW S
    PROVE  /\ Cached(s, kind, S) = 0 => Lacks(s, kind, S)
           /\ Cached(s, kind, S) # 0 =>
                Cached(s, kind, S) \in DOMAIN s /\ SameKey(s[Cached(s, kind, S)], kind, S)
<1> DEFINE at == {i \in 1..Len(s) : SameKey(s[i], kind, S)}
<1>1. Cached(s, kind, S) = IF at # {} THEN Min(at) ELSE 0
  BY DEF Cached, SelectInSeq
<1>2. at \in SUBSET Nat /\ DOMAIN s = 1..Len(s)
  BY LenProperties
<1>3. at # {} => Min(at) \in at
  <2> HIDE DEF at
  <2> QED
    BY <1>2, LeastNumber DEF Min
<1> QED
  BY <1>1, <1>2, <1>3 DEF Lacks

(* What is left when an entry goes is good, and lacks its key.             *)
LEMMA DroppedGood ==
    ASSUME NEW s, Good(s), NEW kind, NEW S
    PROVE  /\ Good(Dropped(s, kind, S))
           /\ Lacks(Dropped(s, kind, S), kind, S)
           /\ \A k, T : Lacks(s, k, T) => Lacks(Dropped(s, kind, S), k, T)
<1>0. s \in Seq(Entry) /\ Len(s) \in Nat /\ DOMAIN s = 1..Len(s)
  BY LenProperties DEF Good
<1>1. CASE Lacks(s, kind, S)
  <2>1. Dropped(s, kind, S) = s
    BY <1>0, <1>1 DEF Lacks, Dropped, RemoveFirstMatch
  <2> QED
    BY <1>1, <2>1
<1>2. CASE ~Lacks(s, kind, S)
  <2> DEFINE n == Cached(s, kind, S)
             d == Dropped(s, kind, S)
  <2>1. n \in 1..Len(s) /\ SameKey(s[n], kind, S)
    BY <1>0, <1>2, CachedFinds
  <2>2. d = SubSeq(s, 1, n - 1) \o SubSeq(s, n + 1, Len(s))
    BY <1>0, <1>2 DEF Lacks, Dropped, RemoveFirstMatch, RemoveAt, Cached
  <2> DEFINE a == SubSeq(s, 1, n - 1)
             b == SubSeq(s, n + 1, Len(s))
  <2> HIDE DEF n, d
  <2>3. a \in Seq(Entry) /\ Len(a) = n - 1 /\ \A i \in 1..(n - 1) : a[i] = s[i]
    BY <1>0, <2>1, SubSeqProperties
  <2>4. b \in Seq(Entry) /\ Len(b) = Len(s) - n /\ \A i \in 1..(Len(s) - n) : b[i] = s[n + i]
    <3>1. n + 1 \in 1..(Len(s) + 1) /\ Len(s) \in n..Len(s)
      BY <1>0, <2>1
    <3>2. b \in Seq(Entry) /\ Len(b) = (IF n + 1 <= Len(s) THEN Len(s) - (n + 1) + 1 ELSE 0)
      BY <1>0, <3>1, SubSeqProperties
    <3>3. Len(b) = Len(s) - n
      <4>1. n \in Nat /\ n <= Len(s) /\ Len(s) \in Nat
        BY <1>0, <2>1
      <4>2. n + 1 <= Len(s) => Len(s) - (n + 1) + 1 = Len(s) - n
        BY <4>1
      <4>3. ~(n + 1 <= Len(s)) => 0 = Len(s) - n
        BY <4>1
      <4> QED
        BY <3>2, <4>2, <4>3
    <3>4. \A i \in 1..(Len(s) - n) : b[i] = s[(n + 1) + i - 1]
      BY <1>0, <2>1, <3>1, SubSeqProperties
    <3>5. \A i \in 1..(Len(s) - n) : (n + 1) + i - 1 = n + i
      BY <1>0, <2>1
    <3> QED
      BY <3>2, <3>3, <3>4, <3>5
  <2>5. /\ d \in Seq(Entry) /\ Len(d) = Len(s) - 1 /\ DOMAIN d = 1..(Len(s) - 1)
        /\ \A i \in 1..(Len(s) - 1) : d[i] = IF i < n THEN s[i] ELSE s[i + 1]
    <3>0. d = a \o b
      BY <2>2
    <3> HIDE DEF a, b
    <3>1. d \in Seq(Entry) /\ Len(d) = Len(s) - 1
      <4>1. d \in Seq(Entry) /\ Len(d) = Len(a) + Len(b)
        BY <2>3, <2>4, <3>0, ConcatProperties
      <4> QED
        BY <1>0, <2>1, <2>3, <2>4, <4>1
    <3>2. DOMAIN d = 1..(Len(s) - 1)
      BY <3>1, LenProperties
    <3>3. ASSUME NEW i \in 1..(Len(s) - 1) PROVE d[i] = IF i < n THEN s[i] ELSE s[i + 1]
      <4>1. CASE i < n
        <5>1. i \in 1..(n - 1) /\ i <= n - 1
          BY <1>0, <2>1, <4>1
        <5>2. d[i] = a[i]
          BY <1>0, <2>1, <2>3, <2>4, <3>0, <5>1, ConcatProperties
        <5> QED
          BY <2>3, <4>1, <5>1, <5>2
      <4>2. CASE ~(i < n)
        <5>1. i - (n - 1) \in 1..(Len(s) - n) /\ ~(i <= n - 1) /\ n + (i - (n - 1)) = i + 1
          BY <1>0, <2>1, <4>2
        <5>2. d[i] = b[i - (n - 1)]
          BY <1>0, <2>1, <2>3, <2>4, <3>0, <5>1, ConcatProperties
        <5> QED
          BY <2>4, <4>2, <5>1, <5>2
      <4> QED
        BY <4>1, <4>2
    <3> QED
      BY <3>1, <3>2, <3>3
  <2> DEFINE o(i) == IF i < n THEN i ELSE i + 1
  <2>6. /\ \A i \in DOMAIN d : o(i) \in DOMAIN s /\ o(i) # n /\ d[i] = s[o(i)]
        /\ \A i, j \in DOMAIN d : o(i) = o(j) => i = j
    BY <1>0, <2>1, <2>5
  <2> HIDE DEF o
  <2>7. Distinct(d) /\ Honest(d)
    BY <2>6 DEF Good, Distinct, Honest
  <2>8. Lacks(d, kind, S)
    <3> SUFFICES ASSUME NEW i \in DOMAIN d, SameKey(d[i], kind, S) PROVE FALSE
      BY DEF Lacks
    <3>1. SameKey(s[o(i)], s[n].kind, s[n].of)
      BY <2>1, <2>6 DEF SameKey
    <3> QED
      BY <1>0, <2>1, <2>6, <3>1 DEF Good, Distinct
  <2>9. \A k, T : Lacks(s, k, T) => Lacks(d, k, T)
    BY <2>6 DEF Lacks
  <2> QED
    BY <2>5, <2>7, <2>8, <2>9 DEF Good, d
<1> QED
  BY <1>1, <1>2

(* An entry whose key is not there may be added.                           *)
LEMMA AppendGood ==
    ASSUME NEW s, Good(s), NEW e \in Entry, e.content = e.print, Lacks(s, e.kind, e.of)
    PROVE  Good(Append(s, e))
<1>0. s \in Seq(Entry) /\ Len(s) \in Nat /\ DOMAIN s = 1..Len(s)
  BY LenProperties DEF Good
<1>1. /\ Append(s, e) \in Seq(Entry) /\ DOMAIN Append(s, e) = 1..(Len(s) + 1)
      /\ \A i \in 1..Len(s) : Append(s, e)[i] = s[i]
      /\ Append(s, e)[Len(s) + 1] = e
  BY <1>0, AppendProperties, LenProperties
<1>2. \A i \in 1..(Len(s) + 1) : i \in 1..Len(s) \/ i = Len(s) + 1
  BY <1>0
<1>3. \A i \in 1..Len(s) : ~SameKey(s[i], e.kind, e.of) /\ ~SameKey(e, s[i].kind, s[i].of)
  BY <1>0 DEF Lacks, SameKey
<1> QED
  BY <1>0, <1>1, <1>2, <1>3 DEF Good, Distinct, Honest

(* The oldest entries go until the rest fits: at the latest, all of them.  *)
LEMMA FitGood ==
    ASSUME NEW s, Good(s)
    PROVE  Good(Fit(s)) /\ Fits(Fit(s))
<1> DEFINE few == {k \in 0..Len(s) : Fits(From(s, k))}
           gone == CHOOSE k \in 0..Len(s) :
                       Fits(From(s, k)) /\ \A j \in 0..(k - 1) : ~Fits(From(s, j))
<1>0. s \in Seq(Entry) /\ Len(s) \in Nat /\ DOMAIN s = 1..Len(s)
  BY LenProperties DEF Good
<1>1. From(s, Len(s)) = << >>
  BY <1>0, SubSeqEmpty DEF From
<1>2. few \in SUBSET Nat /\ Len(s) \in few
  BY <1>0, <1>1, NothingFits
<1>3. PICK k \in few : \A j \in few : k <= j
  <2> HIDE DEF few
  <2> QED
    BY <1>2, LeastNumber
<1>4. k \in 0..Len(s) /\ Fits(From(s, k)) /\ \A j \in 0..(k - 1) : ~Fits(From(s, j))
  BY <1>0, <1>3
<1>5. gone \in 0..Len(s) /\ Fits(From(s, gone)) /\ Fit(s) = From(s, gone)
  BY <1>4 DEF Fit
<1> HIDE DEF gone
<1> DEFINE d == From(s, gone)
<1>6. gone + 1 \in Int /\ Len(s) \in Int /\ \A i \in (gone + 1)..Len(s) : s[i] \in Entry
  BY <1>0, <1>5
<1>7. d \in Seq(Entry)
  BY <1>6, SubSeqProperties DEF From
<1>8. DOMAIN d = 1..(Len(s) - gone)
  <2>1. Len(d) = IF gone + 1 <= Len(s) THEN Len(s) - (gone + 1) + 1 ELSE 0
    BY <1>6, SubSeqProperties DEF From
  <2>2. gone \in Nat /\ gone <= Len(s) /\ Len(s) \in Nat
    BY <1>0, <1>5
  <2>3. /\ gone + 1 <= Len(s) => Len(s) - (gone + 1) + 1 = Len(s) - gone
        /\ ~(gone + 1 <= Len(s)) => 0 = Len(s) - gone
    BY <2>2
  <2> QED
    BY <1>7, <2>1, <2>3, LenProperties
<1>9. \A i \in 1..(Len(s) - gone) : d[i] = s[gone + i] /\ gone + i \in DOMAIN s
  <2>1. \A i \in 1..(Len(s) - (gone + 1) + 1) : d[i] = s[(gone + 1) + i - 1]
    BY <1>6, SubSeqProperties DEF From
  <2>2. gone \in Nat /\ Len(s) \in Nat
    BY <1>0, <1>5
  <2>3. Len(s) - (gone + 1) + 1 = Len(s) - gone
    BY <2>2
  <2>4. \A i \in 1..(Len(s) - gone) : (gone + 1) + i - 1 = gone + i /\ gone + i \in 1..Len(s)
    BY <2>2
  <2> QED
    BY <1>0, <2>1, <2>3, <2>4
<1>10. \A i, j \in DOMAIN d : gone + i = gone + j => i = j
  BY <1>5, <1>8
<1> HIDE DEF d
<1>11. Distinct(d) /\ Honest(d)
  BY <1>8, <1>9, <1>10 DEF Good, Distinct, Honest
<1> QED
  BY <1>5, <1>7, <1>11 DEF Good, d

(* All projections of a source go.                                         *)
LEMMA WithoutGood ==
    ASSUME NEW s, Good(s), NEW x
    PROVE  Good(Without(s, x)) /\ \A k \in {"basic", "details"} : Lacks(Without(s, x), k, {x})
<1>1. Good(Dropped(s, "basic", {x})) /\ Lacks(Dropped(s, "basic", {x}), "basic", {x})
  BY DroppedGood
<1> QED
  BY <1>1, DroppedGood DEF Without

(* Putting an entry keeps the notebook good and within its bound.          *)
LEMMA PutGood ==
    ASSUME NEW s, Good(s), NEW e \in Entry, e.content = e.print
    PROVE  Good(Put(s, e)) /\ Fits(Put(s, e))
<1>1. Good(Append(Dropped(s, e.kind, e.of), e))
  BY DroppedGood, AppendGood
<1> QED
  BY <1>1, FitGood DEF Put

(* What is made of sources is an entry that says what they say.            *)
LEMMA MadeGood ==
    ASSUME source \in [Source -> Version], NEW kind \in Kind, NEW S \in SUBSET Source
    PROVE  /\ Made(kind, S) \in Entry /\ Made(kind, S).content = Made(kind, S).print
           /\ Made(kind, S).kind = kind /\ Made(kind, S).of = S
           /\ Made(kind, S).content = PrintOf(S) /\ PrintOf(S) \in Prints
<1>1. PrintOf(S) \in [S -> Version]
  BY DEF PrintOf
<1>2. PrintOf(S) \in Prints
  BY <1>1 DEF Prints
<1> QED
  BY <1>2 DEF Made, Entry

(* Registering a source keeps the notebook good.                           *)
LEMMA RegisteredGood ==
    ASSUME source \in [Source -> Version], NEW s, Good(s), NEW x \in Source
    PROVE  Good(Registered(s, x))
<1> DEFINE old == Cached(s, "basic", {x})
           new == Made("basic", {x})
           rest == IF old = 0 THEN s ELSE Without(s, x)
<1>1. /\ new \in Entry /\ new.content = new.print /\ new.kind = "basic" /\ new.of = {x}
  BY MadeGood DEF Kind
<1>2. Good(rest) /\ Lacks(rest, "basic", {x})
  BY WithoutGood, CachedFinds DEF Good
<1> HIDE DEF rest, new
<1>3. Good(Append(rest, new))
  BY <1>1, <1>2, AppendGood
<1> QED
  BY <1>2, <1>3 DEF Registered, rest, new

(* Replacing the summary keeps the notebook good.                          *)
LEMMA SummarisedGood ==
    ASSUME source \in [Source -> Version], NEW s, Good(s)
    PROVE  Good(Summarised(s))
<1> DEFINE new == Made("summary", Source)
           put == [i \in DOMAIN s |-> IF SameKey(s[i], "summary", Source) THEN new ELSE s[i]]
<1>1. new \in Entry /\ new.content = new.print /\ new.kind = "summary" /\ new.of = Source
  BY MadeGood DEF Kind
<1> HIDE DEF new
<1>2. CASE Cached(s, "summary", Source) = 0
  <2>1. Lacks(s, "summary", Source)
    BY <1>2, CachedFinds DEF Good
  <2>2. Good(Append(s, new))
    BY <1>1, <2>1, AppendGood
  <2> QED
    BY <1>2, <2>2 DEF Summarised, new
<1>3. CASE Cached(s, "summary", Source) # 0
  <2>0. s \in Seq(Entry) /\ Len(s) \in Nat /\ DOMAIN s = 1..Len(s)
    BY LenProperties DEF Good
  <2>1. put \in Seq(Entry) /\ DOMAIN put = DOMAIN s
    BY <1>1, <2>0
  <2>2. \A i \in DOMAIN s : put[i].kind = s[i].kind /\ put[i].of = s[i].of
    BY <1>1 DEF SameKey
  <2>3. \A i \in DOMAIN s : put[i].content = put[i].print
    BY <1>1 DEF Good, Honest
  <2> HIDE DEF put
  <2>4. Good(put)
    BY <2>1, <2>2, <2>3 DEF Good, Distinct, Honest, SameKey
  <2> QED
    BY <1>3, <2>4 DEF Summarised, new, put
<1> QED
  BY <1>2, <1>3

(* Registering one source after the other has a result.                    *)
LEMMA InventoryExists ==
    ASSUME NEW n \in Nat
    PROVE  \E f : f = [i \in 0..n |-> IF i = 0 THEN entries ELSE Registered(f[i - 1], Order[i])]
<1> DEFINE Runs(f, m) ==
               f = [i \in 0..m |-> IF i = 0 THEN entries ELSE Registered(f[i - 1], Order[i])]
           none == {m \in Nat : ~ \E f : Runs(f, m)}
<1>1. SUFFICES ASSUME none # {} PROVE FALSE
  BY DEF Runs
<1>2. PICK m \in none : \A k \in none : m <= k
  <2>1. none \in SUBSET Nat
    OBVIOUS
  <2> HIDE DEF none
  <2> QED
    BY <1>1, <2>1, LeastNumber
<1>3. m # 0
  <2> DEFINE f == [i \in 0..0 |-> entries]
  <2>1. Runs(f, 0)
    OBVIOUS
  <2> QED
    BY <2>1, <1>2
<1>4. m - 1 \in Nat /\ m - 1 \notin none
  <2>1. m \in Nat
    BY <1>2
  <2>2. m - 1 \in Nat /\ ~(m <= m - 1)
    BY <1>3, <2>1
  <2> HIDE DEF none
  <2> QED
    BY <1>2, <2>2
<1>5. PICK f : Runs(f, m - 1)
  BY <1>4
<1> DEFINE g == [i \in 0..m |-> IF i < m THEN f[i] ELSE Registered(f[m - 1], Order[m])]
<1>6. ASSUME NEW i \in 0..m
      PROVE  g[i] = IF i = 0 THEN entries ELSE Registered(g[i - 1], Order[i])
  <2>0. m \in Nat
    BY <1>2
  <2>1. CASE i < m
    <3>1. i \in 0..(m - 1) /\ g[i] = f[i]
      BY <2>0, <2>1
    <3>2. i # 0 => i - 1 \in 0..m /\ i - 1 < m
      BY <2>0, <2>1
    <3>3. i # 0 => g[i - 1] = f[i - 1]
      BY <3>2
    <3>4. f[i] = IF i = 0 THEN entries ELSE Registered(f[i - 1], Order[i])
      BY <1>5, <3>1
    <3> QED
      BY <3>1, <3>3, <3>4
  <2>2. CASE ~(i < m)
    <3>1. i = m /\ i # 0 /\ i - 1 \in 0..m /\ i - 1 < m
      BY <1>3, <2>0, <2>2
    <3>2. g[i] = Registered(f[m - 1], Order[m]) /\ g[i - 1] = f[m - 1]
      BY <3>1
    <3> QED
      BY <3>1, <3>2
  <2> QED
    BY <2>1, <2>2
<1>7. Runs(g, m)
  BY <1>6
<1> QED
  BY <1>2, <1>7

(* The whole inventory keeps the notebook good.                            *)
LEMMA InventoryGood ==
    ASSUME source \in [Source -> Version], Good(entries)
    PROVE  Good(Inventory[Len(Order)])
<1>0. Len(Order) \in Nat /\ \A i \in 1..Len(Order) : Order[i] \in Source
  BY NotebooksAssumption, LenProperties
<1>1. Inventory = [i \in 0..Len(Order) |->
                      IF i = 0 THEN entries ELSE Registered(Inventory[i - 1], Order[i])]
  BY <1>0, InventoryExists DEF Inventory
<1>2. Inventory[0] = entries
  BY <1>0, <1>1
<1>3. \A i \in 1..Len(Order) : Inventory[i] = Registered(Inventory[i - 1], Order[i])
  BY <1>0, <1>1
<1> DEFINE bad == {i \in 0..Len(Order) : ~Good(Inventory[i])}
<1>4. SUFFICES ASSUME bad # {} PROVE FALSE
  BY <1>0
<1>5. PICK m \in bad : \A k \in bad : m <= k
  <2>1. bad \in SUBSET Nat
    BY <1>0
  <2> HIDE DEF bad
  <2> QED
    BY <1>4, <2>1, LeastNumber
<1>6. m # 0
  BY <1>2, <1>5
<1>7. m \in 1..Len(Order) /\ m - 1 \in 0..Len(Order) /\ ~(m <= m - 1)
  BY <1>0, <1>5, <1>6
<1>8. Good(Inventory[m - 1])
  BY <1>5, <1>7
<1>9. Good(Inventory[m])
  BY <1>0, <1>3, <1>7, <1>8, RegisteredGood
<1> QED
  BY <1>5, <1>9

-----------------------------------------------------------------------------
(* The position at which a task of the list that has ended is removed.     *)
LEMMA FirstRemovable ==
    ASSUME tasks \in Seq(Task), Removable # {}
    PROVE  LET first == CHOOSE i \in Removable : \A j \in Removable : i <= j
           IN  first \in 1..Len(tasks) /\ tasks[first].status = "ended"
<1> DEFINE first == CHOOSE i \in Removable : \A j \in Removable : i <= j
<1>1. Removable \in SUBSET Nat /\ Removable \subseteq 1..Len(tasks)
  BY LenProperties DEF Removable
<1>2. first \in Removable
  BY <1>1, LeastNumber
<1> QED
  BY <1>1, <1>2 DEF Removable

(* A list of which an entry was removed holds the others, in order.        *)
LEMMA RemovedTask ==
    ASSUME tasks \in Seq(Task), NEW n \in 1..Len(tasks)
    PROVE  /\ RemoveAt(tasks, n) \in Seq(Task) /\ Len(RemoveAt(tasks, n)) = Len(tasks) - 1
           /\ \A i \in 1..(Len(tasks) - 1) :
                 RemoveAt(tasks, n)[i] = IF i < n THEN tasks[i] ELSE tasks[i + 1]
<1> DEFINE a == SubSeq(tasks, 1, n - 1)
           b == SubSeq(tasks, n + 1, Len(tasks))
           d == RemoveAt(tasks, n)
<1>0. Len(tasks) \in Nat /\ n \in Nat /\ 1 <= n /\ n <= Len(tasks) /\ DOMAIN tasks = 1..Len(tasks)
  BY LenProperties
<1>1. a \in Seq(Task) /\ Len(a) = n - 1 /\ \A i \in 1..(n - 1) : a[i] = tasks[i]
  BY <1>0, SubSeqProperties
<1>2. b \in Seq(Task) /\ Len(b) = Len(tasks) - n
      /\ \A i \in 1..(Len(tasks) - n) : b[i] = tasks[n + i]
  <2>1. n + 1 \in 1..(Len(tasks) + 1) /\ \A i \in (n + 1)..Len(tasks) : tasks[i] \in Task
    BY <1>0
  <2>2. b \in Seq(Task) /\ Len(b) = (IF n + 1 <= Len(tasks) THEN Len(tasks) - (n + 1) + 1 ELSE 0)
    BY <1>0, <2>1, SubSeqProperties
  <2>3. /\ n + 1 <= Len(tasks) => Len(tasks) - (n + 1) + 1 = Len(tasks) - n
        /\ ~(n + 1 <= Len(tasks)) => 0 = Len(tasks) - n
    <3>1. Len(tasks) \in Nat /\ n \in Nat /\ n <= Len(tasks)
      BY <1>0
    <3> QED
      BY <3>1
  <2>4. \A i \in 1..(Len(tasks) - (n + 1) + 1) : b[i] = tasks[(n + 1) + i - 1]
    BY <1>0, <2>1, SubSeqProperties
  <2>5. Len(tasks) - (n + 1) + 1 = Len(tasks) - n
        /\ \A i \in 1..(Len(tasks) - n) : (n + 1) + i - 1 = n + i
    BY <1>0
  <2> QED
    BY <2>2, <2>3, <2>4, <2>5
<1>3. d = a \o b
  BY DEF RemoveAt
<1> HIDE DEF a, b, d
<1>4. d \in Seq(Task) /\ Len(d) = Len(a) + Len(b)
      /\ \A i \in 1..(Len(a) + Len(b)) : d[i] = IF i <= Len(a) THEN a[i] ELSE b[i - Len(a)]
  BY <1>1, <1>2, <1>3, ConcatProperties
<1>5. Len(a) + Len(b) = Len(tasks) - 1
  BY <1>0, <1>1, <1>2
<1>6. ASSUME NEW i \in 1..(Len(tasks) - 1)
      PROVE  d[i] = IF i < n THEN tasks[i] ELSE tasks[i + 1]
  <2>1. CASE i < n
    BY <1>0, <1>1, <1>4, <1>5, <2>1
  <2>2. CASE ~(i < n)
    <3>1. i - (n - 1) \in 1..(Len(tasks) - n) /\ n + (i - (n - 1)) = i + 1 /\ ~(i <= n - 1)
      BY <1>0, <2>2
    <3>2. d[i] = b[i - (n - 1)]
      BY <1>0, <1>1, <1>4, <1>5, <3>1
    <3> QED
      BY <1>2, <2>2, <3>1, <3>2
  <2> QED
    BY <2>1, <2>2
<1> QED
  BY <1>4, <1>5, <1>6 DEF d

TasksOK(t) ==
    /\ t \in Seq(Task) /\ Len(t) <= MaxTasks
    /\ \A i, j \in DOMAIN t : t[i].id = t[j].id => i = j

Stays(t) == \A i \in DOMAIN tasks : tasks[i].status = "active" =>
                \E j \in DOMAIN t : t[j].id = tasks[i].id

(* Adding a task that is not there to a list with room keeps the list.     *)
LEMMA AddedTask ==
    ASSUME NEW t, TasksOK(t), Len(t) < MaxTasks, NEW new \in Task,
           \A i \in DOMAIN t : t[i].id # new.id
    PROVE  /\ TasksOK(Append(t, new))
           /\ \A i \in DOMAIN t : \E j \in DOMAIN Append(t, new) : Append(t, new)[j] = t[i]
<1>0. t \in Seq(Task) /\ Len(t) \in Nat /\ DOMAIN t = 1..Len(t)
  BY LenProperties DEF TasksOK
<1>1. /\ Append(t, new) \in Seq(Task) /\ Len(Append(t, new)) = Len(t) + 1
      /\ DOMAIN Append(t, new) = 1..(Len(t) + 1)
      /\ \A i \in 1..Len(t) : Append(t, new)[i] = t[i]
      /\ Append(t, new)[Len(t) + 1] = new
  BY <1>0, AppendProperties, LenProperties
<1>2. Len(t) + 1 <= MaxTasks /\ \A i \in 1..(Len(t) + 1) : i \in 1..Len(t) \/ i = Len(t) + 1
  BY <1>0, NotebooksAssumption
<1>3. \A i \in 1..Len(t) : i \in 1..(Len(t) + 1)
  BY <1>0
<1> QED
  BY <1>0, <1>1, <1>2, <1>3 DEF TasksOK

(* What task() does to the list.                                           *)
LEMMA ListedGood ==
    ASSUME TasksOK(tasks), NEW id \in TaskId, NEW status \in Status
    PROVE  TasksOK(Listed(id, status)) /\ Stays(Listed(id, status))
<1> DEFINE new == [id |-> id, status |-> status]
           first == CHOOSE i \in Removable : \A j \in Removable : i <= j
<1>0. tasks \in Seq(Task) /\ Len(tasks) \in Nat /\ DOMAIN tasks = 1..Len(tasks)
  BY LenProperties DEF TasksOK
<1>1. new \in Task /\ new.id = id
  BY DEF Task
<1> HIDE DEF new
<1>2. CASE Positions(id) # {}
  <2> DEFINE t == [i \in DOMAIN tasks |-> IF i \in Positions(id) THEN new ELSE tasks[i]]
  <2>1. t \in Seq(Task) /\ DOMAIN t = DOMAIN tasks /\ Len(t) = Len(tasks)
    BY <1>0, <1>1
  <2>2. \A i \in DOMAIN tasks : t[i].id = tasks[i].id
    BY <1>1 DEF Positions
  <2>3. Listed(id, status) = t
    BY <1>2 DEF Listed, new
  <2> HIDE DEF t
  <2> QED
    BY <2>1, <2>2, <2>3 DEF TasksOK, Stays
<1>3. CASE Positions(id) = {} /\ Len(tasks) < MaxTasks
  <2>1. \A i \in DOMAIN tasks : tasks[i].id # new.id
    BY <1>1, <1>3 DEF Positions
  <2>2. Listed(id, status) = Append(tasks, new)
    BY <1>3 DEF Listed, new
  <2> QED
    BY <1>1, <1>3, <2>1, <2>2, AddedTask DEF Stays
<1>4. CASE Positions(id) = {} /\ ~(Len(tasks) < MaxTasks) /\ Removable = {}
  <2>1. Listed(id, status) = tasks
    BY <1>4 DEF Listed
  <2> QED
    BY <2>1 DEF Stays
<1>5. CASE Positions(id) = {} /\ ~(Len(tasks) < MaxTasks) /\ Removable # {}
  <2> DEFINE d == RemoveAt(tasks, first)
  <2>1. first \in 1..Len(tasks) /\ tasks[first].status = "ended"
    BY <1>0, <1>5, FirstRemovable
  <2>2. Listed(id, status) = Append(d, new)
    BY <1>5 DEF Listed, new
  <2> HIDE DEF first
  <2>3. /\ d \in Seq(Task) /\ Len(d) = Len(tasks) - 1
        /\ \A i \in 1..(Len(tasks) - 1) : d[i] = IF i < first THEN tasks[i] ELSE tasks[i + 1]
    BY <1>0, <2>1, RemovedTask
  <2>4. DOMAIN d = 1..(Len(tasks) - 1)
    BY <2>3, LenProperties
  <2> HIDE DEF d
  <2> DEFINE o(i) == IF i < first THEN i ELSE i + 1
  <2>5. /\ \A i \in DOMAIN d : o(i) \in DOMAIN tasks /\ d[i] = tasks[o(i)]
        /\ \A i, j \in DOMAIN d : o(i) = o(j) => i = j
    BY <1>0, <2>1, <2>3, <2>4
  <2>6. \A i \in DOMAIN tasks : i # first => \E j \in DOMAIN d : o(j) = i
    <3> SUFFICES ASSUME NEW i \in DOMAIN tasks, i # first PROVE \E j \in DOMAIN d : o(j) = i
      OBVIOUS
    <3>1. CASE i < first
      BY <1>0, <2>1, <2>4, <3>1
    <3>2. CASE i > first
      <4>1. i - 1 \in DOMAIN d /\ o(i - 1) = i
        BY <1>0, <2>1, <2>4, <3>2
      <4> QED
        BY <4>1
    <3> QED
      BY <1>0, <2>1, <3>1, <3>2
  <2> HIDE DEF o
  <2>7. TasksOK(d) /\ Len(d) < MaxTasks
    <3>1. Len(d) < MaxTasks /\ Len(d) <= MaxTasks
      BY <1>0, <2>1, <2>3, NotebooksAssumption DEF TasksOK
    <3>2. \A i, j \in DOMAIN d : d[i].id = d[j].id => i = j
      BY <2>5 DEF TasksOK
    <3> QED
      BY <2>3, <3>1, <3>2 DEF TasksOK
  <2>8. \A i \in DOMAIN d : d[i].id # new.id
    BY <1>1, <1>5, <2>5 DEF Positions
  <2>9. \A i \in DOMAIN tasks : tasks[i].status = "active" => i # first
    BY <2>1
  <2>10. TasksOK(Append(d, new))
         /\ \A i \in DOMAIN d : \E j \in DOMAIN Append(d, new) : Append(d, new)[j] = d[i]
    BY <1>1, <2>7, <2>8, AddedTask
  <2>11. Stays(Append(d, new))
    <3> SUFFICES ASSUME NEW i \in DOMAIN tasks, tasks[i].status = "active"
                 PROVE  \E j \in DOMAIN Append(d, new) : Append(d, new)[j].id = tasks[i].id
      BY DEF Stays
    <3>1. PICK k \in DOMAIN d : d[k] = tasks[i]
      BY <2>5, <2>6, <2>9
    <3> QED
      BY <2>10, <3>1
  <2> QED
    BY <2>2, <2>10, <2>11
<1> QED
  BY <1>2, <1>3, <1>4, <1>5

-----------------------------------------------------------------------------
(* What the steps do to each part of the memory.                           *)
SourceStep == source' \in [Source -> Version]

BookStep == Good(entries') /\ Fits(entries')

ServedStep ==
    /\ served' \subseteq [kind : Kind, of : SUBSET Source, content : Prints]
    /\ FactsAreFresh'

ListStep == TasksOK(tasks') /\ (round' = round => Stays(tasks'))

(* Handing out facts.                                                      *)
LEMMA FactsStep ==
    ASSUME TypeInv, FactsAreFresh, NEW kind \in {"basic", "details"}, NEW x \in Source, Facts(kind, x)
    PROVE  SourceStep /\ BookStep /\ ServedStep /\ ListStep /\ round' \in 1..MaxRounds
<1> DEFINE old == Cached(entries, kind, {x})
           rest == IF old = 0 THEN entries ELSE Without(entries, x)
           new == Made(kind, {x})
           answer == IF Hit(kind, x) THEN entries[old] ELSE new
<1>1. Good(entries) /\ Fits(entries) /\ source \in [Source -> Version] /\ TasksOK(tasks)
  BY DEF TypeInv, TypeOK, Good, Distinct, TasksOK
<1>2. /\ new \in Entry /\ new.content = new.print /\ new.kind = kind /\ new.of = {x}
      /\ new.content = PrintOf({x}) /\ PrintOf({x}) \in Prints
  BY <1>1, MadeGood DEF Kind
<1>3. Good(rest)
  BY <1>1, WithoutGood
<1>4. Good(Put(rest, new)) /\ Fits(Put(rest, new))
  BY <1>2, <1>3, PutGood
<1>5. BookStep
  BY <1>1, <1>4 DEF Facts, BookStep
<1>6. answer.content = PrintOf({x})
  <2>1. CASE Hit(kind, x)
    <3>1. old \in DOMAIN entries /\ entries[old].print = PrintOf({x})
      BY <1>1, <2>1, CachedFinds DEF Hit, Good
    <3> QED
      BY <1>1, <2>1, <3>1 DEF Good, Honest
  <2>2. CASE ~Hit(kind, x)
    BY <1>2, <2>2
  <2> QED
    BY <2>1, <2>2
<1>7. served' = {[kind |-> kind, of |-> {x}, content |-> PrintOf({x})]}
  BY <1>6 DEF Facts
<1>8. PrintOf({x})' = PrintOf({x})
  BY DEF Facts, PrintOf
<1>9. ServedStep
  <2>1. kind \in Kind /\ {x} \in SUBSET Source
    BY DEF Kind
  <2>2. [kind |-> kind, of |-> {x}, content |-> PrintOf({x})]
          \in [kind : Kind, of : SUBSET Source, content : Prints]
    BY <1>2, <2>1
  <2>3. \A f \in served' : f.of = {x} /\ f.content = PrintOf({x})
    BY <1>7
  <2>4. \A f \in served' : f.content = [y \in f.of |-> source'[y]]
    BY <1>8, <2>3 DEF PrintOf
  <2> QED
    BY <1>7, <2>2, <2>4 DEF ServedStep, FactsAreFresh, PrintOf
<1> QED
  BY <1>1, <1>5, <1>9 DEF Facts, SourceStep, ListStep, Stays, TypeInv, TypeOK

(* Steps of a round leave fresh what was handed out.                       *)
LEMMA ServedStays ==
    ASSUME TypeInv, FactsAreFresh, UNCHANGED <<source, served>>
    PROVE  SourceStep /\ ServedStep
BY DEF TypeInv, TypeOK, SourceStep, ServedStep, FactsAreFresh, PrintOf

(* Every step keeps the memory as it should be.                            *)
LEMMA MemoryStep ==
    ASSUME TypeInv, FactsAreFresh, [Next]_vars
    PROVE  SourceStep /\ BookStep /\ ServedStep /\ ListStep /\ round' \in 1..MaxRounds
<1>1. /\ Good(entries) /\ Fits(entries) /\ source \in [Source -> Version] /\ TasksOK(tasks)
      /\ Stays(tasks) /\ round \in 1..MaxRounds
  BY DEF TypeInv, TypeOK, Good, Distinct, TasksOK, Stays
<1>2. CASE PutResult
  <2>1. Made("result", Source) \in Entry
        /\ Made("result", Source).content = Made("result", Source).print
    BY <1>1, MadeGood DEF Kind
  <2>2. BookStep
    BY <1>1, <1>2, <2>1, PutGood DEF PutResult, BookStep
  <2> QED
    BY <1>1, <1>2, <2>2, ServedStays DEF PutResult, ListStep
<1>3. ASSUME NEW id \in TaskId, OrganizeInventory(id)
      PROVE  SourceStep /\ BookStep /\ ServedStep /\ ListStep /\ round' \in 1..MaxRounds
  <2>1. BookStep
    BY <1>1, <1>3, InventoryGood, SummarisedGood, FitGood DEF OrganizeInventory, BookStep
  <2>2. ListStep
    BY <1>1, <1>3, ListedGood DEF OrganizeInventory, ListStep, Status
  <2> QED
    BY <1>1, <1>3, <2>1, <2>2, ServedStays DEF OrganizeInventory
<1>4. ASSUME NEW id \in TaskId, NEW status \in Status, SetTask(id, status)
      PROVE  SourceStep /\ BookStep /\ ServedStep /\ ListStep /\ round' \in 1..MaxRounds
  <2>1. ListStep
    BY <1>1, <1>4, ListedGood DEF SetTask, ListStep
  <2> QED
    BY <1>1, <1>4, <2>1, ServedStays DEF SetTask, BookStep
<1>5. CASE NewRound
  <2>1. round' # round /\ round' \in 1..MaxRounds
    BY <1>1, <1>5, NotebooksAssumption DEF NewRound
  <2>2. Good(<< >>) /\ Fits(<< >>) /\ TasksOK(<< >>)
    BY NothingFits, NotebooksAssumption DEF Good, Distinct, Honest, TasksOK
  <2>3. BookStep
    BY <1>1, <1>5, <2>2, FitGood DEF NewRound, BookStep
  <2> QED
    BY <1>1, <1>5, <2>1, <2>2, <2>3
    DEF NewRound, SourceStep, ServedStep, ListStep, FactsAreFresh
<1>6. CASE UNCHANGED vars
  BY <1>1, <1>6, ServedStays DEF vars, BookStep, ListStep
<1> QED
  BY <1>2, <1>3, <1>4, <1>5, <1>6, FactsStep DEF Next

(* The notebooks' invariant.                                               *)
LEMMA MemoryInvariant == Spec => [](TypeInv /\ FactsAreFresh)
<1>1. Init => TypeInv /\ FactsAreFresh
  <2> SUFFICES ASSUME Init PROVE TypeInv /\ FactsAreFresh
    OBVIOUS
  <2>1. source \in [Source -> Version]
    BY NotebooksAssumption DEF Init, Version
  <2>2. round \in 1..MaxRounds /\ Len(<< >>) <= MaxTasks
    BY NotebooksAssumption DEF Init
  <2>3. entries = << >> /\ tasks = << >> /\ served = {}
    BY DEF Init
  <2> QED
    BY <2>1, <2>2, <2>3, NothingFits DEF TypeInv, TypeOK, Honest, FactsAreFresh
<1>2. TypeInv /\ FactsAreFresh /\ [Next]_vars => (TypeInv /\ FactsAreFresh)'
  BY MemoryStep
  DEF SourceStep, BookStep, ServedStep, ListStep, TasksOK, Good, Distinct, TypeInv, TypeOK,
      FactsAreFresh, Honest
<1> QED
  BY <1>1, <1>2, PTL DEF Spec

(* Everything in its domain, one entry for a key, one for a task, notebook *)
(* and list within their bounds, after every operation of every round.     *)
THEOREM TypeCorrect == Spec => []TypeOK
BY MemoryInvariant, PTL DEF TypeInv

(* What is handed out is what the source says in this round, whatever the  *)
(* notebook was brought back with and whatever was evicted.                *)
THEOREM FactsStayFresh == Spec => []FactsAreFresh
BY MemoryInvariant, PTL

(* Only tasks that have ended make room for others.                        *)
THEOREM ActiveStay == Spec => ActiveTasksStay
<1>1. TypeInv /\ FactsAreFresh /\ [Next]_vars =>
        [round' = round =>
           \A i \in DOMAIN tasks : tasks[i].status = "active" =>
               \E j \in DOMAIN tasks' : tasks'[j].id = tasks[i].id]_vars
  BY MemoryStep DEF ListStep, Stays
<1> QED
  BY <1>1, MemoryInvariant, PTL DEF Spec, ActiveTasksStay
=============================================================================
