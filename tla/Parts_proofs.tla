---------------------------- MODULE Parts_proofs ----------------------------
(***************************************************************************)
(* The control data of Mutsu, for every number of windows, recorders,      *)
(* entries and events; a streamed request, for every length of an answer   *)
(* and every number of lines on the wire; the history of the hardware, for *)
(* every set of resolutions and charts whose numbers fit; and, with what   *)
(* VisionService_proofs says of recognition, the four together.            *)
(***************************************************************************)
EXTENDS Parts, VisionService_proofs

-----------------------------------------------------------------------------
(* Mutsu's control data.  A save that has passed the comparison of         *)
(* revisions holds the lock, and only the holder changes settings or       *)
(* catalogues: so what it compared and counted is still true when it       *)
(* commits.  Paging is complete because a page that is not full leaves     *)
(* nothing out, and a full one leaves out nothing above its last event.    *)
Writes(w) == tx[w].does \in {"settings", "entry"}

(* Who is about to commit settings shows what they are; whoever shows      *)
(* settings of the present revision shows the present settings.            *)
Compared ==
    \A w \in Window :
        /\ loaded[w].revision <= singleton.revision
        /\ loaded[w].revision = singleton.revision => loaded[w] = singleton
        /\ tx[w].does = "settings" => loaded[w] = singleton

(* There is room for the entry that is about to be committed.              *)
Roomy ==
    \A w \in Window : tx[w].does = "entry" =>
        Cardinality(entries[tx[w].in] \ {tx[w].key}) < MaxEntries

\* The numbers of the transactions have been handed out.
Handed == \A w \in Window \cup Recorder : tx[w] # NoTx => tx[w].event \in 1..lastEvent

\* Recorders write events only.
Apart == \A r \in Recorder : ~Writes(r)

ControlInv == ControlOK /\ Compared /\ Roomy /\ Handed /\ Apart

(* The fields of a transaction.                                            *)
LEMMA Fields ==
    ASSUME NEW t \in Transaction
    PROVE  /\ t # NoTx => t.event \in Nat /\ t.does \in {"settings", "entry", "event"}
           /\ t.does = "settings" => t.configuration \in Configuration /\ t # NoTx
           /\ t.does = "entry" => t.in \in Catalogue /\ t.key \in Entry /\ t # NoTx
           /\ t.does = "event" => t # NoTx
  BY DEF Transaction, NoTx

LEMMA InitInv == ControlInit => ControlInv
<1> SUFFICES ASSUME ControlInit PROVE ControlInv
  OBVIOUS
<1>1. singleton \in Row /\ lock = NoWindow /\ Default \in Configuration
  BY ControlAssumption DEF ControlInit, Row
<1>2. \A c \in Catalogue : entries[c] = {} /\ Cardinality(entries[c]) <= MaxEntries
  BY FS_EmptySet, ControlAssumption DEF ControlInit
<1>3. \A w \in Window \cup Recorder : tx[w] = NoTx /\ ~Writes(w) /\ lock # w
  BY ControlAssumption DEF ControlInit, NoTx, Writes
<1>4. tx \in [Window \cup Recorder -> Transaction] /\ entries \in [Catalogue -> SUBSET Entry]
  BY DEF ControlInit, Transaction
<1>5. loaded \in [Window -> Row] /\ \A w \in Window : loaded[w] = singleton
  BY <1>1 DEF ControlInit
<1>6. /\ events \subseteq 1..lastEvent /\ lastEvent \in 0..MaxEvents
      /\ paging \in [at : {"off", "on", "over"}, below : 0..(MaxEvents + 1),
                     seen : SUBSET events, due : SUBSET events]
  BY ControlAssumption DEF ControlInit
<1>7. ControlOK
  BY <1>1, <1>2, <1>3, <1>4, <1>5, <1>6 DEF ControlOK, Writes
<1>8. Compared
  BY <1>1, <1>3, <1>5 DEF Compared, NoTx, Row
<1>9. Roomy /\ Handed /\ Apart
  BY <1>3 DEF Roomy, Handed, Apart, NoTx
<1> QED BY <1>7, <1>8, <1>9 DEF ControlInv

-----------------------------------------------------------------------------
(* A transaction begins: it holds the lock if it writes.                   *)
LEMMA Begin ==
    ASSUME ControlInv, NEW w \in Window \cup Recorder, NEW t \in Transaction,
           tx[w] = NoTx, Number, t # NoTx, t.event = lastEvent',
           tx' = [tx EXCEPT ![w] = t],
           IF t.does \in {"settings", "entry"}
               THEN w \in Window /\ lock = NoWindow /\ lock' = w
               ELSE lock' = lock,
           t.does = "settings" => loaded[w] = singleton,
           t.does = "entry" => Cardinality(entries[t.in] \ {t.key}) < MaxEntries,
           UNCHANGED <<singleton, entries, events, loaded, paging>>
    PROVE  ControlInv'
<1>1. /\ tx \in [Window \cup Recorder -> Transaction]
      /\ lastEvent \in 0..MaxEvents /\ lastEvent' = lastEvent + 1 /\ lastEvent < MaxEvents
      /\ MaxEvents \in Nat
  BY ControlAssumption DEF ControlInv, ControlOK, Number
<1>2. tx'[w] = t /\ \A v \in (Window \cup Recorder) \ {w} : tx'[v] = tx[v]
  BY <1>1
<1>3. \A v \in Window \cup Recorder : tx'[v].does \in {"settings", "entry"} <=> lock' = v
  BY <1>2, ControlAssumption DEF ControlInv, ControlOK, NoTx
<1>4. lock' \in Window \cup {NoWindow}
  BY DEF ControlInv, ControlOK
<1>5. /\ lastEvent' \in 0..MaxEvents /\ events' \subseteq 1..lastEvent'
      /\ tx' \in [Window \cup Recorder -> Transaction]
  BY <1>1 DEF ControlInv, ControlOK
<1>6. ControlOK'
  BY <1>3, <1>4, <1>5 DEF ControlInv, ControlOK
<1>7. Compared' /\ Roomy'
  BY <1>2 DEF ControlInv, Compared, Roomy
<1>8. Handed'
  BY <1>1, <1>2 DEF ControlInv, Handed
<1>9. Apart'
  BY <1>2, ControlAssumption DEF ControlInv, Apart, Writes
<1> QED BY <1>6, <1>7, <1>8, <1>9 DEF ControlInv

LEMMA SaveSettingsStep ==
    ASSUME ControlInv, NEW w \in Window, NEW c \in Configuration, SaveSettings(w, c)
    PROVE  ControlInv'
<1> DEFINE t == [does |-> "settings", configuration |-> c, event |-> lastEvent']
<1>1. lastEvent' \in Nat
  BY DEF SaveSettings, Number, ControlInv, ControlOK
<1>2. t \in Transaction /\ t # NoTx
  BY <1>1 DEF Transaction, NoTx
<1>3. loaded[w] = singleton
  BY DEF SaveSettings, SameRevision, ControlInv, Compared
<1> QED BY <1>2, <1>3, Begin DEF SaveSettings, RowIsFree

LEMMA SaveEntryStep ==
    ASSUME ControlInv, NEW w \in Window, NEW in \in Catalogue, NEW key \in Entry,
           SaveEntry(w, in, key)
    PROVE  ControlInv'
<1> DEFINE t == [does |-> "entry", in |-> in, key |-> key, event |-> lastEvent']
<1>1. lastEvent' \in Nat
  BY DEF SaveEntry, Number, ControlInv, ControlOK
<1>2. t \in Transaction /\ t # NoTx
  BY <1>1 DEF Transaction, NoTx
<1> QED BY <1>2, Begin DEF SaveEntry, RowIsFree

LEMMA RecordStep ==
    ASSUME ControlInv, NEW r \in Recorder, Record(r)
    PROVE  ControlInv'
<1> DEFINE t == [does |-> "event", event |-> lastEvent']
<1>1. lastEvent' \in Nat
  BY DEF Record, Number, ControlInv, ControlOK
<1>2. t \in Transaction /\ t # NoTx
  BY <1>1 DEF Transaction, NoTx
<1> QED BY <1>2, Begin DEF Record

-----------------------------------------------------------------------------
(* A transaction ends: nobody else was writing if it was.                  *)
LEMMA Ended ==
    ASSUME ControlInv, NEW w \in Window \cup Recorder, Ends(w)
    PROVE  /\ tx'[w] = NoTx /\ \A v \in (Window \cup Recorder) \ {w} : tx'[v] = tx[v]
           /\ tx' \in [Window \cup Recorder -> Transaction]
           /\ lock' \in Window \cup {NoWindow}
           /\ \A v \in Window \cup Recorder : tx'[v].does \in {"settings", "entry"} <=> lock' = v
           /\ Writes(w) => \A v \in Window \cup Recorder : ~Writes(v)'
           /\ Apart'
<1>1. tx \in [Window \cup Recorder -> Transaction] /\ NoTx \in Transaction
  BY DEF ControlInv, ControlOK, Transaction
<1>2. tx'[w] = NoTx /\ \A v \in (Window \cup Recorder) \ {w} : tx'[v] = tx[v]
  BY <1>1 DEF Ends
<1>3. tx' \in [Window \cup Recorder -> Transaction]
  BY <1>1 DEF Ends
<1>4. lock' \in Window \cup {NoWindow}
  BY DEF ControlInv, ControlOK, Ends
<1>5. \A v \in Window \cup Recorder : tx[v].does \in {"settings", "entry"} <=> lock = v
  BY DEF ControlInv, ControlOK
<1>6. \A v \in Window \cup Recorder : tx'[v].does \in {"settings", "entry"} <=> lock' = v
  BY <1>2, <1>5, ControlAssumption DEF Ends, NoTx
<1>7. Writes(w) => \A v \in Window \cup Recorder : ~Writes(v)'
  BY <1>2, <1>5, <1>6 DEF Writes, NoTx
<1>8. Apart'
  BY <1>2 DEF ControlInv, Apart, Writes, NoTx
<1> QED BY <1>2, <1>3, <1>4, <1>6, <1>7, <1>8

LEMMA RollbackStep ==
    ASSUME ControlInv, NEW w \in Window \cup Recorder, Rollback(w)
    PROVE  ControlInv'
<1>1. /\ tx'[w] = NoTx /\ \A v \in (Window \cup Recorder) \ {w} : tx'[v] = tx[v]
      /\ tx' \in [Window \cup Recorder -> Transaction]
      /\ lock' \in Window \cup {NoWindow}
      /\ \A v \in Window \cup Recorder : tx'[v].does \in {"settings", "entry"} <=> lock' = v
      /\ Apart'
  BY Ended DEF Rollback
<1>2. ControlOK'
  BY <1>1 DEF ControlInv, ControlOK, Rollback
<1>3. Compared' /\ Roomy' /\ Handed'
  BY <1>1 DEF ControlInv, Compared, Roomy, Handed, Rollback, NoTx
<1> QED BY <1>1, <1>2, <1>3 DEF ControlInv

(* What a commit does to the settings and the catalogues.                  *)
LEMMA Committed ==
    ASSUME ControlInv, NEW w \in Window \cup Recorder, Commit(w)
    PROVE  /\ Writes(w) => w \in Window
           /\ singleton' \in Row /\ loaded' \in [Window -> Row]
           /\ IF tx[w].does = "settings"
              THEN /\ singleton'.revision = singleton.revision + 1
                   /\ loaded'[w] \in {singleton', loaded[w]}
                   /\ \A v \in Window \ {w} : loaded'[v] = loaded[v]
              ELSE UNCHANGED <<singleton, loaded>>
           /\ entries' \in [Catalogue -> SUBSET Entry]
           /\ \A c \in Catalogue : Cardinality(entries'[c]) <= MaxEntries
           /\ tx[w].does # "entry" => UNCHANGED entries
<1>1. tx[w] \in Transaction /\ tx[w] # NoTx
  BY DEF ControlInv, ControlOK, Commit
<1>2. Writes(w) => w \in Window
  BY DEF ControlInv, Apart
<1>3. singleton \in Row /\ loaded \in [Window -> Row] /\ entries \in [Catalogue -> SUBSET Entry]
      /\ \A c \in Catalogue : Cardinality(entries[c]) <= MaxEntries
  BY DEF ControlInv, ControlOK
<1>4. CASE tx[w].does = "settings"
  <2>1. tx[w].configuration \in Configuration /\ w \in Window
    BY <1>1, <1>2, <1>4, Fields DEF Writes
  <2>2. /\ singleton' = [configuration |-> tx[w].configuration, revision |-> singleton.revision + 1]
        /\ entries' = entries
        /\ loaded' = [loaded EXCEPT ![w] = singleton'] \/ UNCHANGED loaded
    BY <1>4 DEF Commit
  <2>3. singleton' \in Row /\ singleton'.revision = singleton.revision + 1
    BY <1>3, <2>1, <2>2 DEF Row
  <2>4. loaded' \in [Window -> Row] /\ loaded'[w] \in {singleton', loaded[w]}
        /\ \A v \in Window \ {w} : loaded'[v] = loaded[v]
    BY <1>3, <2>1, <2>2, <2>3
  <2> QED BY <1>2, <1>3, <1>4, <2>2, <2>3, <2>4
<1>5. CASE tx[w].does # "settings"
  <2>1. UNCHANGED <<singleton, loaded>>
    BY <1>5 DEF Commit
  <2>2. CASE tx[w].does = "entry"
    <3>1. PICK in \in Catalogue, key \in Entry : in = tx[w].in /\ key = tx[w].key
      BY <1>1, <2>2, Fields
    <3>2. entries' = [entries EXCEPT ![in] = entries[in] \cup {key}]
      BY <2>2, <3>1 DEF Commit
    <3>3. entries[in] \in SUBSET Entry /\ IsFiniteSet(Entry)
      BY <1>3, ControlAssumption
    <3>4. Cardinality(entries[in] \ {key}) < MaxEntries
      BY <1>2, <2>2, <3>1 DEF ControlInv, Roomy, Writes
    <3>5. IsFiniteSet(entries[in] \ {key}) /\ Cardinality(entries[in] \ {key}) \in Nat
      BY <3>3, FS_Subset, FS_CardinalityType
    <3>6. (entries[in] \ {key}) \cup {key} = entries[in] \cup {key}
      OBVIOUS
    <3>7. Cardinality(entries[in] \cup {key}) = Cardinality(entries[in] \ {key}) + 1
      <4> DEFINE S == entries[in] \ {key}
      <4>1. key \notin S /\ IsFiniteSet(S)
        BY <3>5
      <4> HIDE DEF S
      <4>2. Cardinality(S \cup {key}) = Cardinality(S) + 1
        BY <4>1, FS_AddElement
      <4> QED BY <3>6, <4>2 DEF S
    <3>8. Cardinality(entries[in] \cup {key}) <= MaxEntries
      BY <3>4, <3>5, <3>7, ControlAssumption
    <3>9. entries' \in [Catalogue -> SUBSET Entry]
          /\ \A c \in Catalogue : Cardinality(entries'[c]) <= MaxEntries
      BY <1>3, <3>2, <3>8
    <3> QED BY <1>2, <1>3, <1>5, <2>1, <2>2, <3>9
  <2>3. CASE tx[w].does # "entry"
    BY <1>2, <1>3, <1>5, <2>1, <2>3 DEF Commit
  <2> QED BY <2>2, <2>3
<1> QED BY <1>4, <1>5

LEMMA CommitStep ==
    ASSUME ControlInv, NEW w \in Window \cup Recorder, Commit(w)
    PROVE  ControlInv'
<1>1. /\ tx'[w] = NoTx /\ \A v \in (Window \cup Recorder) \ {w} : tx'[v] = tx[v]
      /\ tx' \in [Window \cup Recorder -> Transaction]
      /\ lock' \in Window \cup {NoWindow}
      /\ \A v \in Window \cup Recorder : tx'[v].does \in {"settings", "entry"} <=> lock' = v
      /\ Writes(w) => \A v \in Window \cup Recorder : ~Writes(v)'
      /\ Apart'
  BY Ended DEF Commit
<1>2. /\ singleton' \in Row /\ loaded' \in [Window -> Row]
      /\ IF tx[w].does = "settings"
         THEN /\ singleton'.revision = singleton.revision + 1
              /\ loaded'[w] \in {singleton', loaded[w]}
              /\ \A v \in Window \ {w} : loaded'[v] = loaded[v]
         ELSE UNCHANGED <<singleton, loaded>>
      /\ entries' \in [Catalogue -> SUBSET Entry]
      /\ \A c \in Catalogue : Cardinality(entries'[c]) <= MaxEntries
      /\ tx[w].does # "entry" => UNCHANGED entries
  BY Committed
<1>3. tx[w].event \in 1..lastEvent /\ events' = events \cup {tx[w].event}
      /\ UNCHANGED <<lastEvent, paging>>
  BY DEF ControlInv, Handed, Commit
<1>4. events' \subseteq 1..lastEvent' /\ events \subseteq events'
  BY <1>3 DEF ControlInv, ControlOK
<1>5. paging' \in [at : {"off", "on", "over"}, below : 0..(MaxEvents + 1),
                   seen : SUBSET events', due : SUBSET events']
  BY <1>3, <1>4 DEF ControlInv, ControlOK
<1>6. ControlOK'
  BY <1>1, <1>2, <1>3, <1>4, <1>5 DEF ControlInv, ControlOK
<1>7. Compared'
  <2>1. singleton.revision \in Nat /\ \A v \in Window : loaded[v].revision \in Nat
    BY DEF ControlInv, ControlOK, Row
  <2>2. CASE tx[w].does = "settings"
    <3>1. \A v \in Window : tx'[v].does # "settings"
      BY <1>1, <2>2 DEF Writes
    <3>2. \A v \in Window : loaded'[v] = singleton' \/ loaded'[v].revision < singleton'.revision
      BY <1>2, <2>1, <2>2 DEF ControlInv, Compared
    <3>3. singleton'.revision \in Nat
      BY <1>2, <2>1, <2>2
    <3>4. ASSUME NEW v \in Window
          PROVE  /\ loaded'[v].revision <= singleton'.revision
                 /\ loaded'[v].revision = singleton'.revision => loaded'[v] = singleton'
      <4>1. CASE loaded'[v] = singleton'
        BY <3>3, <4>1
      <4>2. CASE loaded'[v] # singleton'
        BY <1>2, <2>1, <2>2, <3>2, <3>3, <4>2
      <4> QED BY <4>1, <4>2
    <3> QED BY <3>1, <3>4 DEF Compared
  <2>3. CASE tx[w].does # "settings"
    BY <1>1, <1>2, <2>3 DEF ControlInv, Compared, NoTx
  <2> QED BY <2>2, <2>3
<1>8. Roomy'
  <2>1. CASE tx[w].does = "entry"
    BY <1>1, <2>1 DEF Roomy, Writes
  <2>2. CASE tx[w].does # "entry"
    <3>1. UNCHANGED entries
      BY <1>2, <2>2
    <3>2. \A v \in Window \cup Recorder : tx'[v] \in {tx[v], NoTx}
      BY <1>1
    <3> QED BY <3>1, <3>2 DEF ControlInv, Roomy, NoTx
  <2> QED BY <2>1, <2>2
<1>9. Handed'
  BY <1>1, <1>3 DEF ControlInv, Handed
<1> QED BY <1>1, <1>6, <1>7, <1>8, <1>9 DEF ControlInv

-----------------------------------------------------------------------------
(* The greatest of a nonempty set of numbers up to a bound.                *)
LEMMA GreatestEvent ==
    ASSUME NEW n \in Nat, NEW S \in SUBSET (0..n), S # {}
    PROVE  \E x \in S : \A y \in S : y <= x
<1> DEFINE T == {n - x : x \in S}
<1>0. \A x \in S : x \in 0..n /\ n - x \in Nat
  OBVIOUS
<1>1. T \in SUBSET Nat /\ T # {}
  BY <1>0
<1> HIDE DEF T
<1>2. PICK t \in T : \A y \in T : t <= y
  BY <1>1, Least
<1>3. PICK x \in S : t = n - x
  BY <1>2 DEF T
<1>4. \A y \in S : n - x <= n - y
  BY <1>2, <1>3 DEF T
<1> QED BY <1>0, <1>3, <1>4

(* Events are numbers, up to the last one.                                 *)
LEMMA EventNumbers ==
    ASSUME ControlInv
    PROVE  /\ \A f \in events : f \in Nat /\ f <= lastEvent /\ f <= MaxEvents
           /\ events \in SUBSET (0..MaxEvents)
           /\ lastEvent \in Nat /\ MaxEvents \in Nat
<1>1. events \subseteq 1..lastEvent /\ lastEvent \in 0..MaxEvents /\ MaxEvents \in Nat
  BY ControlAssumption DEF ControlInv, ControlOK
<1>2. \A f \in events : f \in Nat /\ f <= lastEvent
  BY <1>1
<1>3. \A f \in events : f <= MaxEvents
  BY <1>1, <1>2
<1> QED BY <1>1, <1>2, <1>3

From(e, n) == {f \in events : e <= f /\ f < n}

(* What a page leaves out below its beginning comes after it, and there is *)
(* something only if the page is full.                                     *)
LEMMA PageIsDense ==
    ASSUME ControlInv, NEW n \in Nat, NEW e \in events, e < n, e \notin Page(n)
    PROVE  Cardinality(Page(n)) = PageSize /\ e < Min(Page(n))
<1> DEFINE P == Page(n)
<1>1. /\ events \in SUBSET (0..MaxEvents) /\ MaxEvents \in Nat /\ PageSize \in Nat \ {0}
      /\ IsFiniteSet(events) /\ \A f \in events : f \in Nat
  <2>1. /\ events \in SUBSET (0..MaxEvents) /\ MaxEvents \in Nat
        /\ \A f \in events : f \in Nat
    BY EventNumbers
  <2>2. IsFiniteSet(0..MaxEvents)
    BY <2>1, FS_Interval
  <2> QED BY <2>1, <2>2, FS_Subset, ControlAssumption
<1>2. \A f \in Nat : From(f, n) \subseteq events /\ IsFiniteSet(From(f, n))
                     /\ Cardinality(From(f, n)) \in Nat
  BY <1>1, FS_Subset, FS_CardinalityType DEF From
<1>3. P = {f \in events : f < n /\ Cardinality(From(f, n)) <= PageSize}
  BY DEF Page, From
<1> HIDE DEF P
<1>4. P \in SUBSET events /\ IsFiniteSet(P) /\ Cardinality(P) \in Nat
  BY <1>1, <1>3, FS_Subset, FS_CardinalityType
\* The greatest event that the page leaves out.
<1>5. PICK g \in events : /\ g < n /\ g \notin P
                          /\ \A f \in events : f < n /\ f \notin P => f <= g
  <2> DEFINE S == {f \in events : f < n /\ f \notin P}
  <2>1. S \in SUBSET (0..MaxEvents) /\ S # {}
    BY <1>1 DEF P
  <2>2. PICK g \in S : \A f \in S : f <= g
    BY <1>1, <2>1, GreatestEvent
  <2> QED BY <2>2
<1>6. Cardinality(From(g, n)) > PageSize
  BY <1>1, <1>2, <1>3, <1>5
<1>7. From(g, n) = (From(g, n) \ {g}) \cup {g} /\ g \in From(g, n)
  BY <1>1, <1>5 DEF From
<1>8. IsFiniteSet(From(g, n) \ {g})
      /\ Cardinality(From(g, n) \ {g}) = Cardinality(From(g, n)) - 1
  BY <1>1, <1>2, <1>7, FS_RemoveElement
<1>9. From(g, n) \ {g} \subseteq P
  <2> SUFFICES ASSUME NEW f \in From(g, n), f # g, f \notin P PROVE FALSE
    OBVIOUS
  <2>1. f \in events /\ g <= f /\ f < n /\ f <= g
    BY <1>5 DEF From
  <2>2. f \in Nat /\ g \in Nat
    BY <1>1, <2>1
  <2> QED BY <2>1, <2>2
<1>10. PageSize <= Cardinality(P)
  <2>1. Cardinality(From(g, n) \ {g}) <= Cardinality(P)
    BY <1>4, <1>9, FS_Subset
  <2> QED BY <1>1, <1>2, <1>4, <1>6, <1>8, <2>1
<1>11. P # {} /\ P \in SUBSET Nat /\ \A f \in P : f \in Nat
  BY <1>1, <1>4, <1>10, FS_EmptySet
<1>12. Min(P) \in P /\ \A f \in P : Min(P) <= f
  BY <1>11, Least
<1>13. P \subseteq From(Min(P), n)
  BY <1>3, <1>12 DEF From
<1>14. Cardinality(P) <= PageSize
  <2>1. Min(P) \in Nat /\ Cardinality(From(Min(P), n)) <= PageSize
    BY <1>3, <1>11, <1>12
  <2>2. Cardinality(P) <= Cardinality(From(Min(P), n))
    BY <1>2, <1>13, <2>1, FS_Subset
  <2> QED BY <1>1, <1>2, <1>4, <2>1, <2>2
<1>15. e < Min(P)
  <2> SUFFICES ASSUME ~(e < Min(P)) PROVE FALSE
    OBVIOUS
  <2>1. e \in Nat /\ Min(P) \in Nat
    BY <1>1, <1>11, <1>12
  <2>2. From(e, n) \subseteq From(Min(P), n)
    <3> SUFFICES ASSUME NEW f \in events, e <= f PROVE Min(P) <= f
      BY DEF From
    <3>1. f \in Nat
      BY <1>1
    <3> QED BY <2>1, <3>1
  <2>3. Cardinality(From(e, n)) <= Cardinality(From(Min(P), n))
    BY <1>2, <2>1, <2>2, FS_Subset
  <2>4. Cardinality(From(Min(P), n)) <= PageSize
    BY <1>3, <1>12
  <2>5. Cardinality(From(e, n)) <= PageSize
    BY <1>1, <1>2, <2>1, <2>3, <2>4
  <2>6. e \in P
    BY <1>3, <2>5
  <2> QED BY <2>6 DEF P
<1> QED BY <1>1, <1>4, <1>10, <1>14, <1>15 DEF P

(* A full page begins the next one at one of its events.                   *)
LEMMA PageEnds ==
    ASSUME ControlInv, NEW n \in Nat, Cardinality(Page(n)) = PageSize
    PROVE  Min(Page(n)) \in Page(n) /\ Page(n) \subseteq events
<1>1. Page(n) \subseteq events /\ events \in SUBSET Nat /\ PageSize # 0
  BY ControlAssumption DEF ControlInv, ControlOK, Page
<1>2. Page(n) # {}
  BY <1>1, FS_EmptySet
<1> QED BY <1>1, <1>2, Least

LEMMA TurnStep ==
    ASSUME ControlInv, PagingIsComplete, Turn
    PROVE  ControlInv' /\ PagingIsComplete'
<1> DEFINE n == paging.below
           P == Page(paging.below)
           full == Cardinality(P) = PageSize
<1>1. /\ paging \in [at : {"off", "on", "over"}, below : 0..(MaxEvents + 1),
                     seen : SUBSET events, due : SUBSET events]
      /\ MaxEvents \in Nat /\ paging.at = "on"
      /\ \A f \in events : f \in Nat /\ f <= MaxEvents
  BY EventNumbers DEF ControlInv, ControlOK, Turn
<1>2. n \in Nat /\ P \subseteq events
  BY <1>1 DEF Page
<1>3. full => Min(P) \in P
  BY <1>2, PageEnds
<1>4. /\ paging'.at = IF full THEN "on" ELSE "over"
      /\ paging'.below = IF full THEN Min(P) ELSE n
      /\ paging'.seen = paging.seen \cup P /\ paging'.due = paging.due
      /\ paging' \in [at : {"off", "on", "over"}, below : 0..(MaxEvents + 1),
                      seen : SUBSET events, due : SUBSET events]
  <2>1. paging' = [paging EXCEPT !.at = IF full THEN "on" ELSE "over",
                                 !.below = IF full THEN Min(P) ELSE n,
                                 !.seen = paging.seen \cup P]
    BY DEF Turn
  <2>2. (IF full THEN Min(P) ELSE n) \in 0..(MaxEvents + 1)
    <3>1. n \in 0..(MaxEvents + 1)
      BY <1>1
    <3>2. full => Min(P) \in Nat /\ Min(P) <= MaxEvents
      BY <1>1, <1>2, <1>3
    <3> HIDE DEF full, P, n
    <3> QED BY <1>1, <3>1, <3>2
  <2> HIDE DEF full, P, n
  <2> QED BY <1>1, <1>2, <2>1, <2>2
<1>5. UNCHANGED <<singleton, entries, events, lastEvent, lock, tx, loaded>>
  BY DEF Turn
<1>6. ControlInv'
  BY <1>4, <1>5 DEF ControlInv, ControlOK, Compared, Roomy, Handed, Apart, Writes
<1>7. \A e \in paging.due : e < n => e \in P \/ (full /\ e < Min(P))
  BY <1>1, <1>2, PageIsDense
<1>8. {e \in paging.due : e >= n} \subseteq paging.seen
  BY <1>1 DEF PagingIsComplete
<1>9. \A e \in paging.due : e \in Nat
  <2>1. paging.due \subseteq events
    BY <1>1
  <2> QED BY <1>1, <2>1
<1>10. CASE full
  <2>1. \A e \in paging.due : e >= Min(P) => e \in paging.seen \cup P
    <3> HIDE DEF full
    <3>1. Min(P) \in events
      BY <1>2, <1>3, <1>10
    <3>2. Min(P) \in Nat
      BY <1>1, <3>1
    <3> HIDE DEF P, n
    <3> QED BY <1>2, <1>7, <1>8, <1>9, <1>10, <3>2
  <2> HIDE DEF full, P, n
  <2> QED BY <1>4, <1>6, <1>10, <2>1 DEF PagingIsComplete
<1>11. CASE ~full
  <2> HIDE DEF full, P, n
  <2>1. \A e \in paging.due : e \in paging.seen \cup P
    BY <1>2, <1>7, <1>8, <1>9, <1>11
  <2> QED BY <1>4, <1>6, <1>11, <2>1 DEF PagingIsComplete
<1> QED BY <1>10, <1>11

-----------------------------------------------------------------------------
LEMMA LoadStep == ASSUME ControlInv, NEW w \in Window, Load(w) PROVE ControlInv'
<1>1. loaded \in [Window -> Row] /\ singleton \in Row
      /\ loaded' = [loaded EXCEPT ![w] = singleton]
      /\ UNCHANGED <<singleton, entries, events, lastEvent, lock, tx, paging>>
  BY DEF ControlInv, ControlOK, Load
<1>2. loaded' \in [Window -> Row] /\ loaded'[w] = singleton
      /\ \A v \in Window \ {w} : loaded'[v] = loaded[v]
  BY <1>1
<1>3. ControlOK'
  BY <1>1, <1>2 DEF ControlInv, ControlOK
<1>4. singleton.revision \in Nat
  BY <1>1 DEF Row
<1>5. Compared'
  BY <1>1, <1>2, <1>4 DEF ControlInv, Compared
<1> QED BY <1>1, <1>3, <1>5 DEF ControlInv, Roomy, Handed, Apart, Writes

LEMMA OpenStep == ASSUME ControlInv, Open PROVE ControlInv' /\ PagingIsComplete'
<1>1. /\ paging' = [at |-> "on", below |-> lastEvent + 1, seen |-> {}, due |-> events]
      /\ UNCHANGED <<singleton, entries, events, lastEvent, lock, tx, loaded>>
  BY DEF Open
<1>2. events \subseteq 1..lastEvent /\ lastEvent \in 0..MaxEvents /\ MaxEvents \in Nat
  BY ControlAssumption DEF ControlInv, ControlOK
<1>3. paging' \in [at : {"off", "on", "over"}, below : 0..(MaxEvents + 1),
                   seen : SUBSET events, due : SUBSET events]
  BY <1>1, <1>2
<1>4. ControlInv'
  BY <1>1, <1>3 DEF ControlInv, ControlOK, Compared, Roomy, Handed, Apart, Writes
<1>5. PagingIsComplete'
  <2>1. \A e \in events : ~(e >= lastEvent + 1)
    BY EventNumbers
  <2> QED BY <1>1, <2>1 DEF PagingIsComplete
<1> QED BY <1>4, <1>5

LEMMA ControlStep ==
    ControlInv /\ PagingIsComplete /\ [ControlNext]_control => ControlInv' /\ PagingIsComplete'
<1> SUFFICES ASSUME ControlInv, PagingIsComplete, [ControlNext]_control
             PROVE  ControlInv' /\ PagingIsComplete'
  OBVIOUS
<1>1. ASSUME UNCHANGED paging PROVE PagingIsComplete'
  BY <1>1 DEF PagingIsComplete
<1>2. ASSUME NEW w \in Window, Load(w) PROVE ControlInv' /\ PagingIsComplete'
  BY <1>1, <1>2, LoadStep DEF Load
<1>3. ASSUME NEW w \in Window, NEW c \in Configuration, SaveSettings(w, c)
      PROVE  ControlInv' /\ PagingIsComplete'
  BY <1>1, <1>3, SaveSettingsStep DEF SaveSettings
<1>4. ASSUME NEW w \in Window, NEW in \in Catalogue, NEW key \in Entry, SaveEntry(w, in, key)
      PROVE  ControlInv' /\ PagingIsComplete'
  BY <1>1, <1>4, SaveEntryStep DEF SaveEntry
<1>5. ASSUME NEW r \in Recorder, Record(r) PROVE ControlInv' /\ PagingIsComplete'
  BY <1>1, <1>5, RecordStep DEF Record
<1>6. ASSUME NEW w \in Window \cup Recorder, Commit(w) PROVE ControlInv' /\ PagingIsComplete'
  BY <1>1, <1>6, CommitStep DEF Commit
<1>7. ASSUME NEW w \in Window \cup Recorder, Rollback(w) PROVE ControlInv' /\ PagingIsComplete'
  BY <1>1, <1>7, RollbackStep DEF Rollback
<1>8. CASE Open
  BY <1>8, OpenStep
<1>9. CASE Turn
  BY <1>9, TurnStep
<1>10. CASE UNCHANGED control
  BY <1>1, <1>10 DEF control, ControlInv, ControlOK, Compared, Roomy, Handed, Apart, Writes
<1> QED BY <1>2, <1>3, <1>4, <1>5, <1>6, <1>7, <1>8, <1>9, <1>10 DEF ControlNext

LEMMA ControlHolds == ControlSpec => [](ControlInv /\ PagingIsComplete)
<1>1. ControlInit => PagingIsComplete
  BY DEF ControlInit, PagingIsComplete
<1> QED BY <1>1, InitInv, ControlStep, PTL DEF ControlSpec

(* The lock is held by whoever writes, and no catalogue exceeds its bound. *)
THEOREM ControlIsOK == ControlSpec => []ControlOK
<1>1. ControlInv => ControlOK
  BY DEF ControlInv
<1> QED BY <1>1, ControlHolds, PTL

(* Paging to the end shows every event that was there when it began.       *)
THEOREM PagesAreComplete == ControlSpec => []PagingIsComplete
  BY ControlHolds, PTL

(* No save overwrites settings that its window has not seen.               *)
THEOREM UpdatesAreKept == ControlSpec => NoLostUpdate
<1> DEFINE A == singleton' # singleton =>
                    \E w \in Window : tx[w].does = "settings" /\ loaded[w] = singleton
<1>1. ControlInv /\ [ControlNext]_control => [A]_control
  <2> SUFFICES ASSUME ControlInv, ControlNext, singleton' # singleton
               PROVE  \E w \in Window : tx[w].does = "settings" /\ loaded[w] = singleton
    BY DEF control
  <2>1. PICK w \in Window \cup Recorder : Commit(w) /\ tx[w].does = "settings"
    BY DEF ControlNext, Load, SaveSettings, SaveEntry, Record, Commit, Rollback, Open, Turn
  <2>2. w \in Window
    BY <2>1, Committed DEF Writes
  <2> QED BY <2>1, <2>2 DEF ControlInv, Compared
<1> QED BY <1>1, ControlHolds, PTL DEF ControlSpec, NoLostUpdate

-----------------------------------------------------------------------------
(* The streamed request.  Its steps are steps of ModelRequest or invisible *)
(* there.  What the client has heard and what is on the wire make up what  *)
(* the server has said, in order, and the end mark is the last line; so    *)
(* whoever hears it has heard everything.                                  *)
(* pos[i] pieces have been said up to line i of the wire, pos[0] of them   *)
(* have been heard.                                                        *)
Follows(pos) ==
    /\ pos \in [0..Len(wire) -> Nat]
    /\ pos[0] = Len(content) /\ pos[Len(wire)] = Len(said)
    /\ \A i, j \in 0..Len(wire) : i <= j => pos[i] <= pos[j]
    /\ \A i \in 1..Len(wire) :
          IF wire[i].is = "piece" THEN pos[i] = pos[i - 1] + 1 /\ wire[i].piece = said[pos[i]]
          ELSE pos[i] = pos[i - 1]

InOrder ==
    /\ \E pos : Follows(pos)
    /\ \A k \in 1..Len(content) : content[k] = said[k]

(* A mark on the wire was sent, the end mark last; who has heard that is   *)
(* finished.                                                               *)
MarksAgree ==
    /\ \A i \in 1..Len(wire) :
          /\ wire[i].is \in {"reason", "done"} => wire[i].is \in marks
          /\ wire[i].is = "done" => i = Len(wire)
    /\ "done" \in heard => stage = "closed"

Domains ==
    /\ stage \in {"idle", "opening", "checking", "reading", "closed"}
    /\ wire \in Seq(Line) /\ Len(wire) <= MaxWire
    /\ tail \in {"silence", "trickle", "stalled", "cut"}
    /\ said \in Seq(Piece) /\ Len(said) <= MaxPieces
    /\ content \in Seq(Piece)
    /\ heard \subseteq marks /\ marks \subseteq {"reason", "done"}
    /\ late \in BOOLEAN /\ abandoned \in BOOLEAN

Staged ==
    /\ stage = "idle" <=> outcome = Outcome("none")
    /\ stage \in {"opening", "checking", "reading"} <=> outcome = Outcome("pending")

Typed == Domains /\ Staged

StreamInv == Typed /\ InOrder /\ MarksAgree

\* The outcomes are told apart.
LEMMA Outcomes ==
    /\ Outcome("none") # Outcome("pending") /\ Error # Outcome("none") /\ Error # Outcome("pending")
    /\ \A t : /\ [kind |-> "answered", text |-> t] # Outcome("none")
              /\ [kind |-> "answered", text |-> t] # Outcome("pending")
  BY DEF Outcome, Error

(* The lines, told apart by what they are.                                 *)
LEMMA Lines ==
    ASSUME NEW l \in Line
    PROVE  /\ l.is \in {"piece", "reason", "done", "comment", "bad"}
           /\ l.is = "piece" => l.piece \in Piece
  BY DEF Line, Text, Mark, Comment, Bad

LEMMA StartInv == StreamInit => StreamInv
<1> SUFFICES ASSUME StreamInit PROVE StreamInv
  OBVIOUS
<1>1. Domains
  <2>1. << >> \in Seq(Line) /\ << >> \in Seq(Piece) /\ Len(<< >>) = 0
    OBVIOUS
  <2>2. 0 <= MaxWire /\ 0 <= MaxPieces
    BY StreamAssumption
  <2> QED BY <2>1, <2>2 DEF StreamInit, Domains
<1>4. Staged
  BY Outcomes DEF StreamInit, Staged
<1>2. Follows([i \in {0} |-> 0])
  BY DEF StreamInit, Follows
<1>3. InOrder /\ MarksAgree
  BY <1>2 DEF StreamInit, InOrder, MarksAgree
<1> QED BY <1>1, <1>3, <1>4 DEF StreamInv, Typed

-----------------------------------------------------------------------------
(* A step that touches neither the wire nor what is said and heard.        *)
LEMMA Quiet ==
    ASSUME StreamInv, UNCHANGED <<wire, said, marks, content, heard>>
    PROVE  InOrder'
<1>1. PICK pos : Follows(pos)
  BY DEF StreamInv, InOrder
<1>2. Follows(pos)'
  BY <1>1 DEF Follows
<1> QED BY <1>2 DEF StreamInv, InOrder

(* The server sends a line.                                                *)
LEMMA EmitStep ==
    ASSUME StreamInv, NEW l \in Line, Emit(l), UNCHANGED <<client, circumstances>>,
           IF l.is = "piece" THEN said' = Append(said, l.piece) /\ Len(said) < MaxPieces
                             ELSE said' = said,
           marks' = marks \cup (IF l.is \in {"reason", "done"} THEN {l.is} ELSE {})
    PROVE  StreamInv'
<1> DEFINE n == Len(wire)
<1>1. /\ wire \in Seq(Line) /\ n \in Nat /\ n < MaxWire /\ MaxWire \in Nat /\ MaxPieces \in Nat
      /\ said \in Seq(Piece) /\ Len(said) \in Nat /\ content \in Seq(Piece) /\ Len(content) \in Nat
      /\ "done" \notin marks /\ stage \in {"checking", "reading", "closed"}
  BY StreamAssumption DEF StreamInv, Typed, Domains, Staged, Emit, Connected
<1>2. /\ wire' = Append(wire, l) /\ wire' \in Seq(Line) /\ Len(wire') = n + 1
      /\ wire'[n + 1] = l /\ \A i \in 1..n : wire'[i] = wire[i]
  BY <1>1 DEF Emit
<1>3. /\ said' \in Seq(Piece) /\ Len(said') <= MaxPieces
      /\ Len(said') = IF l.is = "piece" THEN Len(said) + 1 ELSE Len(said)
      /\ \A k \in 1..Len(said) : said'[k] = said[k]
      /\ l.is = "piece" => said'[Len(said) + 1] = l.piece
  <2>1. CASE l.is = "piece"
    <3>1. said' = Append(said, l.piece) /\ l.piece \in Piece /\ Len(said) < MaxPieces
      BY <2>1, Lines
    <3>2. /\ said' \in Seq(Piece) /\ Len(said') = Len(said) + 1
          /\ \A k \in 1..Len(said) : said'[k] = said[k]
          /\ said'[Len(said) + 1] = l.piece
      BY <1>1, <3>1
    <3> QED BY <1>1, <2>1, <3>1, <3>2
  <2>2. CASE l.is # "piece"
    BY <2>2 DEF StreamInv, Typed, Domains, Staged
  <2> QED BY <2>1, <2>2
<1>4. Typed'
  <2>1. UNCHANGED <<stage, content, heard, outcome, late, abandoned>> /\ tail' = "silence"
    BY DEF client, circumstances, Emit
  <2>2. marks' \subseteq {"reason", "done"} /\ heard' \subseteq marks'
    BY <2>1 DEF StreamInv, Typed, Domains
  <2>3. Domains'
    BY <1>1, <1>2, <1>3, <2>1, <2>2 DEF StreamInv, Typed, Domains
  <2> QED BY <2>1, <2>3 DEF StreamInv, Typed, Staged
<1>5. InOrder'
  <2>1. PICK pos : Follows(pos)
    BY DEF StreamInv, InOrder
  <2>0. PICK new : new = [i \in 0..(n + 1) |-> IF i = n + 1 THEN Len(said') ELSE pos[i]]
    OBVIOUS
  <2>2. /\ pos \in [0..n -> Nat] /\ pos[0] = Len(content) /\ pos[n] = Len(said)
        /\ \A i, j \in 0..n : i <= j => pos[i] <= pos[j]
        /\ \A i \in 1..n : IF wire[i].is = "piece"
              THEN pos[i] = pos[i - 1] + 1 /\ wire[i].piece = said[pos[i]] ELSE pos[i] = pos[i - 1]
    BY <2>1 DEF Follows
  <2>3. Len(said') \in Nat /\ Len(said) <= Len(said') /\ content' = content
    BY <1>1, <1>3 DEF client
  <2>4. /\ new \in [0..(n + 1) -> Nat] /\ new[n + 1] = Len(said')
        /\ \A i \in 0..n : new[i] = pos[i] /\ pos[i] \in Nat /\ pos[i] <= Len(said)
    <3>1. \A i \in 0..n : pos[i] \in Nat /\ pos[i] <= Len(said)
      <4> SUFFICES ASSUME NEW i \in 0..n PROVE pos[i] \in Nat /\ pos[i] <= Len(said)
        OBVIOUS
      <4>1. n \in 0..n /\ i <= n
        BY <1>1
      <4> HIDE DEF n
      <4>2. pos[i] <= pos[n]
        BY <2>2, <4>1
      <4> QED BY <2>2, <4>2
    <3>2. \A i \in 0..n : i \in 0..(n + 1) /\ i # n + 1
      BY <1>1
    <3>3. \A i \in 0..(n + 1) : i \in 0..n \/ i = n + 1
      BY <1>1
    <3>4. n + 1 \in 0..(n + 1)
      BY <1>1
    <3> QED BY <2>0, <2>3, <3>1, <3>2, <3>3, <3>4
  <2>5. new[0] = Len(content)
    BY <1>1, <2>2, <2>4
  <2>6. \A i, j \in 0..(n + 1) : i <= j => new[i] <= new[j]
    <3> SUFFICES ASSUME NEW i \in 0..(n + 1), NEW j \in 0..(n + 1), i <= j
                 PROVE  new[i] <= new[j]
      OBVIOUS
    <3>1. CASE j \in 0..n
      <4>1. i \in 0..n
        BY <1>1, <3>1
      <4>2. new[i] = pos[i] /\ new[j] = pos[j] /\ pos[i] <= pos[j]
        BY <2>2, <2>4, <3>1, <4>1
      <4> QED BY <4>2
    <3>2. CASE j = n + 1 /\ i \in 0..n
      <4>1. new[i] \in Nat /\ new[i] <= Len(said) /\ new[j] = Len(said')
        BY <2>4, <3>2
      <4> QED BY <1>1, <2>3, <4>1
    <3>3. CASE j = n + 1 /\ i = n + 1
      BY <2>3, <2>4, <3>3
    <3> QED BY <1>1, <3>1, <3>2, <3>3
  <2>7. ASSUME NEW i \in 1..(n + 1)
        PROVE  IF wire'[i].is = "piece"
               THEN new[i] = new[i - 1] + 1 /\ wire'[i].piece = said'[new[i]]
               ELSE new[i] = new[i - 1]
    <3>1. CASE i = n + 1
      <4>1. i - 1 = n /\ n \in 0..n
        BY <1>1, <3>1
      <4>2. new[i - 1] = Len(said) /\ new[i] = Len(said')
        BY <2>2, <2>4, <3>1, <4>1
      <4> QED BY <1>2, <1>3, <3>1, <4>2
    <3>2. CASE i # n + 1
      <4>1. i \in 1..n /\ i \in 0..n /\ i - 1 \in 0..n
        BY <1>1, <3>2
      <4>2. wire'[i] = wire[i] /\ new[i] = pos[i] /\ new[i - 1] = pos[i - 1]
        BY <1>2, <2>4, <4>1
      <4>3. CASE wire[i].is = "piece"
        <5>1. pos[i] = pos[i - 1] + 1 /\ wire[i].piece = said[pos[i]]
          BY <2>2, <4>1, <4>3
        <5>2. pos[i] \in 1..Len(said)
          <6>1. pos[i] \in Nat /\ pos[i - 1] \in Nat /\ pos[i] <= Len(said)
            BY <2>4, <4>1
          <6> QED BY <1>1, <5>1, <6>1
        <5> QED BY <1>3, <4>2, <4>3, <5>1, <5>2
      <4>4. CASE wire[i].is # "piece"
        BY <2>2, <4>1, <4>2, <4>4
      <4> QED BY <4>3, <4>4
    <3> QED BY <3>1, <3>2
  <2>8. Follows(new)'
    BY <1>2, <2>3, <2>4, <2>5, <2>6, <2>7 DEF Follows
  <2>9. Len(content) <= Len(said)
    BY <1>1, <2>2
  <2>10. \A k \in 1..Len(content) : content[k] = said'[k]
    BY <1>1, <1>3, <2>9 DEF StreamInv, InOrder
  <2> QED BY <2>3, <2>8, <2>10 DEF InOrder
<1>6. MarksAgree'
  <2>1. UNCHANGED <<heard, stage>>
    BY DEF client
  <2>2. \A i \in 1..n : wire[i].is # "done"
    BY <1>1 DEF StreamInv, MarksAgree
  <2> QED BY <1>1, <1>2, <2>1, <2>2 DEF StreamInv, MarksAgree
<1> QED BY <1>4, <1>5, <1>6 DEF StreamInv

LEMMA SpeaksStep == ASSUME StreamInv, Speaks PROVE StreamInv'
<1>1. ASSUME NEW p \in Piece, Len(said) < MaxPieces, Emit(Text(p)), said' = Append(said, p),
             UNCHANGED marks
      PROVE  StreamInv'
  <2>1. Text(p) \in Line /\ Text(p).is = "piece" /\ Text(p).piece = p
    BY DEF Line, Text
  <2> QED BY <1>1, <2>1, EmitStep DEF Speaks
<1>2. ASSUME NEW m \in {"reason", "done"}, Emit(Mark(m)), marks' = marks \cup {m}, UNCHANGED said
      PROVE  StreamInv'
  <2>1. Mark(m) \in Line /\ Mark(m).is = m
    BY DEF Line, Mark
  <2> QED BY <1>2, <2>1, EmitStep DEF Speaks
<1>3. ASSUME NEW l \in {Comment, Bad}, Emit(l), UNCHANGED server
      PROVE  StreamInv'
  <2>1. l \in Line /\ l.is \notin {"piece", "reason", "done"}
    BY DEF Line, Comment, Bad
  <2> QED BY <1>3, <2>1, EmitStep DEF Speaks, server
<1> QED BY <1>1, <1>2, <1>3 DEF Speaks

-----------------------------------------------------------------------------
(* The client takes a line off the wire and hears it.                      *)
LEMMA TakeStep ==
    ASSUME StreamInv, wire # << >>, wire' = Tail(wire), UNCHANGED server,
           IF Head(wire).is = "piece" THEN content' = Append(content, Head(wire).piece)
                                      ELSE content' = content
    PROVE  /\ wire' \in Seq(Line) /\ Len(wire') = Len(wire) - 1 /\ content' \in Seq(Piece)
           /\ InOrder'
           /\ \A i \in 1..Len(wire') : wire'[i] = wire[i + 1]
<1> DEFINE n == Len(wire)
           l == Head(wire)
<1>1. /\ wire \in Seq(Line) /\ n \in Nat \ {0} /\ l = wire[1] /\ l \in Line
      /\ said \in Seq(Piece) /\ Len(said) \in Nat /\ content \in Seq(Piece) /\ Len(content) \in Nat
      /\ UNCHANGED said
  BY DEF StreamInv, Typed, Domains, Staged, server
<1>2. wire' \in Seq(Line) /\ Len(wire') = n - 1 /\ \A i \in 1..(n - 1) : wire'[i] = wire[i + 1]
  BY <1>1
<1>3. /\ content' \in Seq(Piece)
      /\ Len(content') = IF l.is = "piece" THEN Len(content) + 1 ELSE Len(content)
      /\ \A k \in 1..Len(content) : content'[k] = content[k]
      /\ l.is = "piece" => content'[Len(content) + 1] = l.piece
  <2>1. CASE l.is = "piece"
    <3>1. content' = Append(content, l.piece) /\ l.piece \in Piece
      BY <1>1, <2>1, Lines
    <3> HIDE DEF l
    <3>2. /\ content' \in Seq(Piece) /\ Len(content') = Len(content) + 1
          /\ \A k \in 1..Len(content) : content'[k] = content[k]
          /\ content'[Len(content) + 1] = l.piece
      BY <1>1, <3>1
    <3> QED BY <2>1, <3>2
  <2>2. CASE l.is # "piece"
    BY <1>1, <2>2
  <2> QED BY <2>1, <2>2
<1>4. PICK pos : Follows(pos)
  BY DEF StreamInv, InOrder
<1>5. /\ pos \in [0..n -> Nat] /\ pos[0] = Len(content) /\ pos[n] = Len(said)
      /\ \A i, j \in 0..n : i <= j => pos[i] <= pos[j]
      /\ \A i \in 1..n : IF wire[i].is = "piece"
            THEN pos[i] = pos[i - 1] + 1 /\ wire[i].piece = said[pos[i]] ELSE pos[i] = pos[i - 1]
  BY <1>4 DEF Follows
<1>0. PICK new : new = [i \in 0..(n - 1) |-> pos[i + 1]]
  OBVIOUS
<1>6. /\ new \in [0..(n - 1) -> Nat] /\ \A i \in 0..(n - 1) : new[i] = pos[i + 1]
  BY <1>1, <1>5, <1>0
<1> HIDE DEF l
<1>7. pos[1] = Len(content') /\ (l.is = "piece" => l.piece = said[pos[1]])
  <2>1. 1 \in 1..n /\ 1 - 1 = 0
    BY <1>1
  <2> QED BY <1>1, <1>3, <1>5, <2>1
<1>8. new[0] = Len(content') /\ new[n - 1] = Len(said)
  BY <1>1, <1>5, <1>6, <1>7
<1>9. \A i, j \in 0..(n - 1) : i <= j => new[i] <= new[j]
  BY <1>1, <1>5, <1>6
<1>10. ASSUME NEW i \in 1..(n - 1)
       PROVE  IF wire'[i].is = "piece"
              THEN new[i] = new[i - 1] + 1 /\ wire'[i].piece = said[new[i]] ELSE new[i] = new[i - 1]
  <2>1. i + 1 \in 1..n /\ i \in 0..(n - 1) /\ i - 1 \in 0..(n - 1) /\ (i - 1) + 1 = i
        /\ (i + 1) - 1 = i
    BY <1>1
  <2>2. wire'[i] = wire[i + 1] /\ new[i] = pos[i + 1] /\ new[i - 1] = pos[i]
    BY <1>2, <1>6, <2>1
  <2> QED BY <1>5, <2>1, <2>2
<1>11. Follows(new)'
  BY <1>1, <1>2, <1>6, <1>8, <1>9, <1>10 DEF Follows
<1>12. \A k \in 1..Len(content') : content'[k] = said[k]
  <2>1. \A k \in 1..Len(content) : content[k] = said[k]
    BY DEF StreamInv, InOrder
  <2> QED BY <1>1, <1>3, <1>7, <2>1
<1> QED BY <1>1, <1>2, <1>3, <1>11, <1>12 DEF InOrder

(* Whoever has taken the end mark off the wire has heard everything.       *)
LEMMA HeardAll ==
    ASSUME StreamInv, wire # << >>, Head(wire).is = "done"
    PROVE  content = said /\ "done" \in marks
<1>1. wire \in Seq(Line) /\ Len(wire) \in Nat \ {0} /\ Head(wire) = wire[1]
      /\ said \in Seq(Piece) /\ content \in Seq(Piece)
  BY DEF StreamInv, Typed, Domains, Staged
<1>2. Len(wire) = 1 /\ "done" \in marks
  <2>1. 1 \in 1..Len(wire) /\ wire[1].is = "done"
    BY <1>1
  <2> QED BY <1>1, <2>1 DEF StreamInv, MarksAgree
<1>3. Len(content) = Len(said)
  BY <1>1, <1>2 DEF StreamInv, InOrder, Follows
<1>4. \A k \in 1..Len(content) : content[k] = said[k]
  BY DEF StreamInv, InOrder
<1>5. content = said
  BY <1>1, <1>3, <1>4
<1> QED BY <1>2, <1>5

(* A verdict is an end.                                                    *)
LEMMA Verdicts ==
    \A m : Verdict(m) # Outcome("none") /\ Verdict(m) # Outcome("pending")
  BY Outcomes DEF Verdict

(* What every way to hear a line has in common.                            *)
LEMMA Heard ==
    ASSUME StreamInv, wire # << >>, wire' = Tail(wire), stage = "reading",
           UNCHANGED <<tail, server, circumstances>>,
           IF Head(wire).is = "piece" THEN content' = Append(content, Head(wire).piece)
                                      ELSE content' = content,
           \/ heard' = heard
           \/ Head(wire).is \in {"reason", "done"} /\ heard' = heard \cup {Head(wire).is},
           \/ stage' = "checking" /\ outcome' = outcome /\ ("done" \in heard' => "done" \in heard)
           \/ stage' = "closed" /\ outcome' # Outcome("none") /\ outcome' # Outcome("pending")
    PROVE  StreamInv'
<1> DEFINE l == Head(wire)
<1>1. /\ wire \in Seq(Line) /\ Len(wire) \in Nat \ {0} /\ l = wire[1] /\ 1 \in 1..Len(wire)
      /\ UNCHANGED <<said, marks, late, abandoned, tail>>
  BY DEF StreamInv, Typed, Domains, server, circumstances
<1>2. /\ wire' \in Seq(Line) /\ Len(wire') = Len(wire) - 1 /\ content' \in Seq(Piece)
      /\ InOrder'
      /\ \A i \in 1..Len(wire') : wire'[i] = wire[i + 1]
  BY TakeStep
<1>3. heard' \subseteq marks
  <2>1. l.is \in {"reason", "done"} => l.is \in marks
    BY <1>1 DEF StreamInv, MarksAgree
  <2> QED BY <2>1 DEF StreamInv, Typed, Domains
<1>4. Domains'
  <2>1. Len(wire') <= MaxWire
    BY <1>1, <1>2, StreamAssumption DEF StreamInv, Typed, Domains
  <2> QED BY <1>1, <1>2, <1>3, <2>1 DEF StreamInv, Typed, Domains
<1>5. Staged'
  BY Outcomes DEF StreamInv, Typed, Staged
<1>6. MarksAgree'
  <2>1. \A i \in 1..Len(wire') : i + 1 \in 1..Len(wire)
    BY <1>1, <1>2
  <2>2. "done" \in heard' => stage' = "closed"
    BY DEF StreamInv, MarksAgree
  <2>3. ASSUME NEW i \in 1..Len(wire')
        PROVE  /\ wire'[i].is \in {"reason", "done"} => wire'[i].is \in marks'
               /\ wire'[i].is = "done" => i = Len(wire')
    <3>1. wire'[i] = wire[i + 1] /\ i + 1 \in 1..Len(wire) /\ marks' = marks
      BY <1>1, <1>2, <2>1
    <3>2. wire[i + 1].is = "done" => i + 1 = Len(wire)
      BY <3>1 DEF StreamInv, MarksAgree
    <3>3. wire[i + 1].is \in {"reason", "done"} => wire[i + 1].is \in marks
      BY <3>1 DEF StreamInv, MarksAgree
    <3>4. i + 1 = Len(wire) => i = Len(wire')
      <4>1. PICK m \in Nat : m = Len(wire)
        BY <1>1
      <4>2. Len(wire') = m - 1 /\ i \in Int
        BY <1>2, <4>1
      <4>3. i + 1 = m => i = m - 1
        BY <4>2
      <4> QED BY <4>1, <4>2, <4>3
    <3> QED BY <3>1, <3>2, <3>3, <3>4
  <2> QED BY <2>2, <2>3 DEF MarksAgree
<1> QED BY <1>2, <1>4, <1>5, <1>6 DEF StreamInv, Typed

LEMMA ReadLineStep ==
    ASSUME StreamInv, ReadLine
    PROVE  StreamInv'
<1> DEFINE l == Head(wire)
<1>1. /\ wire \in Seq(Line) /\ Len(wire) \in Nat \ {0} /\ l = wire[1] /\ l \in Line
      /\ stage = "reading" /\ wire # << >> /\ outcome = Outcome("pending")
      /\ UNCHANGED <<tail, server, circumstances>> /\ wire' = Tail(wire)
  BY DEF StreamInv, Typed, Domains, Staged, ReadLine
<1>2. l.is \in {"piece", "reason", "done", "comment", "bad"}
  BY <1>1, Lines
<1>3. CASE l.is = "piece"
  <2>1. stage' = "checking" /\ content' = Append(content, l.piece) /\ UNCHANGED <<heard, outcome>>
    BY <1>3 DEF ReadLine
  <2> QED BY <1>1, <1>3, <2>1, Heard
<1>4. CASE l.is = "comment"
  <2>1. stage' = "checking" /\ UNCHANGED <<content, heard, outcome>>
    BY <1>4 DEF ReadLine
  <2> QED BY <1>1, <1>4, <2>1, Heard
<1>5. CASE l.is = "reason"
  <2>1. stage' = "checking" /\ heard' = heard \cup {"reason"} /\ UNCHANGED <<content, outcome>>
    BY <1>5 DEF ReadLine
  <2> QED BY <1>1, <1>5, <2>1, Heard
<1>6. CASE l.is = "done"
  <2>1. stage' = "closed" /\ heard' = heard \cup {"done"} /\ outcome' = Verdict(heard')
        /\ UNCHANGED content
    BY <1>6 DEF ReadLine
  <2> QED BY <1>1, <1>6, <2>1, Heard, Verdicts
<1>7. CASE l.is = "bad"
  <2>1. stage' = "closed" /\ outcome' = Error /\ UNCHANGED <<content, heard>>
    BY <1>7 DEF ReadLine, Close
  <2> QED BY <1>1, <1>7, <2>1, Heard, Outcomes
<1> QED BY <1>2, <1>3, <1>4, <1>5, <1>6, <1>7

(* Every other step of the client leaves wire and hearing alone.           *)
LEMMA OtherStep ==
    ASSUME StreamInv,
           Trickles \/ Stalls \/ Cut \/ Expires \/ Abandon
           \/ Dial \/ Opened \/ OpenFails \/ Check \/ ReadEnd \/ ReadTimeout
    PROVE  StreamInv'
<1>1. UNCHANGED <<wire, said, marks, content, heard>>
  BY DEF Trickles, Stalls, Cut, Expires, Abandon, Dial, Opened, OpenFails, Check, ReadEnd,
         ReadTimeout, Close, server, client
<1>2. InOrder'
  BY <1>1, Quiet
<1>3. ASSUME NEW o, Close(o), stage \in {"opening", "checking", "reading"},
             o # Outcome("none"), o # Outcome("pending"),
             UNCHANGED <<tail, circumstances>>
      PROVE  Typed' /\ MarksAgree'
  BY <1>1, <1>3 DEF StreamInv, Typed, Domains, Staged, MarksAgree, Close, circumstances
<1>4. ASSUME UNCHANGED client,
             tail' \in {"silence", "trickle", "stalled", "cut"}, late' \in BOOLEAN,
             abandoned' \in BOOLEAN
      PROVE  Typed' /\ MarksAgree'
  BY <1>1, <1>4 DEF StreamInv, Typed, Domains, Staged, MarksAgree, client
<1>5. CASE Trickles \/ Stalls \/ Cut \/ Expires \/ Abandon
  <2>1. UNCHANGED client
    BY <1>5 DEF Trickles, Stalls, Cut, Expires, Abandon
  <2>2. /\ tail' \in {"silence", "trickle", "stalled", "cut"} /\ late' \in BOOLEAN
        /\ abandoned' \in BOOLEAN
    BY <1>5 DEF Trickles, Stalls, Cut, Expires, Abandon, circumstances, StreamInv, Typed, Domains, Staged
  <2> QED BY <1>2, <1>4, <2>1, <2>2 DEF StreamInv
<1>6. CASE Dial \/ Opened
  <2>1. Typed'
    BY <1>1, <1>6, Outcomes DEF Dial, Opened, StreamInv, Typed, Domains, Staged, circumstances
  <2>2. MarksAgree'
    BY <1>1, <1>6 DEF Dial, Opened, StreamInv, MarksAgree
  <2> QED BY <1>2, <2>1, <2>2 DEF StreamInv
<1>7. CASE OpenFails \/ ReadTimeout \/ (Check /\ Close(Error))
  <2>1. stage \in {"opening", "checking", "reading"} /\ Close(Error)
        /\ UNCHANGED <<tail, circumstances>>
    BY <1>7 DEF OpenFails, ReadTimeout, Check
  <2> QED BY <1>2, <1>3, <2>1, Outcomes DEF StreamInv
<1>8. CASE ReadEnd
  <2>1. stage = "reading" /\ Close(Verdict(heard)) /\ UNCHANGED <<tail, circumstances>>
    BY <1>8 DEF ReadEnd
  <2> QED BY <1>2, <1>3, <2>1, Verdicts DEF StreamInv
<1>9. CASE Check /\ ~Close(Error)
  <2>1. stage = "checking" /\ stage' = "reading"
        /\ UNCHANGED <<content, heard, outcome, tail, circumstances>>
    BY <1>9 DEF Check
  <2>2. Typed'
    BY <1>1, <2>1, Outcomes DEF StreamInv, Typed, Domains, Staged, circumstances
  <2>3. MarksAgree'
    BY <1>1, <2>1 DEF StreamInv, MarksAgree
  <2> QED BY <1>2, <2>2, <2>3 DEF StreamInv
<1> QED BY <1>5, <1>6, <1>7, <1>8, <1>9

LEMMA StreamStep == StreamInv /\ [StreamNext]_stream => StreamInv'
<1> SUFFICES ASSUME StreamInv, [StreamNext]_stream PROVE StreamInv'
  OBVIOUS
<1>1. CASE UNCHANGED stream
  <2>1. InOrder'
    BY <1>1, Quiet DEF stream
  <2>2. Typed' /\ MarksAgree'
    BY <1>1 DEF stream, StreamInv, Typed, Domains, Staged, MarksAgree
  <2> QED BY <2>1, <2>2 DEF StreamInv
<1> QED BY <1>1, SpeaksStep, ReadLineStep, OtherStep DEF StreamNext, Client

LEMMA StreamHolds == StreamSpec => []StreamInv
  BY StartInv, StreamStep, PTL DEF StreamSpec

-----------------------------------------------------------------------------
(* Everything keeps its domain: in particular the client has never heard   *)
(* more than was said.                                                     *)
THEOREM StreamIsOK == StreamSpec => []StreamOK
<1>1. StreamInv => StreamOK
  <2> SUFFICES ASSUME StreamInv PROVE StreamOK
    OBVIOUS
  <2>1. PICK pos : Follows(pos)
    BY DEF StreamInv, InOrder
  <2>2. Len(wire) \in Nat
    BY DEF StreamInv, Typed, Domains, Staged
  <2>3. Len(content) <= Len(said)
    BY <2>1, <2>2 DEF Follows
  <2> QED BY <2>3 DEF StreamInv, Typed, Domains, Staged, StreamOK
<1> QED BY <1>1, StreamHolds, PTL

(* A step of the server is one of the model speaking or concluding, or     *)
(* shows nothing.                                                          *)
LEMMA SpeaksRefines ==
    ASSUME StreamInv, Speaks
    PROVE  [Contract!Next]_Contract!request
<1>1. "done" \notin marks /\ outcome # Contract!Kind("none") /\ UNCHANGED outcome
  BY DEF Speaks, Emit, Connected, StreamInv, Typed, Domains, Staged, Outcome, Contract!Kind, client
<1>2. ASSUME NEW p \in Piece, said' = Append(said, p), UNCHANGED marks
      PROVE  Contract!Speak
  BY <1>1, <1>2 DEF Contract!Speak
<1>3. ASSUME NEW m \in {"reason", "done"}, marks' = marks \cup {m}, UNCHANGED said
      PROVE  [Contract!Next]_Contract!request
  <2>1. CASE marks' = {"reason", "done"}
    BY <1>1, <1>3, <2>1 DEF Contract!Next, Contract!Conclude
  <2>2. CASE marks' # {"reason", "done"}
    BY <1>1, <1>3, <2>2 DEF Contract!request
  <2> QED BY <2>1, <2>2
<1>4. ASSUME UNCHANGED server PROVE UNCHANGED Contract!request
  BY <1>1, <1>4 DEF server, Contract!request
<1> QED BY <1>2, <1>3, <1>4 DEF Speaks, Contract!Next

(* An end with a verdict is an answer, if the end mark was heard.          *)
LEMMA VerdictRefines ==
    ASSUME StreamInv, NEW m \in SUBSET marks, outcome = Outcome("pending"),
           outcome' = Verdict(m), "done" \in m => content = said, UNCHANGED <<said, marks>>
    PROVE  Contract!Deliver \/ Contract!Refuse
<1>1. CASE Whole(m)
  <2>1. m = {"reason", "done"} /\ marks = {"reason", "done"} /\ content = said
    BY <1>1 DEF Whole, StreamInv, Typed, Domains, Staged
  <2> QED BY <1>1, <2>1 DEF Verdict, Contract!Deliver, Contract!Answered, Contract!Kind, Outcome
<1>2. CASE ~Whole(m)
  BY <1>2 DEF Verdict, Error, Outcome, Contract!Refuse, Contract!Kind
<1> QED BY <1>1, <1>2

LEMMA ReadLineRefines ==
    ASSUME StreamInv, ReadLine
    PROVE  [Contract!Next]_Contract!request
<1>1. /\ wire # << >> /\ UNCHANGED <<said, marks>> /\ outcome = Outcome("pending")
      /\ Head(wire).is \in {"piece", "reason", "done", "comment", "bad"}
  <2>1. wire # << >> /\ Head(wire) \in Line
    BY DEF ReadLine, StreamInv, Typed, Domains, Staged
  <2> QED BY <2>1, Lines DEF ReadLine, server, StreamInv, Typed, Domains, Staged
<1>2. CASE Head(wire).is \in {"piece", "reason", "comment"}
  <2>1. UNCHANGED outcome
    BY <1>2 DEF ReadLine
  <2> QED BY <1>1, <2>1 DEF Contract!request
<1>3. CASE Head(wire).is = "bad"
  <2>1. outcome' = Error
    BY <1>3 DEF ReadLine, Close
  <2> QED BY <1>1, <2>1 DEF Error, Outcome, Contract!Next, Contract!Refuse, Contract!Kind
<1>4. CASE Head(wire).is = "done"
  <2>1. heard' = heard \cup {"done"} /\ outcome' = Verdict(heard')
    BY <1>4 DEF ReadLine
  <2>2. content = said /\ "done" \in marks
    BY <1>1, <1>4, HeardAll
  <2>3. heard' \in SUBSET marks
    BY <2>1, <2>2 DEF StreamInv, Typed, Domains, Staged
  <2> QED BY <1>1, <2>1, <2>2, <2>3, VerdictRefines DEF Contract!Next
<1> QED BY <1>1, <1>2, <1>3, <1>4

LEMMA StepRefines ==
    StreamInv /\ [StreamNext]_stream => [Contract!Next]_Contract!request
<1> SUFFICES ASSUME StreamInv, [StreamNext]_stream PROVE [Contract!Next]_Contract!request
  OBVIOUS
<1>1. CASE Trickles \/ Stalls \/ Cut \/ Expires \/ Abandon \/ Opened \/ UNCHANGED stream
  BY <1>1 DEF Trickles, Stalls, Cut, Expires, Abandon, Opened, stream, server, client,
              Contract!request
<1>2. CASE Dial
  BY <1>2 DEF Dial, server, StreamInv, Typed, Domains, Staged, Outcome, Contract!Next, Contract!Ask, Contract!Kind
<1>3. CASE OpenFails \/ ReadTimeout \/ Check
  <2>1. outcome = Outcome("pending") /\ UNCHANGED <<said, marks>>
    BY <1>3 DEF OpenFails, ReadTimeout, Check, server, StreamInv, Typed, Domains, Staged
  <2>2. outcome' \in {outcome, Error}
    BY <1>3 DEF OpenFails, ReadTimeout, Check, Close
  <2> QED BY <2>1, <2>2 DEF Error, Outcome, Contract!Next, Contract!Refuse, Contract!Kind,
                           Contract!request
<1>4. CASE ReadEnd
  <2>1. /\ outcome = Outcome("pending") /\ UNCHANGED <<said, marks>>
        /\ outcome' = Verdict(heard) /\ heard \in SUBSET marks /\ "done" \notin heard
    BY <1>4 DEF ReadEnd, Close, server, StreamInv, Typed, Domains, Staged, MarksAgree
  <2> QED BY <2>1, VerdictRefines DEF Contract!Next
<1> QED BY <1>1, <1>2, <1>3, <1>4, SpeaksRefines, ReadLineRefines DEF StreamNext, Client

(* Whatever the server sends and wherever it stops: the caller gets all    *)
(* that was said, after it was declared complete, or an error; once.       *)
THEOREM StreamKeepsSafety ==
    StreamSpec => Contract!Init /\ [][Contract!Next]_Contract!request
<1>1. StreamInit => Contract!Init
  BY DEF StreamInit, Contract!Init, Contract!Kind, Outcome
<1> QED BY <1>1, StepRefines, StreamHolds, PTL DEF StreamSpec

-----------------------------------------------------------------------------
(* The history of the hardware.  The library's folds are functions the     *)
(* prover must be shown to exist; what a sum or an average over a set      *)
(* comes to then follows from its smallest subset for which it fails.      *)
(* Of a set of subsets one has the fewest elements.                        *)
LEMMA Smallest ==
    ASSUME NEW S, IsFiniteSet(S), NEW D \in SUBSET (SUBSET S), D # {}
    PROVE  \E T \in D : \A U \in D : Cardinality(T) <= Cardinality(U)
<1> DEFINE sizes == {Cardinality(T) : T \in D}
<1>1. \A T \in D : Cardinality(T) \in Nat
  BY FS_Subset, FS_CardinalityType
<1>2. sizes \in SUBSET Nat /\ sizes # {}
  BY <1>1
<1>3. \A T \in D : Cardinality(T) \in sizes
  OBVIOUS
<1>4. \A n \in sizes : \E T \in D : n = Cardinality(T)
  OBVIOUS
<1> HIDE DEF sizes
<1>5. PICK n \in sizes : \A m \in sizes : n <= m
  BY <1>2, Least
<1> QED
  BY <1>3, <1>4, <1>5

\* What a fold does, element by element, as far as it goes.
Chosen(T) == CHOOSE x \in T : TRUE

Folds(g, S, base, step) ==
    /\ g[{}] = base
    /\ \A T \in SUBSET S : T # {} => g[T] = step[<<Chosen(T), g[T \ {Chosen(T)}]>>]

(* Taking out an element leaves a smaller set.                             *)
LEMMA TakeOut ==
    ASSUME NEW T, IsFiniteSet(T), NEW x \in T
    PROVE  /\ IsFiniteSet(T \ {x}) /\ Cardinality(T) \in Nat
           /\ Cardinality(T \ {x}) = Cardinality(T) - 1 /\ Cardinality(T) # 0
BY FS_RemoveElement, FS_CardinalityType, FS_EmptySet

(* A fold over a finite set has a result.                                  *)
LEMMA FoldExists ==
    ASSUME NEW S, IsFiniteSet(S), NEW V, NEW base \in V, NEW step \in [S \X V -> V]
    PROVE  \E g \in [SUBSET S -> V] : Folds(g, S, base, step)
<1> DEFINE Upto(n) == {T \in SUBSET S : Cardinality(T) <= n}
           Solves(g, n) ==
               /\ g \in [Upto(n) -> V] /\ g[{}] = base
               /\ \A T \in Upto(n) : T # {} => g[T] = step[<<Chosen(T), g[T \ {Chosen(T)}]>>]
           none == {n \in Nat : ~ \E g : Solves(g, n)}
<1>0. \A T \in SUBSET S : IsFiniteSet(T) /\ Cardinality(T) \in Nat /\ Cardinality(T) <= Cardinality(S)
  BY FS_Subset, FS_CardinalityType
<1>1. \A T \in SUBSET S : T # {} => Chosen(T) \in T /\ Chosen(T) \in S
  BY DEF Chosen
<1>2. \A n \in Nat : {} \in Upto(n)
  BY FS_EmptySet
<1>3. none = {}
  <2>1. SUFFICES ASSUME none # {} PROVE FALSE
    OBVIOUS
  <2>2. PICK n \in none : \A m \in none : n <= m
    <3>1. none \in SUBSET Nat
      OBVIOUS
    <3> HIDE DEF none
    <3> QED
      BY <2>1, <3>1, Least
  <2>3. n \in Nat /\ ~ \E g : Solves(g, n)
    BY <2>2
  <2>4. n # 0
    <3> DEFINE g == [T \in Upto(0) |-> base]
    <3>1. \A T \in Upto(0) : T = {}
      BY <1>0, FS_EmptySet
    <3>2. g \in [Upto(0) -> V] /\ g[{}] = base
      BY <1>2
    <3> HIDE DEF g, Upto
    <3>3. Solves(g, 0)
      BY <3>1, <3>2
    <3> QED
      BY <2>3, <3>3
  <2>5. n - 1 \in Nat /\ ~(n <= n - 1)
    BY <2>3, <2>4
  <2>6. PICK f : Solves(f, n - 1)
    <3>1. n - 1 \notin none
      BY <2>2, <2>5
    <3> QED
      BY <2>5, <3>1
  <2> DEFINE g == [T \in Upto(n) |-> IF T \in Upto(n - 1) THEN f[T]
                                     ELSE step[<<Chosen(T), f[T \ {Chosen(T)}]>>]]
  <2>7. ASSUME NEW T \in Upto(n), T # {}
        PROVE  T \ {Chosen(T)} \in Upto(n - 1) /\ T \ {Chosen(T)} \in Upto(n) /\ Chosen(T) \in S
    <3>1. Cardinality(T \ {Chosen(T)}) = Cardinality(T) - 1 /\ Cardinality(T) \in Nat
      BY <1>0, <1>1, <2>7, TakeOut
    <3>2. Cardinality(T) - 1 <= n - 1 /\ Cardinality(T) - 1 <= n
      BY <2>3, <2>7, <3>1
    <3> QED
      BY <1>1, <2>7, <3>1, <3>2
  <2>8. {} \in Upto(n) /\ {} \in Upto(n - 1)
    BY <1>2, <2>3, <2>5
  <2>9. \A T \in Upto(n) : T \notin Upto(n - 1) => T # {}
    BY <2>8
  <2> HIDE DEF Upto, Chosen
  <2>10. g \in [Upto(n) -> V]
    <3> SUFFICES ASSUME NEW T \in Upto(n) PROVE g[T] \in V
      OBVIOUS
    <3>1. CASE T \in Upto(n - 1)
      BY <2>6, <3>1
    <3>2. CASE T \notin Upto(n - 1)
      <4>1. f[T \ {Chosen(T)}] \in V /\ Chosen(T) \in S
        BY <2>6, <2>7, <2>9, <3>2
      <4> QED
        BY <3>2, <4>1
    <3> QED
      BY <3>1, <3>2
  <2>11. g[{}] = base
    BY <2>6, <2>8
  <2>12. ASSUME NEW T \in Upto(n), T # {}
         PROVE  g[T] = step[<<Chosen(T), g[T \ {Chosen(T)}]>>]
    <3>1. g[T \ {Chosen(T)}] = f[T \ {Chosen(T)}]
      BY <2>7, <2>12
    <3>2. g[T] = step[<<Chosen(T), f[T \ {Chosen(T)}]>>]
      BY <2>6, <2>12
    <3> QED
      BY <3>1, <3>2
  <2> HIDE DEF g
  <2>13. Solves(g, n)
    BY <2>10, <2>11, <2>12
  <2> QED
    BY <2>3, <2>13
<1>4. Cardinality(S) \in Nat /\ Upto(Cardinality(S)) = SUBSET S
  BY <1>0
<1>5. PICK g : Solves(g, Cardinality(S))
  BY <1>3, <1>4
<1> HIDE DEF Upto
<1> QED
  BY <1>4, <1>5 DEF Folds

\* A total, element by element.
Sums(g, s, S) ==
    /\ g[{}] = 0
    /\ \A T \in SUBSET S : T # {} => g[T] = s[Chosen(T)].value + g[T \ {Chosen(T)}]

(* The smallest set with some property has none below it.                  *)
LEMMA Descent ==
    ASSUME NEW S, IsFiniteSet(S), NEW D \in SUBSET (SUBSET S), D # {}
    PROVE  \E T \in D : \A x \in T : T \ {x} \notin D
<1>1. PICK T \in D : \A U \in D : Cardinality(T) <= Cardinality(U)
  BY Smallest
<1>2. IsFiniteSet(T)
  BY FS_Subset
<1>3. ASSUME NEW x \in T PROVE T \ {x} \notin D
  <2> DEFINE n == Cardinality(T)
             m == Cardinality(T \ {x})
  <2>1. n \in Nat /\ m = n - 1
    BY <1>2, TakeOut, Zenon
  <2>2. ~(n <= m)
    <3> HIDE DEF n, m
    <3> QED
      BY <2>1
  <2> QED
    BY <1>1, <2>2
<1> QED
  BY <1>3

(* There is only one total.                                                *)
LEMMA OneSum ==
    ASSUME NEW S, IsFiniteSet(S), NEW s, NEW f, NEW g, Sums(f, s, S), Sums(g, s, S)
    PROVE  \A T \in SUBSET S : f[T] = g[T]
<1> DEFINE bad == {T \in SUBSET S : f[T] # g[T]}
<1>1. SUFFICES ASSUME bad # {} PROVE FALSE
  OBVIOUS
<1>2. PICK T \in bad : \A x \in T : T \ {x} \notin bad
  <2>1. bad \in SUBSET (SUBSET S)
    OBVIOUS
  <2> HIDE DEF bad
  <2> QED
    BY <1>1, <2>1, Descent
<1>3. T \in SUBSET S /\ T # {} /\ f[T] # g[T]
  BY <1>2 DEF Sums
<1>4. Chosen(T) \in T
  BY <1>3 DEF Chosen
<1>5. T \ {Chosen(T)} \in SUBSET S /\ T \ {Chosen(T)} \notin bad
  BY <1>2, <1>3, <1>4
<1>6. f[T \ {Chosen(T)}] = g[T \ {Chosen(T)}]
  BY <1>5
<1> QED
  BY <1>3, <1>6 DEF Sums

(* TotalOf is a total, of integers.                                        *)
LEMMA TotalSums ==
    ASSUME NEW s, NEW S, IsFiniteSet(S), \A i \in S : s[i].value \in Int
    PROVE  \E g \in [SUBSET S -> Int] : Sums(g, s, S) /\ TotalOf(s, S) = g[S]
<1> DEFINE step == [p \in S \X Int |-> s[p[1]].value + p[2]]
           Rule(h) == [T \in SUBSET S |->
               IF T = {} THEN 0 ELSE s[CHOOSE x \in T : TRUE].value + h[T \ {CHOOSE x \in T : TRUE}]]
           iter == CHOOSE h : h = Rule(h)
<1>1. step \in [S \X Int -> Int] /\ 0 \in Int
  OBVIOUS
<1>2. PICK g \in [SUBSET S -> Int] : Folds(g, S, 0, step)
  <2> HIDE DEF step
  <2> QED
    BY <1>1, FoldExists, Zenon
<1>3. ASSUME NEW T \in SUBSET S, T # {}
      PROVE  g[T] = s[Chosen(T)].value + g[T \ {Chosen(T)}]
  <2>1. Chosen(T) \in S /\ T \ {Chosen(T)} \in SUBSET S
    BY <1>3 DEF Chosen
  <2>2. g[T \ {Chosen(T)}] \in Int
    BY <2>1
  <2>3. step[<<Chosen(T), g[T \ {Chosen(T)}]>>] = s[Chosen(T)].value + g[T \ {Chosen(T)}]
    BY <2>1, <2>2
  <2> QED
    BY <1>2, <1>3, <2>3 DEF Folds
<1>4. Sums(g, s, S)
  BY <1>2, <1>3 DEF Folds, Sums
<1>5. g = Rule(g)
  BY <1>2, <1>3, <1>4 DEF Sums, Chosen
<1>6. iter = Rule(iter)
  <2> HIDE DEF Rule
  <2> QED
    BY <1>5
<1>7. Sums(iter, s, S)
  <2> HIDE DEF iter
  <2>1. \A T \in SUBSET S : T # {} => iter[T] = s[Chosen(T)].value + iter[T \ {Chosen(T)}]
    BY <1>6 DEF Chosen
  <2>2. iter[{}] = 0
    BY <1>6
  <2> QED
    BY <2>1, <2>2 DEF Sums
<1>8. TotalOf(s, S) = iter[S]
  BY DEF TotalOf, MapThenSumSet, MapThenFoldSet
<1> HIDE DEF iter, Rule
<1>9. \A T \in SUBSET S : g[T] = iter[T]
  BY <1>4, <1>7, OneSum
<1> QED
  BY <1>4, <1>8, <1>9

(* Equal values have equal totals.                                         *)
LEMMA TotalSame ==
    ASSUME NEW s, NEW t, NEW S, IsFiniteSet(S), \A i \in S : s[i].value \in Int,
           \A i \in S : t[i].value = s[i].value
    PROVE  TotalOf(t, S) = TotalOf(s, S)
<1>1. PICK f \in [SUBSET S -> Int] : Sums(f, s, S) /\ TotalOf(s, S) = f[S]
  BY TotalSums
<1>2. \A i \in S : t[i].value \in Int
  OBVIOUS
<1>3. PICK g \in [SUBSET S -> Int] : Sums(g, t, S) /\ TotalOf(t, S) = g[S]
  BY <1>2, TotalSums
<1>4. \A T \in SUBSET S : T # {} => Chosen(T) \in S
  BY DEF Chosen
<1>5. Sums(g, s, S)
  BY <1>3, <1>4 DEF Sums
<1>6. f[S] = g[S]
  BY <1>1, <1>5, OneSum
<1> QED
  BY <1>1, <1>3, <1>6

(* A total takes its elements in any order.                                *)
LEMMA TotalTake ==
    ASSUME NEW s, NEW A, IsFiniteSet(A), \A i \in A : s[i].value \in Int, NEW y \in A
    PROVE  /\ TotalOf(s, A \ {y}) \in Int
           /\ TotalOf(s, A) = TotalOf(s, A \ {y}) + s[y].value
<1>1. PICK g \in [SUBSET A -> Int] : Sums(g, s, A) /\ TotalOf(s, A) = g[A]
  BY TotalSums
<1>2. IsFiniteSet(A \ {y}) /\ A \ {y} \in SUBSET A /\ \A i \in A \ {y} : s[i].value \in Int
  BY FS_Subset
<1>3. PICK f \in [SUBSET (A \ {y}) -> Int] : Sums(f, s, A \ {y}) /\ TotalOf(s, A \ {y}) = f[A \ {y}]
  BY <1>2, TotalSums
<1>4. Sums(g, s, A \ {y})
  BY <1>1 DEF Sums
<1>5. f[A \ {y}] = g[A \ {y}]
  BY <1>2, <1>3, <1>4, OneSum
<1>6. \A T \in SUBSET A : g[T] \in Int
  OBVIOUS
<1>7. \A T \in SUBSET A : \A x \in T : g[T] = s[x].value + g[T \ {x}]
  <2> DEFINE bad == {U \in SUBSET A : \E z \in U : g[U] # s[z].value + g[U \ {z}]}
  <2>1. SUFFICES ASSUME bad # {} PROVE FALSE
    OBVIOUS
  <2>2. PICK U \in bad : \A v \in U : U \ {v} \notin bad
    <3>1. bad \in SUBSET (SUBSET A)
      OBVIOUS
    <3> HIDE DEF bad
    <3> QED
      BY <2>1, <3>1, Descent
  <2>3. U \in SUBSET A
    BY <2>2
  <2>4. PICK z \in U : g[U] # s[z].value + g[U \ {z}]
    BY <2>2
  <2> DEFINE x == Chosen(U)
  <2>5. x \in U /\ U # {} /\ U \ {x} \in SUBSET A /\ U \ {z} \in SUBSET A
    BY <2>3, <2>4 DEF Chosen
  <2>6. g[U] = s[x].value + g[U \ {x}]
    BY <1>1, <2>3, <2>5 DEF Sums
  <2>7. z # x
    BY <2>4, <2>6
  <2>8. g[U \ {x}] = s[z].value + g[(U \ {x}) \ {z}]
    BY <2>2, <2>4, <2>5, <2>7
  <2>9. g[U \ {z}] = s[x].value + g[(U \ {z}) \ {x}]
    BY <2>2, <2>4, <2>5, <2>7
  <2>10. (U \ {x}) \ {z} = (U \ {z}) \ {x}
    OBVIOUS
  <2> DEFINE rest == g[(U \ {x}) \ {z}]
  <2>11. rest \in Int /\ s[x].value \in Int /\ s[z].value \in Int
    <3>1. (U \ {x}) \ {z} \in SUBSET A /\ x \in A /\ z \in A
      BY <2>3, <2>5
    <3> QED
      BY <3>1
  <2>12. g[U \ {x}] = s[z].value + rest /\ g[U \ {z}] = s[x].value + rest
    BY <2>8, <2>9, <2>10
  <2> HIDE DEF rest, bad, x
  <2>13. s[x].value + (s[z].value + rest) = s[z].value + (s[x].value + rest)
    BY <2>11
  <2> QED
    BY <2>4, <2>6, <2>12, <2>13
<1>8. g[A] = s[y].value + g[A \ {y}]
  BY <1>7
<1>9. f[A \ {y}] \in Int /\ s[y].value \in Int
  BY <1>3
<1> QED
  BY <1>1, <1>3, <1>5, <1>8, <1>9

(* A total with one more.                                                  *)
LEMMA TotalAdd ==
    ASSUME NEW s, NEW S, IsFiniteSet(S), NEW y, y \notin S,
           \A i \in S \cup {y} : s[i].value \in Int
    PROVE  /\ TotalOf(s, S) \in Int
           /\ TotalOf(s, S \cup {y}) = TotalOf(s, S) + s[y].value
<1>1. IsFiniteSet(S \cup {y}) /\ y \in S \cup {y}
  BY FS_AddElement
<1>2. (S \cup {y}) \ {y} = S
  OBVIOUS
<1>3. /\ TotalOf(s, (S \cup {y}) \ {y}) \in Int
      /\ TotalOf(s, S \cup {y}) = TotalOf(s, (S \cup {y}) \ {y}) + s[y].value
  BY <1>1, TotalTake
<1> QED
  BY <1>2, <1>3

-----------------------------------------------------------------------------
(* Averages are fractions of integers.                                     *)
Fraction == [num : Int, den : Nat \ {0}]

\* The fraction f lies between n times the integers l and h.
Holds(f, n, l, h) ==
    f \in Fraction /\ l * n * f.den <= f.num /\ f.num <= h * n * f.den

(* The sum of fractions between the same bounds.                           *)
LEMMA PlusHolds ==
    ASSUME NEW l \in Int, NEW h \in Int, NEW n \in Nat, NEW a, NEW b,
           Holds(a, 1, l, h), Holds(b, n, l, h)
    PROVE  Holds(Plus(a, b), n + 1, l, h)
<1>1. a \in Fraction /\ b \in Fraction
  BY DEF Holds
<1>2. PICK x \in Int, d \in Nat \ {0} : a = [num |-> x, den |-> d]
  BY <1>1 DEF Fraction
<1>3. PICK y \in Int, e \in Nat \ {0} : b = [num |-> y, den |-> e]
  BY <1>1 DEF Fraction
<1>4. l * d <= x /\ x <= h * d
  BY <1>2 DEF Holds
<1>5. l * n * e <= y /\ y <= h * n * e
  BY <1>3 DEF Holds
<1>6. Plus(a, b) = [num |-> x * e + y * d, den |-> d * e]
  BY <1>2, <1>3 DEF Plus
<1>7. x * e + y * d \in Int /\ d * e \in Nat \ {0}
  <2>1. d * e \in Nat /\ d * e # 0
    OBVIOUS
  <2> QED
    BY <2>1
<1>8. (l * d) * e <= x * e /\ x * e <= (h * d) * e
  BY <1>4
<1>9. (l * n * e) * d <= y * d /\ y * d <= (h * n * e) * d
  BY <1>5
<1>10. l * (n + 1) * (d * e) = (l * d) * e + (l * n * e) * d
  OBVIOUS
<1>11. h * (n + 1) * (d * e) = (h * d) * e + (h * n * e) * d
  OBVIOUS
<1>12. l * (n + 1) * (d * e) <= x * e + y * d /\ x * e + y * d <= h * (n + 1) * (d * e)
  <2> DEFINE p == (l * d) * e
             q == (l * n * e) * d
             r == (h * d) * e
             s == (h * n * e) * d
             u == x * e
             v == y * d
  <2>1. p \in Int /\ q \in Int /\ r \in Int /\ s \in Int /\ u \in Int /\ v \in Int
    OBVIOUS
  <2>2. p <= u /\ u <= r /\ q <= v /\ v <= s
    BY <1>8, <1>9
  <2>3. p + q <= u + v /\ u + v <= r + s
    <3> HIDE DEF p, q, r, s, u, v
    <3> QED
      BY <2>1, <2>2
  <2> QED
    BY <1>10, <1>11, <2>3
<1> QED
  BY <1>6, <1>7, <1>12 DEF Holds, Fraction

(* The average of a bar lies between the bounds of its rows.               *)
LEMMA MeanHolds ==
    ASSUME NEW rows, NEW K, IsFiniteSet(K), K # {}, NEW l \in Int, NEW h \in Int,
           \A k \in K : Holds(rows[k].mean, 1, l, h)
    PROVE  Holds(MeanOf(rows, K), 1, l, h)
<1> DEFINE zero == Exactly(0)
           step == [p \in K \X Fraction |-> Plus(rows[p[1]].mean, p[2])]
           Rule(f) == [T \in SUBSET K |->
               IF T = {} THEN zero
               ELSE Plus(rows[CHOOSE x \in T : TRUE].mean, f[T \ {CHOOSE x \in T : TRUE}])]
           iter == CHOOSE f : f = Rule(f)
<1>0. \A a, b \in Fraction : Plus(a, b) \in Fraction
  <2> TAKE a, b \in Fraction
  <2>1. a.num * b.den + b.num * a.den \in Int /\ a.den * b.den \in Nat /\ a.den * b.den # 0
    BY DEF Fraction
  <2> QED
    BY <2>1 DEF Fraction, Plus
<1>1. step \in [K \X Fraction -> Fraction] /\ zero \in Fraction
  <2>1. \A k \in K : rows[k].mean \in Fraction
    BY DEF Holds
  <2>2. zero \in Fraction
    BY DEF Fraction, Exactly
  <2> QED
    BY <1>0, <2>1, <2>2
<1>2. PICK g \in [SUBSET K -> Fraction] : Folds(g, K, zero, step)
  <2> HIDE DEF step, zero
  <2> QED
    BY <1>1, FoldExists, Zenon
<1>3. ASSUME NEW T \in SUBSET K, T # {}
      PROVE  g[T] = Plus(rows[Chosen(T)].mean, g[T \ {Chosen(T)}])
  <2>1. Chosen(T) \in K /\ T \ {Chosen(T)} \in SUBSET K
    BY <1>3 DEF Chosen
  <2>2. g[T \ {Chosen(T)}] \in Fraction
    BY <2>1
  <2>3. step[<<Chosen(T), g[T \ {Chosen(T)}]>>] = Plus(rows[Chosen(T)].mean, g[T \ {Chosen(T)}])
    BY <2>1, <2>2
  <2> QED
    BY <1>2, <1>3, <2>3 DEF Folds
<1>4. g[{}] = zero
  BY <1>2 DEF Folds
<1> HIDE DEF zero
<1>5. g = Rule(g)
  BY <1>2, <1>3, <1>4 DEF Chosen
<1>6. iter = Rule(iter)
  <2> HIDE DEF Rule
  <2> QED
    BY <1>5
<1>7. /\ iter[{}] = zero
      /\ \A T \in SUBSET K : T # {} => iter[T] = Plus(rows[Chosen(T)].mean, iter[T \ {Chosen(T)}])
  <2> HIDE DEF iter
  <2> QED
    BY <1>6 DEF Chosen
<1>8. MeanOf(rows, K) = Over(iter[K], Cardinality(K))
  BY DEF MeanOf, MapThenFoldSet, zero
<1> HIDE DEF iter, Rule
<1>9. \A T \in SUBSET K : Holds(iter[T], Cardinality(T), l, h)
  <2> DEFINE bad == {T \in SUBSET K : ~Holds(iter[T], Cardinality(T), l, h)}
  <2>1. SUFFICES ASSUME bad # {} PROVE FALSE
    OBVIOUS
  <2>2. PICK T \in bad : \A x \in T : T \ {x} \notin bad
    <3>1. bad \in SUBSET (SUBSET K)
      OBVIOUS
    <3> HIDE DEF bad
    <3> QED
      BY <2>1, <3>1, Descent
  <2>3. T \in SUBSET K /\ ~Holds(iter[T], Cardinality(T), l, h)
    BY <2>2
  <2>4. T # {}
    <3>1. Holds(zero, 0, l, h)
      BY DEF zero, Holds, Fraction, Exactly
    <3>2. Cardinality({}) = 0
      BY FS_EmptySet
    <3> QED
      BY <1>7, <2>3, <3>1, <3>2
  <2> DEFINE x == Chosen(T)
             n == Cardinality(T \ {x})
  <2>5. x \in T /\ x \in K /\ T \ {x} \in SUBSET K
    BY <2>3, <2>4 DEF Chosen
  <2>6. n \in Nat /\ Cardinality(T) = n + 1
    <3>1. IsFiniteSet(T)
      BY <2>3, FS_Subset
    <3>2. IsFiniteSet(T \ {x}) /\ Cardinality(T \ {x}) = Cardinality(T) - 1 /\ Cardinality(T) \in Nat
      BY <2>5, <3>1, TakeOut, Zenon
    <3>3. Cardinality(T \ {x}) \in Nat
      BY <3>2, FS_CardinalityType
    <3> QED
      BY <3>2, <3>3
  <2>7. Holds(iter[T \ {x}], n, l, h)
    BY <2>2, <2>5
  <2>8. Holds(rows[x].mean, 1, l, h)
    BY <2>5
  <2>9. iter[T] = Plus(rows[x].mean, iter[T \ {x}])
    BY <1>7, <2>3, <2>4
  <2> HIDE DEF x, n
  <2>10. Holds(iter[T], n + 1, l, h)
    BY <2>6, <2>7, <2>8, <2>9, PlusHolds
  <2> QED
    BY <2>3, <2>6, <2>10
<1> DEFINE n == Cardinality(K)
           f == iter[K]
<1>10. n \in Nat \ {0} /\ Holds(f, n, l, h)
  <2>1. n \in Nat /\ n # 0
    BY FS_CardinalityType, FS_EmptySet
  <2> QED
    BY <1>9, <2>1
<1>11. MeanOf(rows, K) = Over(f, n)
  BY <1>8
<1> HIDE DEF f, n
<1>12. PICK x \in Int, d \in Nat \ {0} : f = [num |-> x, den |-> d]
  BY <1>10 DEF Holds, Fraction
<1>13. l * n * d <= x /\ x <= h * n * d
  BY <1>10, <1>12 DEF Holds
<1>14. d * n \in Nat /\ d * n # 0
  BY <1>10
<1>15. l * 1 * (d * n) = l * n * d /\ h * 1 * (d * n) = h * n * d
  BY <1>10
<1>16. MeanOf(rows, K) = [num |-> x, den |-> d * n]
  BY <1>11, <1>12 DEF Over
<1> QED
  BY <1>13, <1>14, <1>15, <1>16 DEF Holds, Fraction

(* Among finitely many samples one has the least value and one the largest. *)
LEMMA LeastAndLargest ==
    ASSUME NEW s, NEW S, IsFiniteSet(S), S # {}, \A i \in S : s[i].value \in Int
    PROVE  \E a, b \in S : \A x \in S : s[a].value <= s[x].value /\ s[x].value <= s[b].value
<1> DEFINE Ranges(T) == \E a, b \in T : \A x \in T : s[a].value <= s[x].value /\ s[x].value <= s[b].value
           bad == {T \in SUBSET S : T # {} /\ ~Ranges(T)}
<1>1. SUFFICES ASSUME bad # {} PROVE FALSE
  OBVIOUS
<1>2. PICK T \in bad : \A x \in T : T \ {x} \notin bad
  <2>1. bad \in SUBSET (SUBSET S)
    OBVIOUS
  <2> HIDE DEF bad
  <2> QED
    BY <1>1, <2>1, Descent
<1>3. T \in SUBSET S /\ T # {} /\ ~Ranges(T)
  BY <1>2
<1>4. PICK y \in T : TRUE
  BY <1>3
<1>5. y \in S /\ s[y].value <= s[y].value
  <2>1. y \in S
    BY <1>3
  <2> DEFINE v == s[y].value
  <2>2. v \in Int
    BY <2>1
  <2> HIDE DEF v
  <2>3. v <= v
    BY <2>2
  <2> QED
    BY <2>1, <2>3 DEF v
<1>6. T \ {y} # {}
  BY <1>3, <1>5
<1>7. Ranges(T \ {y})
  BY <1>2, <1>3, <1>6
<1>8. PICK a, b \in T \ {y} : \A x \in T \ {y} : s[a].value <= s[x].value /\ s[x].value <= s[b].value
  BY <1>7
<1> HIDE DEF bad
<1>9. \A x \in T : s[x].value \in Int
  BY <1>3
<1>10. PICK low \in T : s[low].value <= s[y].value /\ s[low].value <= s[a].value
  <2>1. CASE s[y].value <= s[a].value
    BY <1>5, <2>1
  <2>2. CASE ~(s[y].value <= s[a].value)
    BY <1>9, <2>2
  <2> QED
    BY <2>1, <2>2
<1>11. PICK high \in T : s[y].value <= s[high].value /\ s[b].value <= s[high].value
  <2>1. CASE s[b].value <= s[y].value
    BY <1>5, <2>1
  <2>2. CASE ~(s[b].value <= s[y].value)
    BY <1>9, <2>2
  <2> QED
    BY <2>1, <2>2
<1>12. ASSUME NEW x \in T PROVE s[low].value <= s[x].value /\ s[x].value <= s[high].value
  <2>1. CASE x = y
    BY <1>10, <1>11, <2>1
  <2>2. CASE x # y
    <3>1. s[a].value <= s[x].value /\ s[x].value <= s[b].value
      BY <1>8, <2>2
    <3>2. s[low].value <= s[x].value
      BY <1>9, <1>10, <3>1
    <3>3. s[x].value <= s[high].value
      BY <1>9, <1>11, <3>1
    <3> QED
      BY <3>2, <3>3
  <2> QED
    BY <2>1, <2>2
<1> QED
  BY <1>3, <1>12

-----------------------------------------------------------------------------
(* A period of a bar is made of whole buckets.                             *)
LEMMA StartIs ==
    ASSUME NEW t \in Nat, NEW r \in Nat \ {0}
    PROVE  /\ Start(t, r) \in Nat /\ Start(t, r) <= t /\ t < Start(t, r) + r
           /\ \A q \in Int : (q * r <= t /\ t < q * r + r) => Start(t, r) = q * r
<1> DEFINE p == t \div r
<1>1. p \in Int /\ p * r <= t /\ t < p * r + r
  OBVIOUS
<1>2. Start(t, r) = p * r
  BY DEF Start
<1> HIDE DEF p
<1>3. p >= 0
  <2>1. SUFFICES ASSUME p <= -1 PROVE FALSE
    BY <1>1
  <2>2. p * r + r = (p + 1) * r
    BY <1>1
  <2>3. (p + 1) * r <= 0
    BY <1>1, <2>1
  <2> QED
    BY <1>1, <2>2, <2>3
<1>4. p * r \in Nat
  BY <1>1, <1>3
<1>5. ASSUME NEW q \in Int, q * r <= t, t < q * r + r PROVE q = p
  <2>1. q * r + r = (q + 1) * r /\ p * r + r = (p + 1) * r
    BY <1>1
  <2>2. ~(q >= p + 1)
    <3>1. SUFFICES ASSUME q >= p + 1 PROVE FALSE
      OBVIOUS
    <3>2. q * r >= (p + 1) * r
      BY <1>1, <3>1
    <3> QED
      BY <1>1, <1>5, <2>1, <3>2
  <2>3. ~(p >= q + 1)
    <3>1. SUFFICES ASSUME p >= q + 1 PROVE FALSE
      OBVIOUS
    <3>2. p * r >= (q + 1) * r
      BY <1>1, <3>1
    <3> QED
      BY <1>1, <1>5, <2>1, <3>2
  <2> QED
    BY <1>1, <2>2, <2>3
<1> QED
  BY <1>1, <1>2, <1>4, <1>5

(* What begins a bucket lies in the same period as what is in the bucket.  *)
LEMMA StartNested ==
    ASSUME NEW t \in Nat, NEW r \in Nat \ {0}, NEW d \in Nat \ {0}, d % r = 0
    PROVE  Start(Start(t, r), d) = Start(t, d)
<1> DEFINE k == d \div r
           q == t \div r
           p == t \div d
<1>1. k \in Int /\ d = k * r
  OBVIOUS
<1>2. q \in Int /\ Start(t, r) = q * r /\ q * r <= t /\ t < q * r + r
  BY DEF Start
<1>3. p \in Int /\ Start(t, d) = p * d /\ p * d <= t /\ t < p * d + d
  BY DEF Start
<1>4. q * r \in Nat
  BY <1>2, StartIs
<1> HIDE DEF k, q, p
<1>5. p * k <= q
  <2>1. SUFFICES ASSUME p * k >= q + 1 PROVE FALSE
    BY <1>1, <1>2, <1>3
  <2>2. (p * k) * r >= (q + 1) * r
    BY <1>1, <1>2, <1>3, <2>1
  <2>3. (p * k) * r = p * d /\ (q + 1) * r = q * r + r
    BY <1>1, <1>2, <1>3
  <2> QED
    BY <1>1, <1>2, <1>3, <2>2, <2>3
<1>6. p * d <= q * r
  <2>1. (p * k) * r <= q * r
    BY <1>1, <1>2, <1>3, <1>5
  <2>2. (p * k) * r = p * d
    BY <1>1, <1>3
  <2> QED
    BY <2>1, <2>2
<1>7. q * r < p * d + d
  BY <1>2, <1>3
<1>8. Start(q * r, d) = p * d
  BY <1>3, <1>4, <1>6, <1>7, StartIs
<1> QED
  BY <1>2, <1>3, <1>8

-----------------------------------------------------------------------------
(* A row of the history is true of the samples of its bucket.              *)
Having(s, T) == {i \in T : s[i].value # Null}

RowIsTrue(b, s, T) ==
    /\ b.count = Cardinality(T)
    /\ b.mean = Null <=> Having(s, T) = {}
    /\ b.mean # Null =>
          /\ b.mean \in Fraction
          /\ \E i \in Having(s, T) : s[i].value * b.mean.den <= b.mean.num
          /\ \E i \in Having(s, T) : b.mean.num <= s[i].value * b.mean.den
    /\ Having(s, T) = T => b.mean.num * Cardinality(T) = b.mean.den * TotalOf(s, T)

(* A fraction is not the missing value.                                    *)
LEMMA FractionIsValue == \A f \in Fraction : f # Null
  BY MetricsAssumption DEF Fraction

(* A row stays true while its samples keep their values.                   *)
LEMMA RowKeep ==
    ASSUME NEW b, NEW s, NEW t, NEW T, IsFiniteSet(T), RowIsTrue(b, s, T),
           \A i \in T : s[i].value \in Value \cup {Null} /\ t[i].value = s[i].value
    PROVE  RowIsTrue(b, t, T)
<1>1. Having(t, T) = Having(s, T)
  BY DEF Having
<1>2. \A i \in Having(s, T) : t[i].value = s[i].value
  BY DEF Having
<1>3. Having(s, T) = T => TotalOf(t, T) = TotalOf(s, T)
  <2> HAVE Having(s, T) = T
  <2>1. \A i \in T : s[i].value \in Int /\ t[i].value = s[i].value
    BY MetricsAssumption DEF Having
  <2> QED
    BY <2>1, TotalSame
<1> QED
  BY <1>1, <1>2, <1>3 DEF RowIsTrue

(* The row of the first sample.                                            *)
LEMMA RowFirst ==
    ASSUME NEW t, NEW n, t[n].value \in Value \cup {Null}
    PROVE  RowIsTrue([count |-> 1, mean |-> IF t[n].value = Null THEN Null ELSE Exactly(t[n].value)],
                     t, {n})
<1> DEFINE v == t[n].value
<1>1. Cardinality({n}) = 1 /\ IsFiniteSet({})
  BY FS_Singleton, FS_EmptySet
<1>2. CASE v = Null
  BY <1>1, <1>2 DEF RowIsTrue, Having
<1>3. CASE v # Null
  <2>1. v \in Int
    BY <1>3, MetricsAssumption
  <2>2. Having(t, {n}) = {n}
    BY <1>3 DEF Having
  <2>3. TotalOf(t, {n}) = v
    <3>1. TotalOf(t, {}) = 0
      <4>1. PICK g \in [SUBSET {} -> Int] : Sums(g, t, {}) /\ TotalOf(t, {}) = g[{}]
        BY <1>1, TotalSums
      <4> QED
        BY <4>1 DEF Sums
    <3>2. TotalOf(t, {} \cup {n}) = TotalOf(t, {}) + v
      BY <1>1, <2>1, TotalAdd
    <3>3. {} \cup {n} = {n}
      OBVIOUS
    <3> QED
      BY <2>1, <3>1, <3>2, <3>3
  <2> DEFINE b == [count |-> 1, mean |-> Exactly(v)]
  <2>4. b.mean \in Fraction /\ b.mean.num = v /\ b.mean.den = 1 /\ b.count = 1
    BY <2>1 DEF Exactly, Fraction
  <2>5. b.mean # Null
    BY <2>4, FractionIsValue
  <2>6. v * 1 <= v /\ v <= v * 1 /\ v * 1 = 1 * v
    BY <2>1
  <2> HIDE DEF b
  <2>7. RowIsTrue(b, t, {n})
    BY <1>1, <2>2, <2>3, <2>4, <2>5, <2>6 DEF RowIsTrue
  <2> QED
    BY <1>3, <2>7 DEF b
<1> QED
  BY <1>2, <1>3

(* The average num/den of c samples, with a new one of value v, stays      *)
(* above what both are above.                                              *)
LEMMA RunningLow ==
    ASSUME NEW num \in Int, NEW den \in Nat \ {0}, NEW c \in Nat, NEW v \in Int,
           NEW x \in Int, x * den <= num, x <= v
    PROVE  x * (den * (c + 1)) <= num * c + v * den
<1>1. (x * den) * c <= num * c /\ x * den <= v * den
  OBVIOUS
<1>2. x * (den * (c + 1)) = (x * den) * c + x * den
  OBVIOUS
<1> DEFINE p == (x * den) * c
           q == num * c
           r == x * den
           s == v * den
<1>3. p \in Int /\ q \in Int /\ r \in Int /\ s \in Int /\ p <= q /\ r <= s
  BY <1>1
<1>4. p + r <= q + s
  <2> HIDE DEF p, q, r, s
  <2> QED
    BY <1>3
<1> QED
  BY <1>2, <1>4

(* And below what both are below.                                          *)
LEMMA RunningHigh ==
    ASSUME NEW num \in Int, NEW den \in Nat \ {0}, NEW c \in Nat, NEW v \in Int,
           NEW x \in Int, num <= x * den, v <= x
    PROVE  num * c + v * den <= x * (den * (c + 1))
<1>1. num * c <= (x * den) * c /\ v * den <= x * den
  OBVIOUS
<1>2. x * (den * (c + 1)) = (x * den) * c + x * den
  OBVIOUS
<1> DEFINE p == (x * den) * c
           q == num * c
           r == x * den
           s == v * den
<1>3. p \in Int /\ q \in Int /\ r \in Int /\ s \in Int /\ q <= p /\ s <= r
  BY <1>1
<1>4. q + s <= p + r
  <2> HIDE DEF p, q, r, s
  <2> QED
    BY <1>3
<1> QED
  BY <1>2, <1>4

(* A true row stays true when one more sample is entered.                  *)
LEMMA RowStep ==
    ASSUME NEW b, NEW t, NEW T, IsFiniteSet(T), T # {}, RowIsTrue(b, t, T), NEW n, n \notin T,
           \A i \in T \cup {n} : t[i].value \in Value \cup {Null}
    PROVE  RowIsTrue([count |-> b.count + 1, mean |-> Mean(b, t[n].value)], t, T \cup {n})
<1> DEFINE v == t[n].value
           c == Cardinality(T)
           row == [count |-> b.count + 1, mean |-> Mean(b, v)]
           A == T \cup {n}
<1>1. Cardinality(A) = c + 1 /\ c \in Nat /\ c # 0 /\ b.count = c
  BY FS_AddElement, FS_CardinalityType, FS_EmptySet DEF RowIsTrue
<1>2. row.count = Cardinality(A) /\ row.mean = Mean(b, v)
  BY <1>1
<1>3. \A i \in A : t[i].value # Null => t[i].value \in Int
  BY MetricsAssumption
<1>4. CASE v = Null
  <2>1. Having(t, A) = Having(t, T) /\ Having(t, A) # A
    BY <1>4 DEF Having
  <2>2. row.mean = b.mean
    BY <1>2, <1>4 DEF Mean
  <2> HIDE DEF row, A, c
  <2> QED
    BY <1>2, <2>1, <2>2 DEF RowIsTrue, row, A
<1>5. CASE v # Null /\ b.mean = Null
  <2>1. Having(t, T) = {}
    BY <1>5 DEF RowIsTrue
  <2>2. Having(t, A) = {n} /\ Having(t, A) # A
    BY <1>5, <2>1 DEF Having
  <2>3. v \in Int
    BY <1>3, <1>5
  <2>4. row.mean = [num |-> v, den |-> 1]
    BY <1>2, <1>5 DEF Mean, Exactly
  <2>5. row.mean \in Fraction /\ row.mean # Null
    BY <2>3, <2>4, FractionIsValue DEF Fraction
  <2>6. v * 1 <= v /\ v <= v * 1
    BY <2>3
  <2> HIDE DEF row, A, c
  <2>7. \E i \in Having(t, A) : t[i].value * row.mean.den <= row.mean.num
    BY <2>2, <2>4, <2>6
  <2>8. \E i \in Having(t, A) : row.mean.num <= t[i].value * row.mean.den
    BY <2>2, <2>4, <2>6
  <2>9. RowIsTrue(row, t, A)
    BY <1>2, <2>2, <2>5, <2>7, <2>8 DEF RowIsTrue
  <2> QED
    BY <2>9 DEF row, A
<1>6. CASE v # Null /\ b.mean # Null
  <2>1. b.mean \in Fraction
    BY <1>6 DEF RowIsTrue
  <2>2. PICK num \in Int, den \in Nat \ {0} : b.mean = [num |-> num, den |-> den]
    BY <2>1 DEF Fraction
  <2>3. v \in Int
    BY <1>3, <1>6
  <2>4. Having(t, A) = Having(t, T) \cup {n}
    BY <1>6 DEF Having
  <2>5. PICK i \in Having(t, T) : t[i].value * den <= num
    BY <1>6, <2>2 DEF RowIsTrue
  <2>6. PICK j \in Having(t, T) : num <= t[j].value * den
    BY <1>6, <2>2 DEF RowIsTrue
  <2>7. t[i].value \in Int /\ t[j].value \in Int
    BY <1>3, <2>5, <2>6 DEF Having
  <2>8. num * c + v * den \in Int /\ den * (c + 1) \in Nat /\ den * (c + 1) # 0
    BY <1>1, <2>3
  <2>9. row.mean = [num |-> num * c + v * den, den |-> den * (c + 1)]
    <3>1. row.mean = Over(Plus([num |-> num * c, den |-> den], Exactly(v)), c + 1)
      BY <1>1, <1>2, <1>6, <2>2 DEF Mean
    <3>2. (num * c) * 1 + v * den = num * c + v * den /\ (den * 1) * (c + 1) = den * (c + 1)
      BY <1>1, <2>3
    <3> QED
      BY <3>1, <3>2 DEF Over, Plus, Exactly
  <2>10. row.mean \in Fraction /\ row.mean # Null
    BY <2>8, <2>9, FractionIsValue DEF Fraction
  <2> HIDE DEF row, A, c
  <2>11. \E k \in Having(t, A) : t[k].value * row.mean.den <= row.mean.num
    <3>1. CASE t[i].value <= v
      <4>1. t[i].value * (den * (c + 1)) <= num * c + v * den
        BY <1>1, <2>3, <2>5, <2>7, <3>1, RunningLow
      <4> QED
        BY <2>4, <2>9, <4>1
    <3>2. CASE ~(t[i].value <= v)
      <4>1. v * den <= t[i].value * den
        BY <2>3, <2>7, <3>2
      <4>2. v * den <= num /\ v <= v
        BY <2>2, <2>3, <2>5, <2>7, <4>1
      <4>3. v * (den * (c + 1)) <= num * c + v * den
        BY <1>1, <2>3, <4>2, RunningLow
      <4> QED
        BY <2>4, <2>9, <4>3
    <3> QED
      BY <3>1, <3>2
  <2>12. \E k \in Having(t, A) : row.mean.num <= t[k].value * row.mean.den
    <3>1. CASE v <= t[j].value
      <4>1. num * c + v * den <= t[j].value * (den * (c + 1))
        BY <1>1, <2>3, <2>6, <2>7, <3>1, RunningHigh
      <4> QED
        BY <2>4, <2>9, <4>1
    <3>2. CASE ~(v <= t[j].value)
      <4>1. t[j].value * den <= v * den
        BY <2>3, <2>7, <3>2
      <4>2. num <= v * den /\ v <= v
        BY <2>2, <2>3, <2>6, <2>7, <4>1
      <4>3. num * c + v * den <= v * (den * (c + 1))
        BY <1>1, <2>3, <4>2, RunningHigh
      <4> QED
        BY <2>4, <2>9, <4>3
    <3> QED
      BY <3>1, <3>2
  <2>13. Having(t, A) = A => row.mean.num * Cardinality(A) = row.mean.den * TotalOf(t, A)
    <3> HAVE Having(t, A) = A
    <3>1. Having(t, T) = T
      BY <2>4 DEF A, Having
    <3>2. \A k \in T \cup {n} : t[k].value \in Int
      BY <1>3, <2>3, <3>1 DEF A, Having
    <3>3. TotalOf(t, T) \in Int /\ TotalOf(t, A) = TotalOf(t, T) + v
      BY <3>2, TotalAdd DEF A
    <3>4. num * c = den * TotalOf(t, T)
      BY <2>2, <3>1 DEF RowIsTrue, c
    <3> DEFINE m == TotalOf(t, T)
    <3>5. (num * c + v * den) * (c + 1) = (den * (c + 1)) * (m + v)
      <4>1. m \in Int /\ num * c = den * m
        BY <3>3, <3>4
      <4> HIDE DEF m
      <4>2. num * c + v * den = den * (m + v)
        BY <2>3, <4>1
      <4>3. (den * (m + v)) * (c + 1) = (den * (c + 1)) * (m + v)
        <5> DEFINE w == m + v
                   k == c + 1
        <5>1. w \in Int /\ k \in Int
          BY <1>1, <2>3, <4>1
        <5> HIDE DEF w, k
        <5>2. (den * w) * k = (den * k) * w
          BY <5>1
        <5> QED
          BY <5>2 DEF w, k
      <4> QED
        BY <4>2, <4>3
    <3> QED
      BY <1>1, <2>9, <3>3, <3>5
  <2>14. Having(t, A) # {}
    BY <2>4
  <2>15. RowIsTrue(row, t, A)
    BY <1>2, <2>10, <2>11, <2>12, <2>13, <2>14 DEF RowIsTrue
  <2> QED
    BY <2>15 DEF row, A
<1> QED
  BY <1>4, <1>5, <1>6

-----------------------------------------------------------------------------
(* The history of the hardware.  What is in a bucket that is still kept    *)
(* was entered when it was sampled: only a bucket that has expired is      *)
(* deleted, and no sample falls into one of those again.                   *)
Sampled == [at : 0..MaxTime, value : Value \cup {Null}]

SamplesAre ==
    /\ clock \in 0..MaxTime
    /\ sampled \in Seq(Sampled) /\ Len(sampled) <= MaxSamples
    /\ \A i \in DOMAIN sampled : sampled[i].at <= clock
    /\ number \in 0..(PruneEvery - 1) /\ pruning \in BOOLEAN

\* No sample has fallen out of a bucket that is still kept.
Retained ==
    \A i \in DOMAIN sampled : \A r \in Resolution :
        \/ <<r, Start(sampled[i].at, r)>> \in DOMAIN buckets
        \/ Start(sampled[i].at, r) < clock - Retention[r]

RowsAreTrue ==
    \A key \in DOMAIN buckets :
        /\ key \in Resolution \X Nat
        /\ Within(key[2], key[1]) # {}
        /\ RowIsTrue(buckets[key], sampled, Within(key[2], key[1]))

MetricsInv == SamplesAre /\ Retained /\ RowsAreTrue

(* The samples of a bucket are finitely many, and have values.             *)
LEMMA WithinIs ==
    ASSUME SamplesAre, NEW t, NEW r
    PROVE  /\ Within(t, r) \subseteq 1..Len(sampled) /\ Len(sampled) \in Nat
           /\ IsFiniteSet(Within(t, r)) /\ Cardinality(Within(t, r)) <= Len(sampled)
           /\ \A i \in Within(t, r) : /\ sampled[i].value \in Value \cup {Null}
                                      /\ sampled[i].at \in 0..MaxTime
<1>1. Len(sampled) \in Nat /\ DOMAIN sampled = 1..Len(sampled)
  BY DEF SamplesAre
<1>2. Within(t, r) \subseteq 1..Len(sampled)
  BY <1>1 DEF Within
<1>3. IsFiniteSet(1..Len(sampled)) /\ Cardinality(1..Len(sampled)) = Len(sampled)
  <2> DEFINE m == Len(sampled)
  <2>1. m \in Nat /\ 0 \in Int /\ 1 \in Int
    BY <1>1
  <2> HIDE DEF m
  <2>2. IsFiniteSet(1..m) /\ Cardinality(1..m) = IF 1 > m THEN 0 ELSE m - 1 + 1
    BY <2>1, FS_Interval
  <2>3. IsFiniteSet(1..m) /\ Cardinality(1..m) = m
    BY <2>1, <2>2
  <2> QED
    BY <2>3 DEF m
<1>4. \A i \in 1..Len(sampled) : sampled[i] \in Sampled
  BY <1>1 DEF SamplesAre
<1> QED
  BY <1>1, <1>2, <1>3, <1>4, FS_Subset DEF Sampled

LEMMA MetricsStart == MetricsInit => MetricsInv
<1> SUFFICES ASSUME MetricsInit PROVE MetricsInv
  OBVIOUS
<1>1. sampled \in Seq(Sampled) /\ Len(sampled) = 0 /\ DOMAIN sampled = {} /\ DOMAIN buckets = {}
  BY DEF MetricsInit
<1>2. 0 \in 0..MaxTime /\ 0 \in 0..(PruneEvery - 1) /\ 0 <= MaxSamples
  BY MetricsAssumption
<1> QED
  BY <1>1, <1>2 DEF MetricsInit, MetricsInv, SamplesAre, Retained, RowsAreTrue

(* A sample enters its bucket of every resolution and no other.            *)
LEMMA SampleStep ==
    ASSUME MetricsInv, NEW v \in Value \cup {Null}, Sample(v)
    PROVE  MetricsInv'
<1> DEFINE n == Len(sampled) + 1
           hit == {<<r, Start(clock, r)>> : r \in Resolution}
<1>1. SamplesAre /\ Retained /\ RowsAreTrue
  BY DEF MetricsInv
<1>2. /\ Len(sampled) \in Nat /\ Len(sampled) < MaxSamples /\ n \in Nat /\ n \notin 1..Len(sampled)
      /\ DOMAIN sampled = 1..Len(sampled) /\ clock' = clock /\ clock \in Nat /\ clock \in 0..MaxTime
      /\ MaxSamples \in Nat
  BY <1>1, MetricsAssumption DEF SamplesAre, Sample
<1>3. sampled' = Append(sampled, [at |-> clock, value |-> v])
  BY DEF Sample
<1>4. [at |-> clock, value |-> v] \in Sampled
  BY <1>2 DEF Sampled
<1>5. /\ sampled' \in Seq(Sampled) /\ Len(sampled') = n /\ DOMAIN sampled' = 1..n
      /\ sampled'[n] = [at |-> clock, value |-> v]
      /\ \A i \in 1..Len(sampled) : sampled'[i] = sampled[i]
  BY <1>1, <1>3, <1>4 DEF SamplesAre
<1>6. 1..n = (1..Len(sampled)) \cup {n}
  BY <1>2
<1>7. SamplesAre'
  <2>1. n <= MaxSamples
    BY <1>2
  <2>2. ASSUME NEW i \in DOMAIN sampled' PROVE sampled'[i].at <= clock'
    BY <1>1, <1>2, <1>5, <1>6 DEF SamplesAre
  <2>3. number' \in 0..(PruneEvery - 1) /\ pruning' \in BOOLEAN
    BY <1>1, MetricsAssumption DEF SamplesAre, Sample
  <2> QED
    BY <1>2, <1>5, <2>1, <2>2, <2>3 DEF SamplesAre
<1>8. DOMAIN buckets' = DOMAIN buckets \cup hit
  BY DEF Sample
<1>9. ASSUME NEW key \in DOMAIN buckets' PROVE buckets'[key] = IF key \in hit THEN Entered(key, v) ELSE buckets[key]
  BY <1>9 DEF Sample
<1>10. Retained'
  <2> SUFFICES ASSUME NEW i \in DOMAIN sampled', NEW r \in Resolution
               PROVE  \/ <<r, Start(sampled'[i].at, r)>> \in DOMAIN buckets'
                      \/ Start(sampled'[i].at, r) < clock' - Retention[r]
    BY DEF Retained, Start
  <2>1. CASE i = n
    BY <1>5, <1>8, <2>1
  <2>2. CASE i \in 1..Len(sampled)
    BY <1>1, <1>2, <1>5, <1>8, <2>2 DEF Retained
  <2> QED
    BY <1>5, <1>6, <2>1, <2>2
<1>11. ASSUME NEW t, NEW r
       PROVE  Within(t, r)' = IF Start(clock, r) = t THEN Within(t, r) \cup {n} ELSE Within(t, r)
  BY <1>2, <1>5, <1>6 DEF Within, Start
<1>12. RowsAreTrue'
  <2> SUFFICES ASSUME NEW key \in DOMAIN buckets'
               PROVE  /\ key \in Resolution \X Nat
                      /\ Within(key[2], key[1])' # {}
                      /\ RowIsTrue(buckets'[key], sampled', Within(key[2], key[1])')
    BY DEF RowsAreTrue, RowIsTrue, Having, Within, Start
  <2> DEFINE T == Within(key[2], key[1])
  <2>1. key \in hit => \E r \in Resolution : key = <<r, Start(clock, r)>> /\ Start(clock, r) \in Nat
    <3>1. SUFFICES ASSUME key \in hit
                   PROVE  \E r \in Resolution : key = <<r, Start(clock, r)>> /\ Start(clock, r) \in Nat
      OBVIOUS
    <3>2. PICK r \in Resolution : key = <<r, Start(clock, r)>>
      BY <3>1
    <3>3. r \in Nat \ {0}
      BY MetricsAssumption
    <3>4. Start(clock, r) \in Nat
      BY <1>2, <3>3, StartIs
    <3> QED
      BY <3>2, <3>4
  <2>2. key \in Resolution \X Nat
    BY <1>1, <1>8, <2>1 DEF RowsAreTrue
  <2>3. key \in hit <=> Start(clock, key[1]) = key[2]
    BY <2>1, <2>2
  <2>4. /\ IsFiniteSet(T) /\ n \notin T
        /\ \A i \in T : sampled[i].value \in Value \cup {Null} /\ sampled'[i].value = sampled[i].value
    BY <1>1, <1>2, <1>5, WithinIs
  <2>5. sampled'[n].value = v
    BY <1>5
  <2>6. Within(key[2], key[1])' = IF key \in hit THEN T \cup {n} ELSE T
    BY <1>11, <2>3
  <2> HIDE DEF hit, T, n
  <2>7. CASE key \notin hit
    <3>1. key \in DOMAIN buckets /\ buckets'[key] = buckets[key]
      BY <1>8, <1>9, <2>7
    <3>2. T # {} /\ RowIsTrue(buckets[key], sampled, T)
      BY <1>1, <3>1 DEF RowsAreTrue, T
    <3>3. RowIsTrue(buckets[key], sampled', T)
      BY <2>4, <3>2, RowKeep
    <3> QED
      BY <2>2, <2>6, <2>7, <3>1, <3>2, <3>3
  <2>8. CASE key \in hit /\ key \in DOMAIN buckets
    <3>1. buckets'[key] = [count |-> buckets[key].count + 1, mean |-> Mean(buckets[key], v)]
      BY <1>9, <2>8 DEF Entered
    <3>2. T # {} /\ RowIsTrue(buckets[key], sampled, T)
      BY <1>1, <2>8 DEF RowsAreTrue, T
    <3>3. RowIsTrue(buckets[key], sampled', T)
      BY <2>4, <3>2, RowKeep
    <3>4. \A i \in T \cup {n} : sampled'[i].value \in Value \cup {Null}
      BY <2>4, <2>5
    <3>5. RowIsTrue([count |-> buckets[key].count + 1, mean |-> Mean(buckets[key], sampled'[n].value)],
                    sampled', T \cup {n})
      BY <2>4, <3>2, <3>3, <3>4, RowStep
    <3> QED
      BY <2>2, <2>5, <2>6, <2>8, <3>1, <3>5
  <2>9. CASE key \in hit /\ key \notin DOMAIN buckets
    <3>1. buckets'[key] = [count |-> 1, mean |-> IF v = Null THEN Null ELSE Exactly(v)]
      BY <1>9, <2>9 DEF Entered
    <3>2. T = {}
      <4>1. SUFFICES ASSUME NEW i \in T PROVE FALSE
        OBVIOUS
      <4>2. PICK r \in Resolution : key = <<r, Start(clock, r)>>
        BY <2>1, <2>9
      <4>3. i \in DOMAIN sampled /\ Start(sampled[i].at, r) = Start(clock, r)
        BY <4>1, <4>2 DEF T, Within
      <4>4. Start(clock, r) < clock - Retention[r]
        BY <1>1, <2>9, <4>2, <4>3 DEF Retained
      <4>5. clock < Start(clock, r) + r /\ Start(clock, r) \in Nat
        BY <1>2, MetricsAssumption, StartIs
      <4>6. Retention[r] >= r /\ Retention[r] \in Nat /\ r \in Nat
        BY MetricsAssumption DEF NumbersFit
      <4> QED
        BY <1>2, <4>4, <4>5, <4>6
    <3>3. RowIsTrue(buckets'[key], sampled', {n})
      BY <2>5, <3>1, RowFirst
    <3>4. Within(key[2], key[1])' = {n}
      BY <2>6, <2>9, <3>2
    <3> QED
      BY <2>2, <3>3, <3>4
  <2> QED
    BY <2>7, <2>8, <2>9
<1> QED
  BY <1>7, <1>10, <1>12 DEF MetricsInv

(* A deletion takes only what has expired.                                 *)
LEMMA PruneStep == ASSUME MetricsInv, Prune PROVE MetricsInv'
<1>1. SamplesAre /\ Retained /\ RowsAreTrue
  BY DEF MetricsInv
<1>2. /\ DOMAIN buckets' = {k \in DOMAIN buckets : ~Expired(k)} /\ clock' = clock /\ sampled' = sampled
      /\ \A k \in DOMAIN buckets' : buckets'[k] = buckets[k]
  BY DEF Prune
<1>3. SamplesAre'
  BY <1>1 DEF SamplesAre, Prune
<1>4. Retained'
  <2> SUFFICES ASSUME NEW i \in DOMAIN sampled, NEW r \in Resolution
               PROVE  \/ <<r, Start(sampled[i].at, r)>> \in DOMAIN buckets'
                      \/ Start(sampled[i].at, r) < clock - Retention[r]
    BY <1>2 DEF Retained, Start
  <2> DEFINE key == <<r, Start(sampled[i].at, r)>>
  <2>1. key \in DOMAIN buckets \/ Start(sampled[i].at, r) < clock - Retention[r]
    BY <1>1 DEF Retained
  <2>2. Expired(key) <=> Start(sampled[i].at, r) < clock - Retention[r]
    BY DEF Expired
  <2> QED
    BY <1>2, <2>1, <2>2
<1>5. RowsAreTrue'
  <2>1. ASSUME NEW t, NEW r PROVE Within(t, r)' = Within(t, r)
    BY <1>2 DEF Within, Start
  <2>2. ASSUME NEW b, NEW t, NEW r
        PROVE  RowIsTrue(b, sampled', Within(t, r)') <=> RowIsTrue(b, sampled, Within(t, r))
    BY <1>2, <2>1
  <2> SUFFICES ASSUME NEW key \in DOMAIN buckets'
               PROVE  /\ key \in Resolution \X Nat
                      /\ Within(key[2], key[1])' # {}
                      /\ RowIsTrue(buckets'[key], sampled', Within(key[2], key[1])')
    BY DEF RowsAreTrue, RowIsTrue, Having, Within, Start
  <2>3. key \in DOMAIN buckets /\ buckets'[key] = buckets[key]
    BY <1>2
  <2> QED
    BY <1>1, <2>1, <2>2, <2>3 DEF RowsAreTrue
<1> QED
  BY <1>3, <1>4, <1>5 DEF MetricsInv

(* Steps that leave samples and buckets alone.                             *)
LEMMA RestStep ==
    ASSUME MetricsInv, PruneFails \/ Restart \/ Tick \/ UNCHANGED metrics
    PROVE  MetricsInv'
<1>1. SamplesAre /\ Retained /\ RowsAreTrue
  BY DEF MetricsInv
<1>2. /\ buckets' = buckets /\ sampled' = sampled /\ clock \in Nat
      /\ clock' \in 0..MaxTime /\ (clock' = clock \/ clock' = clock + 1)
  BY <1>1, MetricsAssumption DEF SamplesAre, PruneFails, Restart, Tick, metrics
<1>3. SamplesAre'
  <2>1. number' \in 0..(PruneEvery - 1) /\ pruning' \in BOOLEAN
    <3>1. (number' = number \/ number' = 0) /\ (pruning' = pruning \/ pruning' = FALSE)
      BY DEF PruneFails, Restart, Tick, metrics
    <3>2. 0 \in 0..(PruneEvery - 1)
      BY MetricsAssumption
    <3> QED
      BY <1>1, <3>1, <3>2 DEF SamplesAre
  <2>2. ASSUME NEW i \in DOMAIN sampled PROVE sampled[i].at <= clock'
    <3>1. sampled[i] \in Sampled /\ sampled[i].at <= clock
      BY <1>1 DEF SamplesAre
    <3>2. sampled[i].at \in Nat
      BY <3>1, MetricsAssumption DEF Sampled
    <3> QED
      BY <1>2, <3>1, <3>2
  <2> QED
    BY <1>1, <1>2, <2>1, <2>2 DEF SamplesAre
<1>4. Retained'
  <2> SUFFICES ASSUME NEW i \in DOMAIN sampled, NEW r \in Resolution
               PROVE  \/ <<r, Start(sampled[i].at, r)>> \in DOMAIN buckets
                      \/ Start(sampled[i].at, r) < clock' - Retention[r]
    BY <1>2 DEF Retained, Start
  <2>1. \/ <<r, Start(sampled[i].at, r)>> \in DOMAIN buckets
        \/ Start(sampled[i].at, r) < clock - Retention[r]
    BY <1>1 DEF Retained
  <2>2. Retention[r] \in Nat
    BY MetricsAssumption
  <2>3. Start(sampled[i].at, r) \in Nat
    <3>1. sampled[i] \in Sampled
      BY <1>1 DEF SamplesAre
    <3>2. sampled[i].at \in Nat /\ r \in Nat \ {0}
      BY <3>1, MetricsAssumption DEF Sampled
    <3> QED
      BY <3>2, StartIs
  <2> QED
    BY <1>2, <2>1, <2>2, <2>3
<1>5. RowsAreTrue'
  <2>1. ASSUME NEW t, NEW r PROVE Within(t, r)' = Within(t, r)
    BY <1>2 DEF Within, Start
  <2>2. ASSUME NEW b, NEW t, NEW r
        PROVE  RowIsTrue(b, sampled', Within(t, r)') <=> RowIsTrue(b, sampled, Within(t, r))
    BY <1>2, <2>1
  <2> SUFFICES ASSUME NEW key \in DOMAIN buckets'
               PROVE  /\ key \in Resolution \X Nat
                      /\ Within(key[2], key[1])' # {}
                      /\ RowIsTrue(buckets'[key], sampled', Within(key[2], key[1])')
    BY DEF RowsAreTrue, RowIsTrue, Having, Within, Start
  <2>3. key \in DOMAIN buckets /\ buckets'[key] = buckets[key]
    BY <1>2
  <2> QED
    BY <1>1, <2>1, <2>2, <2>3 DEF RowsAreTrue
<1> QED
  BY <1>3, <1>4, <1>5 DEF MetricsInv

LEMMA MetricsStep == MetricsInv /\ [MetricsNext]_metrics => MetricsInv'
<1> SUFFICES ASSUME MetricsInv, [MetricsNext]_metrics PROVE MetricsInv'
  OBVIOUS
<1>1. ASSUME NEW v \in Value \cup {Null}, Sample(v) PROVE MetricsInv'
  BY <1>1, SampleStep
<1>2. CASE Prune
  BY <1>2, PruneStep
<1>3. CASE PruneFails \/ Restart \/ Tick \/ UNCHANGED metrics
  BY <1>3, RestStep
<1> QED
  BY <1>1, <1>2, <1>3 DEF MetricsNext

LEMMA MetricsHold == MetricsSpec => []MetricsInv
<1>1. MetricsInit => MetricsInv
  BY MetricsStart
<1>2. MetricsInv /\ [MetricsNext]_metrics => MetricsInv'
  BY MetricsStep
<1> QED
  BY <1>1, <1>2, PTL DEF MetricsSpec

(* Everything of the history in its domain; a row that is kept begins in   *)
(* the past and counts at least one sample, and no more than were taken.   *)
LEMMA MetricsTyped == MetricsInv => MetricsOK
<1> SUFFICES ASSUME MetricsInv PROVE MetricsOK
  OBVIOUS
<1>1. SamplesAre /\ Retained /\ RowsAreTrue
  BY DEF MetricsInv
<1>2. ASSUME NEW key \in DOMAIN buckets
      PROVE  key \in Resolution \X (0..clock) /\ buckets[key].count \in 1..Len(sampled)
  <2> DEFINE T == Within(key[2], key[1])
  <2>1. key \in Resolution \X Nat /\ T # {} /\ RowIsTrue(buckets[key], sampled, T)
    BY <1>1 DEF RowsAreTrue
  <2>2. IsFiniteSet(T) /\ Cardinality(T) <= Len(sampled) /\ Len(sampled) \in Nat
    BY <1>1, WithinIs
  <2>3. buckets[key].count = Cardinality(T)
    BY <2>1 DEF RowIsTrue
  <2>4. Cardinality(T) \in Nat /\ Cardinality(T) # 0
    BY <2>1, <2>2, FS_CardinalityType, FS_EmptySet
  <2>5. clock \in Nat
    BY <1>1, MetricsAssumption DEF SamplesAre
  <2>6. buckets[key].count \in 1..Len(sampled)
    BY <2>2, <2>3, <2>4
  <2>7. PICK i \in T : TRUE
    BY <2>1
  <2>8. sampled[i].at \in Nat /\ sampled[i].at <= clock /\ key[1] \in Nat \ {0}
    <3>1. i \in DOMAIN sampled /\ sampled[i].at \in 0..MaxTime
      BY <1>1, <2>7, WithinIs DEF Within
    <3>2. key[1] \in Resolution
      BY <2>1
    <3>3. sampled[i].at \in Nat /\ sampled[i].at <= clock
      BY <1>1, <3>1, MetricsAssumption DEF SamplesAre
    <3>4. key[1] \in Nat \ {0}
      BY <3>2, MetricsAssumption
    <3> QED
      BY <3>3, <3>4
  <2>9. key[2] = Start(sampled[i].at, key[1])
    BY <2>7 DEF Within
  <2>10. key[2] \in Nat /\ key[2] <= sampled[i].at
    BY <2>8, <2>9, StartIs
  <2>11. key[2] \in 0..clock
    BY <2>5, <2>8, <2>10
  <2> QED
    BY <2>1, <2>6, <2>11
<1> QED
  BY <1>1, <1>2 DEF MetricsOK, SamplesAre

(* The average a row keeps is the one of its samples.                      *)
LEMMA AveragesHold == MetricsInv => AveragesAreTrue
<1> SUFFICES ASSUME MetricsInv, NEW key \in DOMAIN buckets
             PROVE  LET here == Within(key[2], key[1])
                        mean == buckets[key].mean
                    IN  /\ buckets[key].count = Cardinality(here)
                        /\ mean = Null <=> Valued(here) = {}
                        /\ mean # Null => Between(mean, Valued(here))
                        /\ Valued(here) = here =>
                              mean.num * Cardinality(here) = mean.den * TotalOf(sampled, here)
  BY DEF AveragesAreTrue
<1>1. RowIsTrue(buckets[key], sampled, Within(key[2], key[1]))
  BY DEF MetricsInv, RowsAreTrue
<1>2. Having(sampled, Within(key[2], key[1])) = Valued(Within(key[2], key[1]))
  BY DEF Having, Valued
<1> QED
  BY <1>1, <1>2 DEF RowIsTrue, Between

(* A chart has a point wherever its range has a value, between the values. *)
LEMMA ChartsHold == MetricsInv => ChartsAreComplete
<1> SUFFICES ASSUME MetricsInv, NEW c \in Chart, NEW period \in 0..clock
             PROVE  LET here == Valued({i \in Within(period, c.display) :
                                          Start(sampled[i].at, c.source) >= clock - c.duration})
                    IN  /\ here # {} => Point(c, period) # Null
                        /\ Point(c, period) # Null => here # {} /\ Between(Point(c, period), here)
  BY DEF ChartsAreComplete
<1> DEFINE here == Valued({i \in Within(period, c.display) :
                             Start(sampled[i].at, c.source) >= clock - c.duration})
           bars == {key \in Shown(c) : Start(key[2], c.display) = period /\ buckets[key].mean # Null}
<1>1. SamplesAre /\ Retained /\ RowsAreTrue
  BY DEF MetricsInv
<1>2. /\ c.source \in Resolution /\ c.source \in Nat \ {0} /\ c.display \in Nat \ {0}
      /\ c.display % c.source = 0 /\ c.duration <= Retention[c.source]
  BY MetricsAssumption DEF NumbersFit
<1>3. clock \in 0..MaxTime /\ clock \in Nat /\ Retention[c.source] \in Nat
  BY <1>1, <1>2, MetricsAssumption DEF SamplesAre
<1>4. \A i \in DOMAIN sampled :
        sampled[i] \in Sampled /\ sampled[i].at \in Nat /\ sampled[i].value \in Value \cup {Null}
  <2>1. \A i \in DOMAIN sampled : sampled[i] \in Sampled
    BY <1>1 DEF SamplesAre
  <2> QED
    BY <2>1, MetricsAssumption DEF Sampled
<1>5. \A i \in here : /\ i \in DOMAIN sampled /\ sampled[i].value # Null
                      /\ Start(sampled[i].at, c.display) = period
                      /\ Start(sampled[i].at, c.source) >= clock - c.duration
  BY DEF Valued, Within
<1>6. \A i \in DOMAIN sampled :
        (/\ sampled[i].value # Null /\ Start(sampled[i].at, c.display) = period
         /\ Start(sampled[i].at, c.source) >= clock - c.duration) => i \in here
  BY DEF Valued, Within
<1>7. ASSUME NEW key \in bars
      PROVE  /\ key \in DOMAIN buckets /\ key[1] = c.source /\ key[2] \in Nat
             /\ buckets[key].mean # Null /\ RowIsTrue(buckets[key], sampled, Within(key[2], c.source))
             /\ Having(sampled, Within(key[2], c.source)) \subseteq here
  <2>1. /\ key \in DOMAIN buckets /\ key[1] = c.source /\ key[2] >= clock - c.duration
        /\ Start(key[2], c.display) = period /\ buckets[key].mean # Null
    BY <1>7 DEF Shown
  <2>2. key \in Resolution \X Nat /\ RowIsTrue(buckets[key], sampled, Within(key[2], key[1]))
    BY <1>1, <2>1 DEF RowsAreTrue
  <2>3. ASSUME NEW i \in Having(sampled, Within(key[2], c.source)) PROVE i \in here
    <3>1. i \in DOMAIN sampled /\ sampled[i].value # Null /\ Start(sampled[i].at, c.source) = key[2]
      BY DEF Having, Within
    <3>2. Start(sampled[i].at, c.display) = period
      BY <1>2, <1>4, <2>1, <3>1, StartNested
    <3> HIDE DEF here
    <3> QED
      BY <1>6, <2>1, <3>1, <3>2
  <2> HIDE DEF here, bars
  <2> QED
    BY <2>1, <2>2, <2>3
<1>8. ASSUME NEW i \in here PROVE bars # {}
  <2> DEFINE key == <<c.source, Start(sampled[i].at, c.source)>>
  <2>1. /\ i \in DOMAIN sampled /\ sampled[i].value # Null /\ Start(sampled[i].at, c.display) = period
        /\ Start(sampled[i].at, c.source) >= clock - c.duration
    BY <1>5, <1>8
  <2>2. Start(sampled[i].at, c.source) \in Nat
    BY <1>2, <1>4, <2>1, StartIs
  <2>3. key \in DOMAIN buckets
    <3>1. key \in DOMAIN buckets \/ Start(sampled[i].at, c.source) < clock - Retention[c.source]
      BY <1>1, <1>2, <2>1 DEF Retained
    <3>2. c.duration \in Int
      BY MetricsAssumption DEF NumbersFit
    <3> QED
      BY <1>2, <1>3, <2>1, <2>2, <3>1, <3>2
  <2>4. Start(key[2], c.display) = period
    BY <1>2, <1>4, <2>1, StartNested
  <2>5. buckets[key].mean # Null
    <3>1. RowIsTrue(buckets[key], sampled, Within(key[2], key[1]))
      BY <1>1, <2>3 DEF RowsAreTrue
    <3>2. i \in Having(sampled, Within(key[2], key[1]))
      BY <2>1 DEF Having, Within
    <3> QED
      BY <3>1, <3>2 DEF RowIsTrue
  <2>6. key \in bars
    BY <2>1, <2>3, <2>4, <2>5 DEF Shown
  <2> QED
    BY <2>6
<1>9. ASSUME bars # {} PROVE Point(c, period) # Null /\ here # {} /\ Between(Point(c, period), here)
  <2>1. Point(c, period) = MeanOf(buckets, bars)
    BY <1>9 DEF Point
  <2> HIDE DEF here, bars
  <2>2. IsFiniteSet(bars)
    <3>1. \A key \in bars : key \in {c.source} \X (0..clock)
      <4> TAKE key \in bars
      <4>1. key \in DOMAIN buckets /\ key[1] = c.source
        BY <1>7
      <4>2. key \in Resolution \X (0..clock)
        BY <4>1, MetricsTyped DEF MetricsOK
      <4> QED
        BY <4>1, <4>2
    <3>2. IsFiniteSet(0..clock) /\ IsFiniteSet({c.source})
      <4>1. 0 \in Int /\ clock \in Int
        BY MetricsAssumption DEF MetricsInv, SamplesAre
      <4> QED
        BY <4>1, FS_Interval, FS_Singleton
    <3>3. IsFiniteSet({c.source} \X (0..clock))
      BY <3>2, FS_Product
    <3>4. bars \subseteq {c.source} \X (0..clock)
      BY <3>1
    <3> QED
      BY <3>3, <3>4, FS_Subset
  <2>3. \A i \in here : sampled[i].value \in Int
    BY <1>4, <1>5, MetricsAssumption
  <2>4. IsFiniteSet(here)
    <3>1. here \subseteq 1..Len(sampled) /\ Len(sampled) \in Nat
      BY <1>1, <1>5 DEF SamplesAre
    <3>2. IsFiniteSet(1..Len(sampled))
      BY <3>1, FS_Interval
    <3> QED
      BY <3>1, <3>2, FS_Subset
  <2>5. ASSUME NEW key \in bars
        PROVE  /\ here # {} /\ buckets[key].mean \in Fraction
               /\ \E i \in here : sampled[i].value * buckets[key].mean.den <= buckets[key].mean.num
               /\ \E i \in here : buckets[key].mean.num <= sampled[i].value * buckets[key].mean.den
    BY <1>7 DEF RowIsTrue
  <2>6. here # {}
    BY <1>9, <2>5
  <2>7. PICK first, last \in here : \A x \in here :
          sampled[first].value <= sampled[x].value /\ sampled[x].value <= sampled[last].value
    BY <2>3, <2>4, <2>6, LeastAndLargest
  <2> DEFINE l == sampled[first].value
             h == sampled[last].value
  <2>8. l \in Int /\ h \in Int
    BY <2>3
  <2>9. \A i \in here : sampled[i].value \in Int /\ l <= sampled[i].value /\ sampled[i].value <= h
    BY <2>3, <2>7
  <2>10. sampled[first].value = l /\ sampled[last].value = h
    OBVIOUS
  <2> HIDE DEF l, h
  <2>11. ASSUME NEW key \in bars PROVE Holds(buckets[key].mean, 1, l, h)
    <3>1. PICK num \in Int, den \in Nat \ {0} : buckets[key].mean = [num |-> num, den |-> den]
      BY <2>5 DEF Fraction
    <3>2. PICK i \in here : sampled[i].value * den <= num
      BY <2>5, <3>1
    <3>3. PICK j \in here : num <= sampled[j].value * den
      BY <2>5, <3>1
    <3> DEFINE x == sampled[i].value
               y == sampled[j].value
    <3>4. x \in Int /\ y \in Int /\ l <= x /\ y <= h /\ x * den <= num /\ num <= y * den
      BY <2>9, <3>2, <3>3
    <3> HIDE DEF x, y
    <3>5. l * den <= x * den /\ y * den <= h * den
      BY <2>8, <3>4
    <3>6. l * 1 * den <= num /\ num <= h * 1 * den
      BY <2>8, <3>4, <3>5
    <3> QED
      BY <2>5, <3>1, <3>6 DEF Holds
  <2>12. Holds(MeanOf(buckets, bars), 1, l, h)
    BY <1>9, <2>2, <2>8, <2>11, MeanHolds
  <2> DEFINE f == MeanOf(buckets, bars)
  <2>13. f \in Fraction /\ l * 1 * f.den <= f.num /\ f.num <= h * 1 * f.den
    BY <2>12 DEF Holds
  <2> HIDE DEF f
  <2>14. l * f.den <= f.num /\ f.num <= h * f.den
    BY <2>8, <2>13 DEF Fraction
  <2>15. Between(f, here)
    BY <2>10, <2>14 DEF Between
  <2>16. f # Null
    BY <2>13, FractionIsValue
  <2> QED
    BY <2>1, <2>6, <2>15, <2>16 DEF f
<1>10. Point(c, period) # Null => bars # {}
  BY DEF Point
<1> HIDE DEF bars
<1>11. /\ here # {} => Point(c, period) # Null
       /\ Point(c, period) # Null => here # {} /\ Between(Point(c, period), here)
  <2> HIDE DEF here
  <2> QED
    BY <1>8, <1>9, <1>10
<1> QED
  BY <1>11

(* A row that is kept is of a known resolution, begins no later than now   *)
(* and counts no more samples than were stored, whatever is sampled,       *)
(* deleted or restarted.                                                   *)
THEOREM MetricsAreOK == MetricsSpec => []MetricsOK
BY MetricsHold, MetricsTyped, PTL

(* Whatever was deleted and however often the controller was restarted, a  *)
(* row that is kept has the count and the average of the samples taken in  *)
(* its bucket, and a chart a point wherever a value was taken in its       *)
(* range, between the values taken there.                                  *)
THEOREM HistoryStaysTrue == MetricsSpec => []HistoryIsTrue
<1>1. MetricsInv => HistoryIsTrue
  BY AveragesHold, ChartsHold DEF HistoryIsTrue
<1> QED
  BY <1>1, MetricsHold, PTL

-----------------------------------------------------------------------------
(* The four together.  While one of them runs the others rest where they   *)
(* began, so each of the four specifications holds of the whole.           *)
THEOREM PartsCompose == Spec => ServiceSpec /\ ControlSpec /\ MetricsSpec /\ StreamSpec
<1>1. Init => ServiceInit /\ ControlInit /\ MetricsInit /\ StreamInit
  BY DEF Init
<1>2. [Next]_<<service, control, metrics, stream>> =>
        [ServiceNext]_service /\ [ControlNext]_control /\ [MetricsNext]_metrics /\ [StreamNext]_stream
  BY DEF Next
<1> QED
  BY <1>1, <1>2, PTL DEF Spec, ServiceSpec, ControlSpec, MetricsSpec, StreamSpec

(* Everything of the controller's four parts stays in its domain while     *)
(* they run side by side.                                                  *)
THEOREM PartsAreOK == Spec => []TypeOK
BY PartsCompose, ServiceIsOK, ControlIsOK, MetricsAreOK, StreamIsOK, PTL DEF TypeOK

(* And what is proved of each of them holds of the four together.          *)
THEOREM PartsKeepTheirWord ==
    Spec => /\ [](RemovalHolds /\ ResultIsCoherent /\ BothFormsAgree)
            /\ [](PagingIsComplete /\ HistoryIsTrue) /\ NoLostUpdate
            /\ Contract!Init /\ [][Contract!Next]_Contract!request
BY PartsCompose, RemovedKeysStayRemoved, ResultsAreCoherent, FormsAlwaysAgree, PagesAreComplete,
   HistoryStaysTrue, UpdatesAreKept, StreamKeepsSafety, PTL
=============================================================================
