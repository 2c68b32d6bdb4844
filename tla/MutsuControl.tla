---------------------------- MODULE MutsuControl ---------------------------
(***************************************************************************)
(* The control data of Mutsu: her settings with their revision, the        *)
(* catalogues of capabilities and of skills, and the record of behaviour.  *)
(* Browser windows load the settings, edit and save them; each save is a    *)
(* transaction that holds the lock of the settings row from its first      *)
(* statement to its end.  Events of chats are recorded at any time, and a  *)
(* window pages through the record, newest first.                          *)
(***************************************************************************)
EXTENDS Integers, FiniteSets, FiniteSetsExt

CONSTANTS
    Window,         \* browser windows of the super administrator
    Recorder,       \* requests that record an event of a chat
    Configuration,  \* contents of the settings
    Default,        \* what the migration of the database puts there
    Entry,          \* keys of the catalogues
    NoWindow,
    MaxEntries,     \* entries of a catalogue (100)
    PageSize,       \* events on a page (1 to 100)
    MaxEvents       \* bound: events that get a number

Catalogue == {"capabilities", "skills"}

ASSUME ControlAssumption ==
    /\ Default \in Configuration
    /\ NoWindow \notin Window \cup Recorder
    /\ Window \cap Recorder = {}
    /\ IsFiniteSet(Entry)
    /\ MaxEntries \in Nat \ {0} /\ PageSize \in Nat \ {0} /\ MaxEvents \in Nat

VARIABLES
    singleton,  \* row of mutsu_settings: the content and its revision
    entries,    \* rows of the two catalogues
    events,     \* numbers of the events that are committed
    lastEvent,  \* numbers handed out; a transaction that fails wastes its own
    lock,       \* whose transaction holds the row of the settings
    tx,         \* transaction of each window and recorder
    loaded,     \* what each window shows of the settings
    paging      \* the window that pages through the events

control == <<singleton, entries, events, lastEvent, lock, tx, loaded, paging>>

Row == [configuration : Configuration, revision : Nat \ {0}]

NoTx == [does |-> "nothing"]

Transaction ==
    {NoTx}
    \cup [does : {"settings"}, configuration : Configuration, event : Nat]
    \cup [does : {"entry"}, in : Catalogue, key : Entry, event : Nat]
    \cup [does : {"event"}, event : Nat]

(* Everything in its domain; whoever writes to the settings or to a        *)
(* catalogue holds the lock, and no catalogue exceeds its bound, however   *)
(* many windows add to it ("Serialize registration to enforce a finite     *)
(* catalog, including concurrent requests", mutsu_control_store.py:73).    *)
ControlOK ==
    /\ singleton \in Row
    /\ entries \in [Catalogue -> SUBSET Entry]
    /\ \A c \in Catalogue : Cardinality(entries[c]) <= MaxEntries
    /\ events \subseteq 1..lastEvent /\ lastEvent \in 0..MaxEvents
    /\ tx \in [Window \cup Recorder -> Transaction]
    /\ \A w \in Window \cup Recorder : tx[w].does \in {"settings", "entry"} <=> lock = w
    /\ lock \in Window \cup {NoWindow}
    /\ loaded \in [Window -> Row]
    /\ paging \in [at : {"off", "on", "over"}, below : 0..(MaxEvents + 1),
                   seen : SUBSET events, due : SUBSET events]

ControlInit ==
    /\ singleton = [configuration |-> Default, revision |-> 1]
    /\ entries = [c \in Catalogue |-> {}]
    /\ events = {} /\ lastEvent = 0
    /\ lock = NoWindow
    /\ tx = [w \in Window \cup Recorder |-> NoTx]
    /\ loaded = [w \in Window |-> singleton]
    /\ paging = [at |-> "off", below |-> 0, seen |-> {}, due |-> {}]

-----------------------------------------------------------------------------
Load(w) ==
    /\ loaded' = [loaded EXCEPT ![w] = singleton]
    /\ UNCHANGED <<singleton, entries, events, lastEvent, lock, tx, paging>>

\* Faulty variant: statements do not wait for the row.
RowIsThere(w) == tx[w] = NoTx

RowIsFree(w) == tx[w] = NoTx /\ lock = NoWindow

\* Every transaction records an event; its number is handed out at once.
Number == lastEvent < MaxEvents /\ lastEvent' = lastEvent + 1

\* Faulty variant: the revision is not compared.
AnyRevision(w) == TRUE

SameRevision(w) == loaded[w].revision = singleton.revision

(* UPDATE ... WHERE revision = the one the window loaded, once the row is  *)
(* free; if another save has raised it the answer is a conflict and        *)
(* nothing happens.                                                        *)
SaveSettings(w, c) ==
    /\ RowIsFree(w) /\ SameRevision(w)
    /\ lock' = w /\ Number
    /\ tx' = [tx EXCEPT ![w] = [does |-> "settings", configuration |-> c, event |-> lastEvent']]
    /\ UNCHANGED <<singleton, entries, events, loaded, paging>>

(* The row is locked, the entries with other keys are counted, and the     *)
(* entry is inserted or replaced - or the answer is a conflict.            *)
SaveEntry(w, in, key) ==
    /\ RowIsFree(w)
    /\ Cardinality(entries[in] \ {key}) < MaxEntries
    /\ lock' = w /\ Number
    /\ tx' = [tx EXCEPT ![w] = [does |-> "entry", in |-> in, key |-> key, event |-> lastEvent']]
    /\ UNCHANGED <<singleton, entries, events, loaded, paging>>

Record(r) ==
    /\ tx[r] = NoTx /\ Number
    /\ tx' = [tx EXCEPT ![r] = [does |-> "event", event |-> lastEvent']]
    /\ UNCHANGED <<singleton, entries, events, lock, loaded, paging>>

Ends(w) ==
    /\ tx' = [tx EXCEPT ![w] = NoTx]
    /\ lock' = IF lock = w THEN NoWindow ELSE lock

(* The commit makes the change and its event visible together; the window  *)
(* shows what it has saved, or an error if the controller does not hear    *)
(* that the commit succeeded.                                              *)
Commit(w) ==
    /\ tx[w] # NoTx /\ Ends(w)
    /\ events' = events \cup {tx[w].event}
    /\ singleton' = IF tx[w].does = "settings"
                   THEN [configuration |-> tx[w].configuration, revision |-> singleton.revision + 1]
                   ELSE singleton
    /\ entries' = IF tx[w].does = "entry"
                  THEN [entries EXCEPT ![tx[w].in] = @ \cup {tx[w].key}] ELSE entries
    /\ \/ tx[w].does = "settings" /\ loaded' = [loaded EXCEPT ![w] = singleton']
       \/ UNCHANGED loaded
    /\ UNCHANGED <<lastEvent, paging>>

Rollback(w) ==
    /\ tx[w] # NoTx /\ Ends(w)
    /\ UNCHANGED <<singleton, entries, events, lastEvent, loaded, paging>>

-----------------------------------------------------------------------------
\* Faulty variant: a page leaves the event out that comes next.
PageAfterNext(n) ==
    {e \in events : e < n - 1 /\ Cardinality({f \in events : e <= f /\ f < n - 1}) <= PageSize}

\* The newest events with a number below n, at most a page of them.
Page(n) ==
    {e \in events : e < n /\ Cardinality({f \in events : e <= f /\ f < n}) <= PageSize}

Open ==
    /\ paging.at = "off"
    /\ paging' = [at |-> "on", below |-> lastEvent + 1, seen |-> {}, due |-> events]
    /\ UNCHANGED <<singleton, entries, events, lastEvent, lock, tx, loaded>>

(* A full page says where the next one begins, any other is the last.      *)
Turn ==
    /\ paging.at = "on"
    /\ LET page == Page(paging.below) IN
       paging' = [paging EXCEPT
           !.at    = IF Cardinality(page) = PageSize THEN "on" ELSE "over",
           !.below = IF Cardinality(page) = PageSize THEN Min(page) ELSE @,
           !.seen  = @ \cup page]
    /\ UNCHANGED <<singleton, entries, events, lastEvent, lock, tx, loaded>>

ControlNext ==
    \/ \E w \in Window :
        \/ Load(w)
        \/ \E c \in Configuration : SaveSettings(w, c)
        \/ \E in \in Catalogue, key \in Entry : SaveEntry(w, in, key)
    \/ \E r \in Recorder : Record(r)
    \/ \E w \in Window \cup Recorder : Commit(w) \/ Rollback(w)
    \/ Open \/ Turn

ControlSpec == ControlInit /\ [][ControlNext]_control

-----------------------------------------------------------------------------
(* "设置通过版本号防止多窗口覆盖" (README.md): who replaces the settings has  *)
(* seen what is replaced, though the lock was waited for and other windows *)
(* saved meanwhile.                                                        *)
NoLostUpdate ==
    [][singleton' # singleton =>
          \E w \in Window : tx[w].does = "settings" /\ loaded[w] = singleton]_control

(* Paging to the end shows every event that was there when it began, each  *)
(* page going on where the one before ended, although events are recorded, *)
(* rolled back and committed out of order meanwhile.                       *)
PagingIsComplete ==
    /\ paging.at = "over" => paging.due \subseteq paging.seen
    /\ paging.at = "on" => {e \in paging.due : e >= paging.below} \subseteq paging.seen
=============================================================================
