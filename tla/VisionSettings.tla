--------------------------- MODULE VisionSettings --------------------------
(***************************************************************************)
(* The file that holds the model and the key of the cloud recognition.     *)
(* Requests of administrators save, remove and show it; no lock orders     *)
(* them.  A save reads the file, writes a temporary file beside it and     *)
(* renames that over it, so that a crash at any point leaves the old file  *)
(* or the new one.                                                         *)
(***************************************************************************)
EXTENDS Integers

CONSTANTS
    Model,          \* SUPPORTED_VISION_MODELS
    Key,            \* acceptable keys
    Job,            \* requests about the settings that are served at once
    None,           \* no key, no model, no temporary file
    Torn,           \* what a half-written file holds
    MaxCrashes      \* bound: crashes of the controller

ASSUME SettingsAssumption ==
    /\ None \notin Model \cup Key
    /\ Torn \notin Key \cup {None}
    /\ MaxCrashes \in Nat

VARIABLES
    file,       \* the settings file
    temp,       \* the temporary file of each request
    job,        \* requests about the settings
    removal,    \* the key was removed, and none was given since
    crashes

settings == <<file, temp, job, removal, crashes>>

Content == [model : Model, key : Key]

Missing == [model |-> None, key |-> None]
Half(c) == [c EXCEPT !.key = Torn]

\* A save asks for a model and may bring a key; once it has read the file it has one.
Request ==
    [at : {"idle"}, what : {"none"}, model : {None}, key : {None}]
    \cup [at : {"asked", "changed"}, what : {"show", "remove"}, model : {None}, key : {None}]
    \cup [at : {"asked"}, what : {"save"}, model : Model, key : Key \cup {None}]
    \cup [at : {"writing", "written", "changed"}, what : {"save"}, model : Model, key : Key]

Idle == [at |-> "idle", what |-> "none", model |-> None, key |-> None]

New(j) == [model |-> job[j].model, key |-> job[j].key]

Saves(j) == job[j].what = "save"

(* Everything in its domain; the file is absent or whole, whatever fails   *)
(* and whenever the controller dies, and only a save that goes on has a    *)
(* temporary file.                                                         *)
SettingsOK ==
    /\ file \in Content \cup {Missing}
    /\ job \in [Job -> Request]
    /\ temp = [j \in Job |-> CASE job[j].at = "writing" -> Half(New(j))
                              [] job[j].at = "written" -> New(j)
                              [] OTHER -> None]
    /\ removal \in BOOLEAN
    /\ crashes \in 0..MaxCrashes

SettingsInit ==
    /\ file = Missing
    /\ temp = [j \in Job |-> None]
    /\ job = [j \in Job |-> Idle]
    /\ removal = FALSE
    /\ crashes = 0

-----------------------------------------------------------------------------
(* A request comes in; giving a key ends what a removal has promised.      *)
Ask(j, q) ==
    /\ job[j] = Idle /\ q.at = "asked"
    /\ job' = [job EXCEPT ![j] = q]
    /\ removal' = (removal /\ q.key = None)
    /\ UNCHANGED <<file, temp, crashes>>

(* An error, at any step: the answer is 422 or 503 and the temporary file  *)
(* is deleted.                                                             *)
Fail(j) ==
    /\ job[j] # Idle
    /\ job' = [job EXCEPT ![j] = Idle] /\ temp' = [temp EXCEPT ![j] = None]
    /\ UNCHANGED <<file, removal, crashes>>

\* Faulty variant: the key of some earlier moment.
AnyKey(j) == IF job[j].key # None THEN {job[j].key} ELSE Key

KeyFor(j) == {IF job[j].key # None THEN job[j].key ELSE file.key} \ {None}

\* Faulty variant: the file itself is written.
PutInPlace(j, c) == file' = c /\ temp' = temp

Put(j, c) == temp' = [temp EXCEPT ![j] = c] /\ file' = file

(* The current settings are read - without a key of its own the save keeps *)
(* the stored one, and fails if there is none - and written.               *)
Write(j) ==
    /\ Saves(j) /\ job[j].at = "asked"
    /\ \E k \in KeyFor(j) :
          /\ job' = [job EXCEPT ![j] = [@ EXCEPT !.at = "writing", !.key = k]]
          /\ Put(j, Half([model |-> job[j].model, key |-> k]))
    /\ UNCHANGED <<removal, crashes>>

Flush(j) ==
    /\ job[j].at = "writing" /\ Put(j, New(j))
    /\ job' = [job EXCEPT ![j].at = "written"]
    /\ UNCHANGED <<removal, crashes>>

Rename(j) ==
    /\ job[j].at = "written"
    /\ file' = temp[j] /\ temp' = [temp EXCEPT ![j] = None]
    /\ job' = [job EXCEPT ![j].at = "changed"]
    /\ UNCHANGED <<removal, crashes>>

Unlink(j) ==
    /\ job[j].what = "remove" /\ job[j].at = "asked"
    /\ file' = Missing
    /\ job' = [job EXCEPT ![j].at = "changed"]
    /\ UNCHANGED <<temp, removal, crashes>>

\* A removal counts as done when its answer says that no key is stored and no save
\* is under way; one that is may have read the key before.
Promise(j) == \/ removal
              \/ job[j].what = "remove" /\ file = Missing /\ \A i \in Job : ~Saves(i)

(* The answer is the status of the settings as they are by then.           *)
Show(j) ==
    /\ job[j].at = IF job[j].what = "show" THEN "asked" ELSE "changed"
    /\ removal' = Promise(j)
    /\ job' = [job EXCEPT ![j] = Idle]
    /\ UNCHANGED <<file, temp, crashes>>

(* The controller dies; a temporary file it leaves is never read.          *)
Crash ==
    /\ crashes < MaxCrashes /\ crashes' = crashes + 1
    /\ job' = [j \in Job |-> Idle] /\ temp' = [j \in Job |-> None]
    /\ UNCHANGED <<file, removal>>

SettingsNext ==
    \/ \E j \in Job :
        \/ \E q \in Request : Ask(j, q)
        \/ Write(j) \/ Flush(j) \/ Rename(j)
        \/ Unlink(j) \/ Show(j) \/ Fail(j)
    \/ Crash

SettingsSpec == SettingsInit /\ [][SettingsNext]_settings

-----------------------------------------------------------------------------
(* "删除已保存的 OpenAI 密钥并立即停用云端识图" (README.md:152): once a       *)
(* removal was answered with no key left, no key is stored until an        *)
(* administrator gives one; a later save that only changes the model must  *)
(* not bring it back.  One that is still under way can: it has read the    *)
(* key before the removal and puts it back afterwards (vision.py:261, 296).*)
RemovalHolds == removal => file = Missing
=============================================================================
