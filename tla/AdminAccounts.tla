---------------------------- MODULE AdminAccounts ---------------------------
(***************************************************************************)
(* Administrator accounts and their sessions.  A session is a signed       *)
(* cookie that carries an account and the version its row had when the     *)
(* login read it; nothing is stored for it, and it is accepted as long as  *)
(* the row still has that version.  A login reads the row, spends a long    *)
(* time on the password and only then writes to the row and issues the     *)
(* cookie, while managers change, delete and create accounts.              *)
(***************************************************************************)
EXTENDS Integers, FiniteSets

CONSTANTS
    Id,             \* account identifiers
    Name,           \* user names, "Mutsu" among them
    Password,
    Permission,     \* "accounts.manage" among them
    Handler,        \* threads that serve a login
    Request,        \* calls of the account management
    Setup,          \* runs of bootstrap-admin.py
    None,           \* no account, no password
    LockAt,         \* wrong logins that lock an account (5)
    MaxRecent,      \* wrong logins of a user name that are let in (5)
    MaxToken,       \* bound: personal tokens handed out
    MaxVersion,     \* bound: version of an account
    MaxLogins       \* bound: logins

ASSUME AccountsAssumption ==
    /\ None \notin Id \cup Password
    /\ "Mutsu" \in Name /\ "accounts.manage" \in Permission
    /\ LockAt \in Nat \ {0} /\ MaxRecent \in Nat \ {0}
    /\ MaxToken \in Nat /\ MaxVersion \in Nat \ {0} /\ MaxLogins \in Nat
    /\ IsFiniteSet(Handler)

VARIABLES
    account,    \* id -> its row in controller_admin_accounts, or Absent
    tokens,     \* personal tokens generated so far; a token is its number
    recent,     \* user name -> wrong logins in login_attempts
    login,      \* handler -> its login
    issued,     \* session cookies that browsers hold
    request,    \* calls that passed the permission check and have yet to act
    setup,      \* runs of the script that saw no super administrator
    wrong,      \* id -> wrong logins counted since the last right one
    logins      \* logins so far

vars == <<account, tokens, recent, login, issued, request, setup, wrong, logins>>

Account == [name : Name, password : Password, token : Nat, permissions : SUBSET Permission,
            super : BOOLEAN, version : Nat, failed : Nat,
            locked : {"no", "yes", "lapsed"}]

Absent == [name |-> "nobody"]
Gone   == [name |-> "deleted"]

Row == Account \cup {Absent, Gone}

Live(i) == account[i] \notin {Absent, Gone}

\* What a login shows of an account: credentials and permissions.
Facts(row) == [password |-> row.password, token |-> row.token, permissions |-> row.permissions]

Session == [id : Id, version : Nat,
            of : [password : Password, token : Nat, permissions : SUBSET Permission]]

Login == [at : {"idle", "admitted", "verifying", "rejected", "accepted", "failed"},
          name : Name, password : Password \cup {None}, token : Nat, id : Id \cup {None}, seen : Row]

(* Everything in its domain; the version of a live row is at least 1, or   *)
(* none of its sessions would be accepted (admin_session.py:53).           *)
TypeOK ==
    /\ account \in [Id -> Row]
    /\ \A i \in Id : Live(i) => account[i].version >= 1
    /\ tokens \in Nat
    /\ recent \in [Name -> Nat]
    /\ login \in [Handler -> Login]
    /\ \A h \in Handler : login[h].at \in {"verifying", "accepted"} =>
                              login[h].id \in Id /\ login[h].seen \in Account
    /\ issued \subseteq Session
    /\ request \subseteq Request /\ setup \subseteq Setup
    /\ wrong \in [Id -> Nat]
    /\ logins \in Nat

\* Faulty variant: versions start at 0.
NewRowAtZero(n, p, t, m, s) ==
    [name |-> n, password |-> p, token |-> t, permissions |-> m, super |-> s,
     version |-> 0, failed |-> 0, locked |-> "no"]

NewRow(n, p, t, m, s) ==
    [name |-> n, password |-> p, token |-> t, permissions |-> m, super |-> s,
     version |-> 1, failed |-> 0, locked |-> "no"]

NoLogin == [at |-> "idle", name |-> "Mutsu", password |-> None,
            token |-> 0, id |-> None, seen |-> Absent]

Init ==
    /\ account = [i \in Id |-> Absent]
    /\ tokens = 0
    /\ recent = [n \in Name |-> 0]
    /\ login = [h \in Handler |-> NoLogin]
    /\ issued = {} /\ request = {} /\ setup = {}
    /\ wrong = [i \in Id |-> 0]
    /\ logins = 0

-----------------------------------------------------------------------------
(* A new row needs an identifier never used and a name no row has; both    *)
(* are the database's to ensure.                                           *)
\* Faulty variant: the table has no unique user name.
FreeId(i, n) == account[i] = Absent

Free(i, n) ==
    /\ account[i] = Absent
    /\ \A j \in Id : Live(j) => account[j].name # n

Insert(i, n, p, m, s) ==
    /\ tokens < MaxToken /\ tokens' = tokens + 1
    /\ account' = [account EXCEPT ![i] = NewRow(n, p, tokens', m, s)]

(* The script that creates the super administrator looks for one, then     *)
(* inserts it; two runs of it may both find none.                          *)
Look(b) ==
    /\ b \notin setup
    /\ \A i \in Id : Live(i) => ~account[i].super
    /\ setup' = setup \cup {b}
    /\ UNCHANGED <<account, tokens, recent, login, issued, request, wrong, logins>>

Bootstrap(b) ==
    /\ b \in setup
    /\ setup' = setup \ {b}
    /\ \/ \E i \in Id, p \in Password : Free(i, "Mutsu") /\ Insert(i, "Mutsu", p, {}, TRUE)
       \/ (\A i \in Id : ~Free(i, "Mutsu")) /\ UNCHANGED <<account, tokens>>
    /\ UNCHANGED <<recent, login, issued, request, wrong, logins>>

-----------------------------------------------------------------------------
(* A login, in the four steps in which it meets the others: the throttle,  *)
(* the SELECT, the check with the UPDATE it leads to, the answer.          *)
\* Faulty variant: one more.
TooManyByOne(n) == recent[n] > MaxRecent

TooMany(n) == recent[n] >= MaxRecent

(* A table with too many keys of other clients is emptied first, except    *)
(* for the own one.                                                        *)
Admit(h, n, p, t) ==
    /\ login[h].at = "idle"
    /\ ~TooMany(n)
    /\ recent' \in {recent, [m \in Name |-> IF m = n THEN recent[n] ELSE 0]}
    /\ logins < MaxLogins /\ logins' = logins + 1
    /\ login' = [login EXCEPT ![h] = [NoLogin EXCEPT !.at = "admitted", !.name = n,
                                                     !.password = p, !.token = t]]
    /\ UNCHANGED <<account, tokens, issued, request, setup, wrong>>

Ends(h, how) == login' = [login EXCEPT ![h] = [NoLogin EXCEPT !.at = how, !.name = login[h].name]]

(* The statement may fail; then the login ends with 503.                   *)
LookUp(h) ==
    /\ login[h].at = "admitted"
    /\ \/ \E i \in Id :
            /\ Live(i) /\ account[i].name = login[h].name
            /\ IF account[i].locked = "yes"
               THEN Ends(h, "rejected")
               ELSE login' = [login EXCEPT ![h].at = "verifying", ![h].id = i,
                                           ![h].seen = account[i]]
       \/ /\ \A i \in Id : Live(i) => account[i].name # login[h].name
          /\ Ends(h, "rejected")
       \/ Ends(h, "failed")
    /\ UNCHANGED <<account, tokens, recent, issued, request, setup, wrong, logins>>

Valid(h) == /\ login[h].seen.password = login[h].password
            /\ login[h].seen.token = login[h].token

\* Faulty variant: counts from the row the login has read.
FailedFromSeen(h, row) ==
    LET n == login[h].seen.failed + 1 IN
    [row EXCEPT !.failed = n, !.locked = IF n >= LockAt THEN "yes" ELSE "no"]

Failed(h, row) ==
    LET n == row.failed + 1 IN
    [row EXCEPT !.failed = n, !.locked = IF n >= LockAt THEN "yes" ELSE "no"]

Cleared(row) == [row EXCEPT !.failed = 0, !.locked = "no"]

(* The super administrator's row is left alone, a deleted one is not found. *)
CountLogin(h) ==
    LET i == login[h].id IN
    IF Live(i) /\ ~login[h].seen.super
    THEN /\ account' = [account EXCEPT ![i] = IF Valid(h) THEN Cleared(@) ELSE Failed(h, @)]
         /\ wrong' = [wrong EXCEPT ![i] = IF Valid(h) THEN 0 ELSE @ + 1]
    ELSE UNCHANGED <<account, wrong>>

(* The commit may fail, or succeed without the controller hearing of it:   *)
(* either way the login ends with 503.                                     *)
Verify(h) ==
    /\ login[h].at = "verifying"
    /\ \/ /\ CountLogin(h)
          /\ \/ Valid(h) /\ login' = [login EXCEPT ![h].at = "accepted"]
             \/ ~Valid(h) /\ Ends(h, "rejected")
             \/ Ends(h, "failed")
       \/ /\ Ends(h, "failed")
          /\ UNCHANGED <<account, wrong>>
    /\ UNCHANGED <<tokens, recent, issued, request, setup, logins>>

Cookie(id, version, row) == [id |-> id, version |-> version, of |-> Facts(row)]

\* Faulty variant: the version the row has when the cookie is made.
SessionOfNow(h) == Cookie(login[h].id,
    IF Live(login[h].id) THEN account[login[h].id].version ELSE 1, login[h].seen)

SessionOf(h) == Cookie(login[h].id, login[h].seen.version, login[h].seen)

Answer(h) ==
    /\ login[h].at \in {"rejected", "accepted", "failed"}
    /\ recent' = [recent EXCEPT ![login[h].name] = CASE login[h].at = "rejected" -> @ + 1
                                                     [] login[h].at = "accepted" -> 0
                                                     [] OTHER -> @]
    /\ issued' = IF login[h].at = "accepted" THEN issued \cup {SessionOf(h)} ELSE issued
    /\ login' = [login EXCEPT ![h] = NoLogin]
    /\ UNCHANGED <<account, tokens, request, setup, wrong, logins>>

-----------------------------------------------------------------------------
(* A request with a session: the row is looked up by account and version,  *)
(* and permissions are those of the row found.                             *)
Accepted(s) == Live(s.id) /\ account[s.id].version = s.version

MayManage(s) == account[s.id].super \/ "accounts.manage" \in account[s.id].permissions

(* Permission check of a management call; the endpoint acts later.         *)
Allow(q, s) ==
    /\ q \notin request
    /\ s \in issued /\ Accepted(s) /\ MayManage(s)
    /\ request' = request \cup {q}
    /\ UNCHANGED <<account, tokens, recent, login, issued, setup, wrong, logins>>

Mutable(i) == Live(i) /\ ~account[i].super

Replace(i, row) ==
    /\ account[i].version < MaxVersion
    /\ account' = [account EXCEPT ![i] = [row EXCEPT !.version = @ + 1]]

Create(n, p, m) ==
    /\ n # "Mutsu"
    /\ \E i \in Id : Free(i, n) /\ Insert(i, n, p, m, FALSE)

UpdatePermissions(i, m) ==
    /\ Mutable(i) /\ Replace(i, [account[i] EXCEPT !.permissions = m])
    /\ UNCHANGED tokens

RotateToken(i) ==
    /\ Mutable(i) /\ tokens < MaxToken
    /\ tokens' = tokens + 1
    /\ Replace(i, [account[i] EXCEPT !.token = tokens'])

UpdatePassword(i, p) ==
    /\ Mutable(i) /\ Replace(i, [account[i] EXCEPT !.password = p])
    /\ UNCHANGED tokens

Delete(i) ==
    /\ Mutable(i) /\ account' = [account EXCEPT ![i] = Gone]
    /\ UNCHANGED tokens

(* What the endpoint does: its statement takes effect, or it ends with an  *)
(* error before it does.  An error after the commit changes nothing here.  *)
Act(q) ==
    /\ q \in request
    /\ request' = request \ {q}
    /\ \/ \E n \in Name, p \in Password, m \in SUBSET Permission : Create(n, p, m)
       \/ \E i \in Id : \/ \E m \in SUBSET Permission : UpdatePermissions(i, m)
                        \/ RotateToken(i)
                        \/ \E p \in Password : UpdatePassword(i, p)
                        \/ Delete(i)
       \/ UNCHANGED <<account, tokens>>
    /\ UNCHANGED <<recent, login, issued, setup, wrong, logins>>

-----------------------------------------------------------------------------
(* A browser logs out, or the cookie expires.                              *)
Leave(s) ==
    /\ s \in issued
    /\ issued' = issued \ {s}
    /\ UNCHANGED <<account, tokens, recent, login, request, setup, wrong, logins>>

(* Fifteen minutes pass: for a lock, or for a wrong login in the throttle. *)
LockLapses(i) ==
    /\ Live(i) /\ account[i].locked = "yes"
    /\ account' = [account EXCEPT ![i].locked = "lapsed"]
    /\ UNCHANGED <<tokens, recent, login, issued, request, setup, wrong, logins>>

Forget(n) ==
    /\ recent[n] > 0 /\ recent' = [recent EXCEPT ![n] = @ - 1]
    /\ UNCHANGED <<account, tokens, login, issued, request, setup, wrong, logins>>

LoginStep(h) ==
    \/ \E n \in Name, p \in Password, t \in 1..tokens : Admit(h, n, p, t)
    \/ LookUp(h)
    \/ Verify(h)
    \/ Answer(h)

Next ==
    \/ \E b \in Setup : Look(b) \/ Bootstrap(b)
    \/ \E h \in Handler : LoginStep(h)
    \/ \E q \in Request : (\E s \in issued : Allow(q, s)) \/ Act(q)
    \/ \E s \in issued : Leave(s)
    \/ \E i \in Id : LockLapses(i)
    \/ \E n \in Name : Forget(n)

Spec == Init /\ [][Next]_vars

-----------------------------------------------------------------------------
(* "管理员会话绑定账号和授权版本，删除、重置或调整权限后旧会话立即失效"          *)
(* (README.md:102): a session that would be accepted now rests on the      *)
(* password, the token and the permissions the account has now, even if    *)
(* the login that led to it overlapped any number of changes.  The window  *)
(* is in authenticate (98-131): the row is read, the slow check of the     *)
(* password follows, and the cookie is made from the row that was read.    *)
SessionsAreCurrent ==
    \A s \in issued : Accepted(s) => s.of = Facts(account[s.id])

(* No wrong login is forgotten when several are checked at once, and an    *)
(* account is locked, or has been since, exactly when LockAt of them in a  *)
(* row were counted (the UPDATE of lines 115-123).                         *)
LockFollowsFailures ==
    \A i \in Id : Live(i) =>
        /\ account[i].failed = wrong[i]
        /\ account[i].locked # "no" <=> wrong[i] >= LockAt

(* At most one super administrator, though two runs of the script may both *)
(* see none (79-96), and he alone is called Mutsu.                         *)
OneSuper ==
    /\ Cardinality({i \in Id : Live(i) /\ account[i].super}) <= 1
    /\ \A i \in Id : Live(i) => (account[i].super <=> account[i].name = "Mutsu")

InFlight(n) == {h \in Handler : login[h].at # "idle" /\ login[h].name = n}

(* Wrong logins of a name are refused from the fifth on (465), but the     *)
(* count is read before the slow check and raised after it, in two         *)
(* critical sections.  So more can get through, and this bounds them: the  *)
(* wrong ones counted and those still in flight exceed the limit by the    *)
(* number of logins that are served at once, and no more.                  *)
BoundedGuesses ==
    \A n \in Name :
        recent[n] + Cardinality(InFlight(n)) <= MaxRecent - 1 + Cardinality(Handler)
=============================================================================
