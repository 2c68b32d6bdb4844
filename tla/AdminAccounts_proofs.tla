------------------------ MODULE AdminAccounts_proofs ------------------------
(***************************************************************************)
(* Old sessions are void, for every number of accounts, logins, managers   *)
(* and sessions.  The argument is about one row at a time: a step leaves   *)
(* it, fills an unused one, deletes it for good, changes it without what a *)
(* login shows of it, or raises its version.  So whoever has seen a row at *)
(* its present version has seen what the row says now.                     *)
(***************************************************************************)
EXTENDS AdminAccounts, FiniteSetTheorems, TLAPS

(* What a step may do to a row.                                            *)
Evolves(i) ==
    \/ account'[i] = account[i]
    \/ /\ account[i] = Absent /\ account'[i] \in Account /\ account'[i].version = 1
    \/ /\ Live(i) /\ account'[i] = Gone
    \/ /\ Live(i) /\ account'[i] \in Account
       /\ account'[i].version = account[i].version
       /\ Facts(account'[i]) = Facts(account[i])
    \/ /\ Live(i) /\ account'[i] \in Account
       /\ account'[i].version = account[i].version + 1

(* Rows are told from the marks of unused and deleted ones.                *)
LEMMA Marks == Absent \notin Account /\ Gone \notin Account /\ Absent # Gone
  BY DEF Absent, Gone, Account

(* A live row is a row of the table.                                       *)
LEMMA LiveRow == ASSUME TypeOK, NEW i \in Id, Live(i) PROVE account[i] \in Account
  BY DEF TypeOK, Live, Row

(* Raising the version of a row gives a row.                               *)
LEMMA Raised ==
    ASSUME NEW r \in Account
    PROVE  /\ [r EXCEPT !.version = @ + 1] \in Account
           /\ [r EXCEPT !.version = @ + 1].version = r.version + 1
  BY DEF Account

(* Counting a login, right or wrong, leaves what a login shows.            *)
LEMMA Counted ==
    ASSUME NEW r \in Account, NEW h
    PROVE  /\ Cleared(r) \in Account /\ Cleared(r).version = r.version
           /\ Facts(Cleared(r)) = Facts(r)
           /\ Failed(h, r) \in Account /\ Failed(h, r).version = r.version
           /\ Facts(Failed(h, r)) = Facts(r)
<1>1. /\ Cleared(r) \in Account /\ Cleared(r).version = r.version
      /\ Facts(Cleared(r)) = Facts(r)
  BY DEF Cleared, Account, Facts
<1> DEFINE n == r.failed + 1
           k == IF n >= LockAt THEN "yes" ELSE "no"
<1>2. Failed(h, r) = [[r EXCEPT !.failed = n] EXCEPT !.locked = k]
  BY DEF Failed
<1>3. n \in Nat /\ k \in {"yes", "no"}
  BY DEF Account
<1> HIDE DEF n, k
<1>4. /\ [[r EXCEPT !.failed = n] EXCEPT !.locked = k] \in Account
      /\ [[r EXCEPT !.failed = n] EXCEPT !.locked = k].version = r.version
      /\ Facts([[r EXCEPT !.failed = n] EXCEPT !.locked = k]) = Facts(r)
  BY <1>3 DEF Account, Facts
<1> QED BY <1>1, <1>2, <1>4

(* A new row is a row of version 1.                                        *)
LEMMA Fresh ==
    ASSUME NEW n \in Name, NEW p \in Password, NEW t \in Nat,
           NEW m \in SUBSET Permission, NEW s \in BOOLEAN
    PROVE  NewRow(n, p, t, m, s) \in Account /\ NewRow(n, p, t, m, s).version = 1
  BY DEF NewRow, Account

-----------------------------------------------------------------------------
(* An unused row is filled.                                                *)
LEMMA Inserted ==
    ASSUME TypeOK, NEW i \in Id, NEW n \in Name, NEW p \in Password,
           NEW m \in SUBSET Permission, NEW s \in BOOLEAN,
           Free(i, n), Insert(i, n, p, m, s)
    PROVE  account' \in [Id -> Row] /\ tokens' \in Nat /\ \A j \in Id : Evolves(j)
<1>1. tokens' \in Nat
  BY DEF Insert, TypeOK
<1>2. NewRow(n, p, tokens', m, s) \in Account /\ NewRow(n, p, tokens', m, s).version = 1
  BY <1>1, Fresh
<1>3. account' = [account EXCEPT ![i] = NewRow(n, p, tokens', m, s)] /\ account[i] = Absent
  BY DEF Insert, Free
<1>4. account' \in [Id -> Row]
  BY <1>2, <1>3 DEF TypeOK, Row
<1>5. \A j \in Id : Evolves(j)
  BY <1>2, <1>3 DEF Evolves, TypeOK
<1> QED BY <1>1, <1>4, <1>5

(* A row is changed and its version raised.                                *)
LEMMA Replaced ==
    ASSUME TypeOK, NEW i \in Id, Live(i), NEW r \in Account,
           r.version = account[i].version, Replace(i, r)
    PROVE  account' \in [Id -> Row] /\ \A j \in Id : Evolves(j)
<1>1. [r EXCEPT !.version = @ + 1] \in Account /\ [r EXCEPT !.version = @ + 1].version = r.version + 1
  BY Raised
<1>2. account' = [account EXCEPT ![i] = [r EXCEPT !.version = @ + 1]]
  BY DEF Replace
<1>3. account' \in [Id -> Row]
  BY <1>1, <1>2 DEF TypeOK, Row
<1>4. \A j \in Id : Evolves(j)
  BY <1>1, <1>2 DEF Evolves, TypeOK
<1> QED BY <1>3, <1>4

(* A management call does this to one row.                                 *)
LEMMA Managed ==
    ASSUME TypeOK, NEW q, Act(q)
    PROVE  account' \in [Id -> Row] /\ tokens' \in Nat /\ \A j \in Id : Evolves(j)
<1>1. CASE \E n \in Name, p \in Password, m \in SUBSET Permission : Create(n, p, m)
  BY <1>1, Inserted DEF Create
<1>2. ASSUME NEW i \in Id, NEW m \in SUBSET Permission, UpdatePermissions(i, m)
      PROVE  account' \in [Id -> Row] /\ tokens' \in Nat /\ \A j \in Id : Evolves(j)
  <2>1. Live(i) /\ account[i] \in Account
    BY <1>2, LiveRow DEF UpdatePermissions, Mutable
  <2>2. /\ [account[i] EXCEPT !.permissions = m] \in Account
        /\ [account[i] EXCEPT !.permissions = m].version = account[i].version
    BY <2>1 DEF Account
  <2>3. tokens' \in Nat /\ Replace(i, [account[i] EXCEPT !.permissions = m])
    BY <1>2 DEF UpdatePermissions, TypeOK
  <2> QED BY <2>1, <2>2, <2>3, Replaced
<1>3. ASSUME NEW i \in Id, RotateToken(i)
      PROVE  account' \in [Id -> Row] /\ tokens' \in Nat /\ \A j \in Id : Evolves(j)
  <2>1. Live(i) /\ account[i] \in Account
    BY <1>3, LiveRow DEF RotateToken, Mutable
  <2>2. tokens' \in Nat /\ Replace(i, [account[i] EXCEPT !.token = tokens'])
    BY <1>3 DEF RotateToken, TypeOK
  <2>3. /\ [account[i] EXCEPT !.token = tokens'] \in Account
        /\ [account[i] EXCEPT !.token = tokens'].version = account[i].version
    BY <2>1, <2>2 DEF Account
  <2> QED BY <2>1, <2>2, <2>3, Replaced
<1>4. ASSUME NEW i \in Id, NEW p \in Password, UpdatePassword(i, p)
      PROVE  account' \in [Id -> Row] /\ tokens' \in Nat /\ \A j \in Id : Evolves(j)
  <2>1. Live(i) /\ account[i] \in Account
    BY <1>4, LiveRow DEF UpdatePassword, Mutable
  <2>2. /\ [account[i] EXCEPT !.password = p] \in Account
        /\ [account[i] EXCEPT !.password = p].version = account[i].version
    BY <2>1 DEF Account
  <2>3. tokens' \in Nat /\ Replace(i, [account[i] EXCEPT !.password = p])
    BY <1>4 DEF UpdatePassword, TypeOK
  <2> QED BY <2>1, <2>2, <2>3, Replaced
<1>5. ASSUME NEW i \in Id, Delete(i)
      PROVE  account' \in [Id -> Row] /\ tokens' \in Nat /\ \A j \in Id : Evolves(j)
  <2>1. Live(i) /\ account' = [account EXCEPT ![i] = Gone] /\ tokens' \in Nat
    BY <1>5 DEF Delete, Mutable, TypeOK
  <2>2. account' \in [Id -> Row]
    BY <2>1 DEF TypeOK, Row
  <2>3. \A j \in Id : Evolves(j)
    BY <2>1 DEF Evolves, TypeOK
  <2> QED BY <2>1, <2>2, <2>3
<1>6. CASE UNCHANGED <<account, tokens>>
  BY <1>6 DEF Evolves, TypeOK
<1> QED BY <1>1, <1>2, <1>3, <1>4, <1>5, <1>6 DEF Act

(* A login that is counted keeps the version and what a login shows.       *)
LEMMA Checked ==
    ASSUME TypeOK, NEW h \in Handler, Verify(h)
    PROVE  account' \in [Id -> Row] /\ wrong' \in [Id -> Nat] /\ \A j \in Id : Evolves(j)
<1> DEFINE i == login[h].id
<1>1. i \in Id
  BY DEF Verify, TypeOK
<1>2. CASE UNCHANGED <<account, wrong>>
  BY <1>2 DEF Evolves, TypeOK
<1>3. CASE Live(i) /\ ~UNCHANGED <<account, wrong>>
  <2>1. account[i] \in Account
    BY <1>1, <1>3, LiveRow
  <2>2. PICK r \in {Cleared(account[i]), Failed(h, account[i])}, k \in Nat :
             account' = [account EXCEPT ![i] = r] /\ wrong' = [wrong EXCEPT ![i] = k]
    <3>1. CountLogin(h) /\ ~login[h].seen.super
      BY <1>3 DEF Verify, CountLogin
    <3>2. CASE Valid(h)
      <4>1. account' = [account EXCEPT ![i] = Cleared(account[i])] /\ wrong' = [wrong EXCEPT ![i] = 0]
        BY <1>3, <3>1, <3>2 DEF CountLogin
      <4> QED BY <4>1
    <3>3. CASE ~Valid(h)
      <4>1. account' = [account EXCEPT ![i] = Failed(h, account[i])]
        BY <1>3, <3>1, <3>3 DEF CountLogin
      <4>2. wrong' = [wrong EXCEPT ![i] = wrong[i] + 1]
        BY <1>3, <3>1, <3>3 DEF CountLogin
      <4>3. wrong[i] + 1 \in Nat
        BY <1>1 DEF TypeOK
      <4> QED BY <4>1, <4>2, <4>3
    <3> QED BY <3>2, <3>3
  <2>3. r \in Account /\ r.version = account[i].version /\ Facts(r) = Facts(account[i])
    BY <2>1, Counted
  <2>4. account' \in [Id -> Row] /\ wrong' \in [Id -> Nat]
    BY <1>1, <2>2, <2>3 DEF TypeOK, Row
  <2>5. \A j \in Id : Evolves(j)
    BY <1>1, <1>3, <2>2, <2>3 DEF Evolves, TypeOK
  <2> QED BY <2>4, <2>5
<1> QED BY <1>1, <1>2, <1>3 DEF Verify, CountLogin

(* The script fills an unused row.                                         *)
LEMMA Bootstrapped ==
    ASSUME TypeOK, NEW b, Bootstrap(b)
    PROVE  account' \in [Id -> Row] /\ tokens' \in Nat /\ \A j \in Id : Evolves(j)
<1>1. CASE UNCHANGED <<account, tokens>>
  BY <1>1 DEF Evolves, TypeOK
<1>2. ASSUME NEW i \in Id, NEW p \in Password, Free(i, "Mutsu"), Insert(i, "Mutsu", p, {}, TRUE)
      PROVE  account' \in [Id -> Row] /\ tokens' \in Nat /\ \A j \in Id : Evolves(j)
  <2>1. "Mutsu" \in Name /\ {} \in SUBSET Permission /\ TRUE \in BOOLEAN
    BY AccountsAssumption
  <2> QED BY <1>2, <2>1, Inserted
<1> QED BY <1>1, <1>2 DEF Bootstrap

(* A lock that lapses changes nothing else.                                *)
LEMMA Lapsed ==
    ASSUME TypeOK, NEW i \in Id, LockLapses(i)
    PROVE  account' \in [Id -> Row] /\ \A j \in Id : Evolves(j)
<1>1. Live(i) /\ account[i] \in Account
  BY LiveRow DEF LockLapses
<1>2. account' = [account EXCEPT ![i] = [account[i] EXCEPT !.locked = "lapsed"]]
  BY DEF LockLapses
<1>3. /\ [account[i] EXCEPT !.locked = "lapsed"] \in Account
      /\ [account[i] EXCEPT !.locked = "lapsed"].version = account[i].version
      /\ Facts([account[i] EXCEPT !.locked = "lapsed"]) = Facts(account[i])
  BY <1>1 DEF Account, Facts
<1>4. account' \in [Id -> Row]
  BY <1>2, <1>3 DEF TypeOK, Row
<1>5. \A j \in Id : Evolves(j)
  BY <1>1, <1>2, <1>3 DEF Evolves, TypeOK
<1> QED BY <1>4, <1>5

(* Every step of the system does one of these things to every row.         *)
LEMMA RowsEvolve ==
    ASSUME TypeOK, [Next]_vars
    PROVE  /\ account' \in [Id -> Row] /\ tokens' \in Nat /\ wrong' \in [Id -> Nat]
           /\ \A i \in Id : Evolves(i)
<1>0. CASE UNCHANGED <<account, tokens, wrong>>
  BY <1>0 DEF TypeOK, Evolves
<1>1. ASSUME NEW b \in Setup, Look(b) \/ Bootstrap(b)
      PROVE  /\ account' \in [Id -> Row] /\ tokens' \in Nat /\ wrong' \in [Id -> Nat]
             /\ \A i \in Id : Evolves(i)
  <2>1. CASE Look(b)
    BY <2>1, <1>0 DEF Look
  <2>2. CASE Bootstrap(b)
    <3>1. wrong' \in [Id -> Nat]
      BY <2>2 DEF Bootstrap, TypeOK
    <3> QED BY <2>2, <3>1, Bootstrapped
  <2> QED BY <1>1, <2>1, <2>2
<1>2. ASSUME NEW h \in Handler, LoginStep(h)
      PROVE  /\ account' \in [Id -> Row] /\ tokens' \in Nat /\ wrong' \in [Id -> Nat]
             /\ \A i \in Id : Evolves(i)
  <2>1. CASE Verify(h)
    <3>1. tokens' \in Nat
      BY <2>1 DEF Verify, TypeOK
    <3> QED BY <2>1, <3>1, Checked
  <2>2. CASE ~Verify(h)
    BY <1>2, <2>2, <1>0 DEF LoginStep, Admit, LookUp, Answer
  <2> QED BY <2>1, <2>2
<1>3. ASSUME NEW q \in Request, (\E s \in issued : Allow(q, s)) \/ Act(q)
      PROVE  /\ account' \in [Id -> Row] /\ tokens' \in Nat /\ wrong' \in [Id -> Nat]
             /\ \A i \in Id : Evolves(i)
  <2>1. CASE Act(q)
    <3>1. wrong' \in [Id -> Nat]
      BY <2>1 DEF Act, TypeOK
    <3> QED BY <2>1, <3>1, Managed
  <2>2. CASE ~Act(q)
    BY <1>3, <2>2, <1>0 DEF Allow
  <2> QED BY <2>1, <2>2
<1>4. CASE \E s \in issued : Leave(s)
  BY <1>4, <1>0 DEF Leave
<1>5. ASSUME NEW i \in Id, LockLapses(i)
      PROVE  /\ account' \in [Id -> Row] /\ tokens' \in Nat /\ wrong' \in [Id -> Nat]
             /\ \A j \in Id : Evolves(j)
  <2>1. tokens' \in Nat /\ wrong' \in [Id -> Nat]
    BY <1>5 DEF LockLapses, TypeOK
  <2> QED BY <1>5, <2>1, Lapsed
<1>6. CASE \E n \in Name : Forget(n)
  BY <1>6, <1>0 DEF Forget
<1>7. CASE UNCHANGED vars
  BY <1>7, <1>0 DEF vars
<1> QED BY <1>1, <1>2, <1>3, <1>4, <1>5, <1>6, <1>7 DEF Next

(* What a step may do to a login: it stops looking at a row, it starts to, *)
(* it goes on with the row it has seen, or it is not touched.              *)
Moves(h) ==
    \/ login'[h] = login[h]
    \/ login'[h] \in Login /\ login'[h].at \notin {"verifying", "accepted"}
    \/ \E i \in Id : /\ Live(i) /\ UNCHANGED account
                     /\ login'[h].id = i /\ login'[h].seen = account[i]
    \/ /\ login[h].at = "verifying"
       /\ login'[h] = [login[h] EXCEPT !.at = "accepted"]

(* An idle login, or one that has ended.                                   *)
LEMMA Ended ==
    ASSUME TypeOK, NEW h \in Handler,
           NEW how \in {"rejected", "failed"}, Ends(h, how)
    PROVE  login' \in [Handler -> Login] /\ \A k \in Handler : Moves(k)
<1> DEFINE l == [NoLogin EXCEPT !.at = how, !.name = login[h].name]
<1>1. login[h].name \in Name
  BY DEF TypeOK, Login
<1>2. [NoLogin EXCEPT !.at = how] =
          [at |-> how, name |-> "Mutsu", password |-> None, token |-> 0, id |-> None, seen |-> Absent]
  BY DEF NoLogin
<1>3. l = [at |-> how, name |-> login[h].name, password |-> None,
           token |-> 0, id |-> None, seen |-> Absent]
  <2> DEFINE m == [NoLogin EXCEPT !.at = how]
  <2>1. l = [m EXCEPT !.name = login[h].name]
    OBVIOUS
  <2>2. m = [at |-> how, name |-> "Mutsu", password |-> None,
             token |-> 0, id |-> None, seen |-> Absent]
    BY <1>2
  <2> HIDE DEF m, l
  <2> QED BY <2>1, <2>2
<1>4. Absent \in Row
  BY DEF Row
<1>5. l \in Login /\ l.at = how
  <2> HIDE DEF l
  <2> QED BY <1>1, <1>3, <1>4 DEF Login
<1>6. login' = [login EXCEPT ![h] = l]
  BY DEF Ends
<1> HIDE DEF l
<1>7. login' \in [Handler -> Login]
  BY <1>5, <1>6 DEF TypeOK
<1>8. \A k \in Handler : Moves(k)
  BY <1>5, <1>6 DEF Moves, TypeOK
<1> QED BY <1>7, <1>8

(* Every step does one of these things to every login.                     *)
LEMMA LoginsMove ==
    ASSUME TypeOK, [Next]_vars
    PROVE  login' \in [Handler -> Login] /\ \A h \in Handler : Moves(h)
<1>0. CASE UNCHANGED login
  BY <1>0 DEF TypeOK, Moves
<1>1. ASSUME NEW h \in Handler, NEW n \in Name, NEW p \in Password, NEW t \in 1..tokens,
             Admit(h, n, p, t)
      PROVE  login' \in [Handler -> Login] /\ \A k \in Handler : Moves(k)
  <2> DEFINE l == [NoLogin EXCEPT !.at = "admitted", !.name = n, !.password = p, !.token = t]
             r == [at |-> "admitted", name |-> n, password |-> p,
                   token |-> t, id |-> None, seen |-> Absent]
  <2>1. [NoLogin EXCEPT !.at = "admitted"] =
            [at |-> "admitted", name |-> "Mutsu", password |-> None, token |-> 0,
             id |-> None, seen |-> Absent]
    BY DEF NoLogin
  <2>2. l = r
    <3> DEFINE m == [NoLogin EXCEPT !.at = "admitted"]
               k == [m EXCEPT !.name = n]
               j == [k EXCEPT !.password = p]
    <3>1. l = [j EXCEPT !.token = t]
      OBVIOUS
    <3>2. m = [at |-> "admitted", name |-> "Mutsu", password |-> None, token |-> 0,
               id |-> None, seen |-> Absent]
      BY <2>1
    <3>3. k = [at |-> "admitted", name |-> n, password |-> None, token |-> 0,
               id |-> None, seen |-> Absent]
      <4> HIDE DEF m
      <4> QED BY <3>2
    <3>4. j = [at |-> "admitted", name |-> n, password |-> p, token |-> 0,
               id |-> None, seen |-> Absent]
      <4> HIDE DEF m, k
      <4> QED BY <3>3
    <3> HIDE DEF m, k, j, l
    <3> QED BY <3>1, <3>4
  <2>3. Absent \in Row /\ t \in Nat
    BY DEF Row, TypeOK
  <2>4. r \in Login /\ r.at = "admitted"
    BY <2>3 DEF Login
  <2>5. login' = [login EXCEPT ![h] = l]
    BY <1>1 DEF Admit
  <2> HIDE DEF l, r
  <2>6. login' \in [Handler -> Login]
    BY <2>2, <2>4, <2>5 DEF TypeOK
  <2>7. \A k \in Handler : Moves(k)
    BY <2>2, <2>4, <2>5 DEF Moves, TypeOK
  <2> QED BY <2>6, <2>7
<1>2. ASSUME NEW h \in Handler, LookUp(h)
      PROVE  login' \in [Handler -> Login] /\ \A k \in Handler : Moves(k)
  <2>1. CASE Ends(h, "rejected") \/ Ends(h, "failed")
    BY <2>1, Ended
  <2>2. ASSUME NEW i \in Id, Live(i),
               login' = [login EXCEPT ![h].at = "verifying", ![h].id = i, ![h].seen = account[i]]
        PROVE  login' \in [Handler -> Login] /\ \A k \in Handler : Moves(k)
    <3> DEFINE r == [at |-> "verifying", name |-> login[h].name, password |-> login[h].password,
                     token |-> login[h].token, id |-> i, seen |-> account[i]]
    <3>1. login[h] \in Login /\ account[i] \in Row
      BY DEF TypeOK
    <3>2. r \in Login
      BY <3>1 DEF Login
    <3>3. login' = [login EXCEPT ![h] = r]
      <4> DEFINE f == [login EXCEPT ![h].at = "verifying"]
                 g == [f EXCEPT ![h].id = i]
                 l == login[h]
                 la == [l EXCEPT !.at = "verifying"]
                 lb == [la EXCEPT !.id = i]
                 lc == [lb EXCEPT !.seen = account[i]]
      <4>1. login' = [g EXCEPT ![h].seen = account[i]]
        BY <2>2
      <4>2. login \in [Handler -> Login]
        BY DEF TypeOK
      <4>3. f = [login EXCEPT ![h] = la]
        BY <4>2
      <4>4. g = [login EXCEPT ![h] = lb]
        <5> HIDE DEF f, la
        <5>1. g = [f EXCEPT ![h] = [f[h] EXCEPT !.id = i]] /\ f[h] = la
          BY <4>2, <4>3
        <5> HIDE DEF g
        <5> QED BY <4>2, <4>3, <5>1
      <4>5. login' = [login EXCEPT ![h] = lc]
        <5> HIDE DEF f, g, la, lb
        <5>1. login' = [g EXCEPT ![h] = [g[h] EXCEPT !.seen = account[i]]] /\ g[h] = lb
          BY <4>1, <4>2, <4>4
        <5> QED BY <4>2, <4>4, <5>1
      <4>6. la = [at |-> "verifying", name |-> l.name, password |-> l.password,
                  token |-> l.token, id |-> l.id, seen |-> l.seen]
        BY <3>1 DEF Login
      <4>7. lb = [at |-> "verifying", name |-> l.name, password |-> l.password,
                  token |-> l.token, id |-> i, seen |-> l.seen]
        <5> HIDE DEF la, l
        <5> QED BY <4>6
      <4>8. lc = [at |-> "verifying", name |-> l.name, password |-> l.password,
                  token |-> l.token, id |-> i, seen |-> account[i]]
        <5> HIDE DEF la, lb, l
        <5> QED BY <4>7
      <4>9. lc = r
        <5> HIDE DEF lc
        <5> QED BY <4>8
      <4> HIDE DEF lc, r
      <4> QED BY <4>5, <4>9
    <3>4. UNCHANGED account
      BY <1>2 DEF LookUp
    <3>5. login' \in [Handler -> Login]
      <4> HIDE DEF r
      <4> QED BY <3>2, <3>3 DEF TypeOK
    <3>6. Moves(h)
      <4>1. login'[h] = r
        <5> HIDE DEF r
        <5> QED BY <3>3 DEF TypeOK
      <4>2. login'[h].id = i /\ login'[h].seen = account[i]
        BY <4>1
      <4> HIDE DEF r
      <4> QED BY <2>2, <3>4, <4>2 DEF Moves
    <3>7. \A k \in Handler \ {h} : Moves(k)
      <4> HIDE DEF r
      <4> QED BY <3>3 DEF Moves, TypeOK
    <3> QED BY <3>5, <3>6, <3>7
  <2> QED BY <1>2, <2>1, <2>2 DEF LookUp
<1>3. ASSUME NEW h \in Handler, Verify(h)
      PROVE  login' \in [Handler -> Login] /\ \A k \in Handler : Moves(k)
  <2>1. CASE \E how \in {"rejected", "failed"} : Ends(h, how)
    BY <2>1, Ended
  <2>2. CASE login' = [login EXCEPT ![h].at = "accepted"]
    <3>1. login[h].at = "verifying" /\ login[h] \in Login
      BY <1>3 DEF Verify, TypeOK
    <3>2. [login[h] EXCEPT !.at = "accepted"] \in Login
      BY <3>1 DEF Login
    <3>3. login' = [login EXCEPT ![h] = [login[h] EXCEPT !.at = "accepted"]]
      BY <2>2
    <3>4. login' \in [Handler -> Login]
      BY <3>2, <3>3 DEF TypeOK
    <3>5. \A k \in Handler : Moves(k)
      BY <3>1, <3>3 DEF Moves, TypeOK
    <3> QED BY <3>4, <3>5
  <2> QED BY <1>3, <2>1, <2>2 DEF Verify
<1>4. ASSUME NEW h \in Handler, Answer(h)
      PROVE  login' \in [Handler -> Login] /\ \A k \in Handler : Moves(k)
  <2>1. NoLogin \in Login /\ NoLogin.at = "idle"
    BY AccountsAssumption DEF NoLogin, Login, Row
  <2>2. login' = [login EXCEPT ![h] = NoLogin]
    BY <1>4 DEF Answer
  <2>3. login' \in [Handler -> Login]
    BY <2>1, <2>2 DEF TypeOK
  <2>4. \A k \in Handler : Moves(k)
    BY <2>1, <2>2 DEF Moves, TypeOK
  <2> QED BY <2>3, <2>4
<1>5. CASE \E h \in Handler : LoginStep(h)
  BY <1>1, <1>2, <1>3, <1>4, <1>5 DEF LoginStep
<1>6. CASE ~\E h \in Handler : LoginStep(h)
  BY <1>0, <1>6 DEF Next, Look, Bootstrap, Allow, Act, Leave, LockLapses, Forget, vars
<1> QED BY <1>5, <1>6

-----------------------------------------------------------------------------
(* A session made of a login that has been accepted.                       *)
LEMMA Made ==
    ASSUME TypeOK, NEW h \in Handler, login[h].at = "accepted"
    PROVE  SessionOf(h) \in Session
  BY DEF TypeOK, SessionOf, Cookie, Facts, Session, Account

(* Sessions come from accepted logins only.                                *)
LEMMA Issues ==
    ASSUME TypeOK, [Next]_vars
    PROVE  \A s \in issued' : \/ s \in issued
                              \/ \E h \in Handler : login[h].at = "accepted" /\ s = SessionOf(h)
<1>1. CASE issued' \subseteq issued
  BY <1>1
<1>2. ASSUME NEW h \in Handler, LoginStep(h)
      PROVE  \A s \in issued' : \/ s \in issued
                                \/ \E k \in Handler : login[k].at = "accepted" /\ s = SessionOf(k)
  BY <1>2 DEF LoginStep, Admit, LookUp, Verify, Answer
<1>3. CASE ~\E h \in Handler : LoginStep(h)
  BY <1>1, <1>3 DEF Next, Look, Bootstrap, Allow, Act, Leave, LockLapses, Forget, vars
<1> QED BY <1>2, <1>3

(* Counters of the throttle stay natural numbers.                          *)
LEMMA Throttled == ASSUME TypeOK, [Next]_vars PROVE recent' \in [Name -> Nat]
<1>1. CASE UNCHANGED recent
  BY <1>1 DEF TypeOK
<1>2. ASSUME NEW h \in Handler, Answer(h) PROVE recent' \in [Name -> Nat]
  <2> DEFINE n == login[h].name
  <2>1. n \in Name /\ recent[n] \in Nat
    BY DEF TypeOK, Login
  <2>2. PICK k \in Nat : recent' = [recent EXCEPT ![n] = k]
    <3>1. CASE login[h].at = "rejected"
      <4>1. recent' = [recent EXCEPT ![n] = recent[n] + 1]
        BY <1>2, <3>1 DEF Answer
      <4>2. recent[n] + 1 \in Nat
        BY <2>1
      <4> QED BY <4>1, <4>2
    <3>2. CASE login[h].at = "accepted"
      <4>1. recent' = [recent EXCEPT ![n] = 0]
        BY <1>2, <3>2 DEF Answer
      <4> QED BY <4>1
    <3>3. CASE login[h].at = "failed"
      <4>1. recent' = [recent EXCEPT ![n] = recent[n]]
        BY <1>2, <3>3 DEF Answer
      <4> QED BY <2>1, <4>1
    <3> QED BY <1>2, <3>1, <3>2, <3>3 DEF Answer
  <2> QED BY <2>1, <2>2 DEF TypeOK
<1>3. ASSUME NEW n \in Name, Forget(n) PROVE recent' \in [Name -> Nat]
  BY <1>3 DEF Forget, TypeOK
<1>5. ASSUME NEW h \in Handler, NEW n \in Name, NEW p \in Password, NEW t \in 1..tokens, Admit(h, n, p, t)
      PROVE  recent' \in [Name -> Nat]
  BY <1>5 DEF Admit, TypeOK
<1>6. CASE UNCHANGED vars
  BY <1>1, <1>6 DEF vars
<1>4. ASSUME ~(\E h \in Handler : Answer(h)), ~(\E n \in Name : Forget(n)),
             ~(\E h \in Handler, n \in Name, p \in Password, t \in 1..tokens : Admit(h, n, p, t)), Next
      PROVE  UNCHANGED recent
  BY <1>4 DEF Next, LoginStep, Look, Bootstrap, LookUp, Verify, Allow, Act, Leave, LockLapses
<1> QED BY <1>1, <1>2, <1>3, <1>4, <1>5, <1>6

(* The calls in progress and the number of logins stay what they are.      *)
LEMMA Counters ==
    ASSUME TypeOK, [Next]_vars
    PROVE  request' \subseteq Request /\ setup' \subseteq Setup /\ logins' \in Nat
<1>1. logins \in Nat /\ request \subseteq Request /\ setup \subseteq Setup
  BY DEF TypeOK
<1>2. logins' \in {logins, logins + 1}
  BY DEF Next, LoginStep, Look, Bootstrap, Admit, LookUp, Verify, Answer, Allow, Act,
     Leave, LockLapses, Forget, vars
<1>3. UNCHANGED request \/ \E q \in Request : request' \subseteq request \cup {q}
  BY DEF Next, LoginStep, Look, Bootstrap, Admit, LookUp, Verify, Answer, Allow, Act,
     Leave, LockLapses, Forget, vars
<1>4. UNCHANGED setup \/ \E b \in Setup : setup' \subseteq setup \cup {b}
  BY DEF Next, LoginStep, Look, Bootstrap, Admit, LookUp, Verify, Answer, Allow, Act,
     Leave, LockLapses, Forget, vars
<1> QED BY <1>1, <1>2, <1>3, <1>4

(* A login that is accepted keeps the row it has read.                     *)
LEMMA Accepting ==
    ASSUME TypeOK, NEW h \in Handler, login[h].at = "verifying",
           login'[h] = [login[h] EXCEPT !.at = "accepted"]
    PROVE  login'[h].id = login[h].id /\ login'[h].seen = login[h].seen
<1>1. login[h] \in Login
  BY DEF TypeOK
<1> QED BY <1>1 DEF Login

(* A live row keeps a version of at least 1.                               *)
LEMMA Versions ==
    ASSUME TypeOK, [Next]_vars, NEW i \in Id, Live(i)'
    PROVE  account'[i].version >= 1
<1>1. Evolves(i)
  BY RowsEvolve
<1>2. Live(i) => account[i].version \in Nat /\ account[i].version >= 1
  BY LiveRow DEF Account, TypeOK
<1> QED BY <1>1, <1>2, Marks DEF Evolves, Live

(* The type invariant is inductive.                                        *)
LEMMA TypeStep == TypeOK /\ [Next]_vars => TypeOK'
<1> SUFFICES ASSUME TypeOK, [Next]_vars PROVE TypeOK'
  OBVIOUS
<1>1. /\ account' \in [Id -> Row] /\ tokens' \in Nat /\ wrong' \in [Id -> Nat]
  BY RowsEvolve
<1>2. \A i \in Id : Live(i)' => account'[i].version >= 1
  BY Versions
<1>3. login' \in [Handler -> Login]
  BY LoginsMove
<1>4. ASSUME NEW h \in Handler, login'[h].at \in {"verifying", "accepted"}
      PROVE  login'[h].id \in Id /\ login'[h].seen \in Account
  <2>1. Moves(h)
    BY LoginsMove
  <2>2. CASE login'[h] = login[h]
    BY <1>4, <2>2 DEF TypeOK
  <2>3. ASSUME NEW i \in Id, Live(i), login'[h].id = i, login'[h].seen = account[i]
        PROVE  login'[h].id \in Id /\ login'[h].seen \in Account
    BY <2>3, LiveRow
  <2>4. CASE login[h].at = "verifying" /\ login'[h] = [login[h] EXCEPT !.at = "accepted"]
    <3>1. login'[h].id = login[h].id /\ login'[h].seen = login[h].seen
      BY <2>4, Accepting
    <3>2. login[h].id \in Id /\ login[h].seen \in Account
      BY <2>4 DEF TypeOK
    <3> QED BY <3>1, <3>2
  <2> QED BY <1>4, <2>1, <2>2, <2>3, <2>4 DEF Moves
<1>5. issued' \subseteq Session
  BY Issues, Made DEF TypeOK
<1>6. recent' \in [Name -> Nat] /\ request' \subseteq Request /\ setup' \subseteq Setup /\ logins' \in Nat
  BY Throttled, Counters
<1> QED BY <1>1, <1>2, <1>3, <1>4, <1>5, <1>6 DEF TypeOK, Live

(* Nothing exists at first.                                                *)
LEMMA TypeInit == Init => TypeOK
<1> SUFFICES ASSUME Init PROVE TypeOK
  OBVIOUS
<1>1. NoLogin \in Login /\ NoLogin.at = "idle"
  BY AccountsAssumption DEF NoLogin, Login, Row
<1>2. login \in [Handler -> Login] /\ \A h \in Handler : login[h].at = "idle"
  BY <1>1 DEF Init
<1>3. account \in [Id -> Row] /\ \A i \in Id : ~Live(i)
  BY DEF Init, Row, Live
<1> QED BY <1>2, <1>3 DEF Init, TypeOK

(* Types are right at every moment, for every set of accounts, names,      *)
(* permissions and login handlers: TypeOK.                                 *)
THEOREM TypeCorrect == Spec => []TypeOK
  BY TypeInit, TypeStep, PTL DEF Spec

-----------------------------------------------------------------------------
(* Whoever saw version v of an account with these facts has seen what the  *)
(* account is, if it still has that version.                               *)
Traces(i, v, of) ==
    /\ account[i] # Absent
    /\ Live(i) => /\ v <= account[i].version
                  /\ v = account[i].version => of = Facts(account[i])

(* Of every session, and of every login that has read a row.               *)
Followed ==
    /\ \A s \in issued : Traces(s.id, s.version, s.of)
    /\ \A h \in Handler : login[h].at \in {"verifying", "accepted"} =>
           Traces(login[h].id, login[h].seen.version, Facts(login[h].seen))

(* The evolution of a row keeps what was seen of it true.                  *)
LEMMA Keep ==
    ASSUME TypeOK, NEW i \in Id, NEW v \in Nat, NEW of, Evolves(i), Traces(i, v, of)
    PROVE  Traces(i, v, of)'
<1>1. CASE account'[i] = account[i]
  BY <1>1 DEF Traces, Live
<1>2. CASE Live(i) /\ account'[i] = Gone
  BY <1>2, Marks DEF Traces, Live
<1>3. CASE Live(i) /\ account'[i] \in Account
  <2>1. account[i].version \in Nat /\ v <= account[i].version
    BY <1>3, LiveRow DEF Account, Traces
  <2>2. CASE account'[i].version = account[i].version /\ Facts(account'[i]) = Facts(account[i])
    BY <1>3, <2>1, <2>2, Marks DEF Traces, Live
  <2>3. CASE account'[i].version = account[i].version + 1
    BY <1>3, <2>1, <2>3, Marks DEF Traces, Live
  <2>4. CASE account'[i] = account[i]
    BY <2>4, <1>1
  <2> QED BY <1>3, <2>2, <2>3, <2>4, Marks DEF Evolves, Live
<1> QED BY <1>1, <1>2, <1>3 DEF Evolves, Traces

(* What a login has read stays true while it checks the password, and the  *)
(* session it ends in inherits it.                                         *)
LEMMA FollowedStep == TypeOK /\ Followed /\ [Next]_vars => Followed'
<1> SUFFICES ASSUME TypeOK, Followed, [Next]_vars PROVE Followed'
  OBVIOUS
<1>1. \A i \in Id : Evolves(i)
  BY RowsEvolve
<1>2. ASSUME NEW h \in Handler, login[h].at \in {"verifying", "accepted"}
      PROVE  Traces(login[h].id, login[h].seen.version, Facts(login[h].seen))
             /\ \A i, v, of : i = login[h].id /\ v = login[h].seen.version
                                /\ of = Facts(login[h].seen) => Traces(i, v, of)'
  <2>1. login[h].id \in Id /\ login[h].seen.version \in Nat
    BY <1>2 DEF TypeOK, Account
  <2>2. Traces(login[h].id, login[h].seen.version, Facts(login[h].seen))
    BY <1>2 DEF Followed
  <2> QED BY <1>1, <2>1, <2>2, Keep
<1>3. ASSUME NEW s \in issued' PROVE Traces(s.id, s.version, s.of)'
  <2>1. CASE s \in issued
    <3>1. s.id \in Id /\ s.version \in Nat
      BY <2>1 DEF TypeOK, Session
    <3>2. Traces(s.id, s.version, s.of)
      BY <2>1 DEF Followed
    <3> QED BY <1>1, <3>1, <3>2, Keep
  <2>2. ASSUME NEW h \in Handler, login[h].at = "accepted", s = SessionOf(h)
        PROVE  Traces(s.id, s.version, s.of)'
    <3>1. s.id = login[h].id /\ s.version = login[h].seen.version /\ s.of = Facts(login[h].seen)
      BY <2>2 DEF SessionOf, Cookie
    <3> QED BY <1>2, <2>2, <3>1
  <2> QED BY <2>1, <2>2, Issues
<1>4. ASSUME NEW h \in Handler, login'[h].at \in {"verifying", "accepted"}
      PROVE  Traces(login[h].id, login[h].seen.version, Facts(login[h].seen))'
  <2>1. Moves(h)
    BY LoginsMove
  <2>2. CASE login'[h] = login[h]
    <3> DEFINE i == login[h].id
               v == login[h].seen.version
               of == Facts(login[h].seen)
    <3>1. Traces(i, v, of)'
      BY <1>2, <1>4, <2>2
    <3> QED BY <2>2, <3>1 DEF Traces
  <2>3. ASSUME NEW i \in Id, Live(i), UNCHANGED account,
               login'[h].id = i, login'[h].seen = account[i]
        PROVE  Traces(login[h].id, login[h].seen.version, Facts(login[h].seen))'
    <3>1. account[i].version \in Nat
      BY <2>3, LiveRow DEF Account
    <3> QED BY <2>3, <3>1 DEF Traces, Live, Facts
  <2>4. CASE login[h].at = "verifying" /\ login'[h] = [login[h] EXCEPT !.at = "accepted"]
    <3>1. login'[h].id = login[h].id /\ login'[h].seen = login[h].seen
      BY <2>4, Accepting
    <3>2. PICK i, v, of : i = login[h].id /\ v = login[h].seen.version /\ of = Facts(login[h].seen)
      OBVIOUS
    <3>3. Traces(i, v, of)'
      BY <1>2, <2>4, <3>2
    <3> QED BY <3>1, <3>2, <3>3 DEF Traces, Facts
  <2> QED BY <1>4, <2>1, <2>2, <2>3, <2>4 DEF Moves
<1> QED BY <1>3, <1>4 DEF Followed

(* A session that would be accepted rests on the password, the token and   *)
(* the permissions the account has now: SessionsAreCurrent, for any number *)
(* of logins and changes that overlap.                                     *)
THEOREM OldSessionsAreVoid == Spec => []SessionsAreCurrent
<1>1. Init => TypeOK /\ Followed
  <2>1. Init => Followed
    BY DEF Init, Followed, NoLogin
  <2> QED BY <2>1, TypeInit
<1>2. (TypeOK /\ Followed) /\ [Next]_vars => (TypeOK /\ Followed)'
  BY TypeStep, FollowedStep
<1>3. TypeOK /\ Followed => SessionsAreCurrent
  BY DEF Followed, Traces, SessionsAreCurrent, Accepted
<1> QED BY <1>1, <1>2, <1>3, PTL DEF Spec

-----------------------------------------------------------------------------
(* Names and counters.  What a step may do to a row besides: nothing, or   *)
(* change it without what follows; delete it; fill it with a name no other *)
(* row has; or count a login.                                              *)
Stays(i) ==
    /\ Live(i) /\ Live(i)'
    /\ account'[i].name = account[i].name /\ account'[i].super = account[i].super

Alters(i) ==
    \/ account'[i] = account[i] /\ wrong'[i] = wrong[i]
    \/ /\ Stays(i) /\ wrong'[i] = wrong[i]
       /\ account'[i].failed = account[i].failed
       /\ account'[i].locked = "no" <=> account[i].locked = "no"
    \/ account'[i] = Gone
    \/ /\ account[i] = Absent /\ Live(i)' /\ wrong'[i] = wrong[i]
       /\ account'[i].failed = 0 /\ account'[i].locked = "no"
       /\ account'[i].super <=> account'[i].name = "Mutsu"
       /\ \A j \in Id \ {i} : /\ account'[j] = account[j]
                              /\ Live(j) => account[j].name # account'[i].name
    \/ /\ Stays(i) /\ wrong'[i] = 0
       /\ account'[i].failed = 0 /\ account'[i].locked = "no"
    \/ /\ Stays(i) /\ wrong'[i] = wrong[i] + 1
       /\ account'[i].failed = account[i].failed + 1
       /\ account'[i].locked = IF account'[i].failed >= LockAt THEN "yes" ELSE "no"

(* An unused row is filled.                                                *)
LEMMA InsertAlters ==
    ASSUME TypeOK, NEW i \in Id, NEW n \in Name, NEW p \in Password,
           NEW m \in SUBSET Permission, NEW s \in BOOLEAN, s <=> n = "Mutsu",
           Free(i, n), Insert(i, n, p, m, s), UNCHANGED wrong
    PROVE  \A j \in Id : Alters(j)
<1> DEFINE r == NewRow(n, p, tokens', m, s)
<1>1. tokens' \in Nat
  BY DEF Insert, TypeOK
<1>2. r \in Account /\ r.name = n /\ r.super = s /\ r.failed = 0 /\ r.locked = "no"
  BY <1>1, Fresh DEF NewRow
<1>3. account' = [account EXCEPT ![i] = r] /\ account[i] = Absent
  BY DEF Insert, Free
<1>4. \A j \in Id : Live(j) => account[j].name # n
  BY DEF Free
<1> HIDE DEF r
<1>5. account'[i] = r /\ \A j \in Id \ {i} : account'[j] = account[j]
  BY <1>3 DEF TypeOK
<1>6. Live(i)'
  BY <1>2, <1>5, Marks DEF Live
<1>7. Alters(i)
  BY <1>2, <1>3, <1>4, <1>5, <1>6 DEF Alters
<1>8. \A j \in Id \ {i} : Alters(j)
  BY <1>5 DEF Alters
<1> QED BY <1>7, <1>8

(* A row is changed but for its name, its rank and its counters.           *)
LEMMA ChangeAlters ==
    ASSUME TypeOK, NEW i \in Id, Live(i), NEW r \in Account, UNCHANGED wrong,
           account' = [account EXCEPT ![i] = r],
           r.name = account[i].name, r.super = account[i].super,
           r.failed = account[i].failed, r.locked = "no" <=> account[i].locked = "no"
    PROVE  \A j \in Id : Alters(j)
<1>1. account'[i] = r /\ \A j \in Id \ {i} : account'[j] = account[j]
  BY DEF TypeOK
<1>2. Live(i)'
  BY <1>1, Marks DEF Live
<1> QED BY <1>1, <1>2 DEF Alters, Stays

(* As Replace does, which raises the version.                              *)
LEMMA ReplaceAlters ==
    ASSUME TypeOK, NEW i \in Id, Live(i), NEW r \in Account, UNCHANGED wrong, Replace(i, r),
           r.name = account[i].name, r.super = account[i].super,
           r.failed = account[i].failed, r.locked = account[i].locked
    PROVE  \A j \in Id : Alters(j)
<1> DEFINE s == [r EXCEPT !.version = @ + 1]
<1>1. /\ s \in Account /\ s.name = r.name /\ s.super = r.super
      /\ s.failed = r.failed /\ s.locked = r.locked
  BY DEF Account
<1>2. account' = [account EXCEPT ![i] = s]
  BY DEF Replace
<1> HIDE DEF s
<1> QED BY <1>1, <1>2, ChangeAlters

(* A management call.                                                      *)
LEMMA ActAlters ==
    ASSUME TypeOK, NEW q, Act(q)
    PROVE  \A j \in Id : Alters(j)
<1>0. UNCHANGED wrong
  BY DEF Act
<1>1. ASSUME NEW n \in Name, NEW p \in Password, NEW m \in SUBSET Permission, Create(n, p, m)
      PROVE  \A j \in Id : Alters(j)
  BY <1>0, <1>1, InsertAlters DEF Create
<1>2. ASSUME NEW i \in Id, NEW m \in SUBSET Permission, UpdatePermissions(i, m)
      PROVE  \A j \in Id : Alters(j)
  <2> DEFINE r == [account[i] EXCEPT !.permissions = m]
  <2>1. Live(i) /\ account[i] \in Account /\ Replace(i, r)
    BY <1>2, LiveRow DEF UpdatePermissions, Mutable
  <2>2. /\ r \in Account /\ r.name = account[i].name /\ r.super = account[i].super
        /\ r.failed = account[i].failed /\ r.locked = account[i].locked
    BY <2>1 DEF Account
  <2> HIDE DEF r
  <2> QED BY <1>0, <2>1, <2>2, ReplaceAlters
<1>3. ASSUME NEW i \in Id, RotateToken(i)
      PROVE  \A j \in Id : Alters(j)
  <2> DEFINE r == [account[i] EXCEPT !.token = tokens']
  <2>1. Live(i) /\ account[i] \in Account /\ Replace(i, r) /\ tokens' \in Nat
    BY <1>3, LiveRow DEF RotateToken, Mutable, TypeOK
  <2>2. /\ r \in Account /\ r.name = account[i].name /\ r.super = account[i].super
        /\ r.failed = account[i].failed /\ r.locked = account[i].locked
    BY <2>1 DEF Account
  <2> HIDE DEF r
  <2> QED BY <1>0, <2>1, <2>2, ReplaceAlters
<1>4. ASSUME NEW i \in Id, NEW p \in Password, UpdatePassword(i, p)
      PROVE  \A j \in Id : Alters(j)
  <2> DEFINE r == [account[i] EXCEPT !.password = p]
  <2>1. Live(i) /\ account[i] \in Account /\ Replace(i, r)
    BY <1>4, LiveRow DEF UpdatePassword, Mutable
  <2>2. /\ r \in Account /\ r.name = account[i].name /\ r.super = account[i].super
        /\ r.failed = account[i].failed /\ r.locked = account[i].locked
    BY <2>1 DEF Account
  <2> HIDE DEF r
  <2> QED BY <1>0, <2>1, <2>2, ReplaceAlters
<1>5. ASSUME NEW i \in Id, Delete(i)
      PROVE  \A j \in Id : Alters(j)
  BY <1>0, <1>5 DEF Delete, Alters, TypeOK
<1>6. CASE UNCHANGED <<account, tokens>>
  BY <1>0, <1>6 DEF Alters
<1> QED BY <1>1, <1>2, <1>3, <1>4, <1>5, <1>6 DEF Act

(* A login that is counted, in the row as it is then.                      *)
LEMMA CountAlters ==
    ASSUME TypeOK, NEW h \in Handler, Verify(h)
    PROVE  \A j \in Id : Alters(j)
<1>1. PICK i \in Id : i = login[h].id
  BY DEF Verify, TypeOK
<1> DEFINE r == IF Valid(h) THEN Cleared(account[i]) ELSE Failed(h, account[i])
<1>2. CASE UNCHANGED <<account, wrong>>
  BY <1>2 DEF Alters
<1>3. CASE Live(i) /\ CountLogin(h) /\ ~UNCHANGED <<account, wrong>>
  <2>1. account[i] \in Account
    BY <1>1, <1>3, LiveRow
  <2>2. /\ account' = [account EXCEPT ![i] = r]
        /\ wrong' = [wrong EXCEPT ![i] = IF Valid(h) THEN 0 ELSE wrong[i] + 1]
    BY <1>1, <1>3 DEF CountLogin
  <2>3. r \in Account
    BY <2>1, Counted
  <2>4. /\ Cleared(account[i]).name = account[i].name /\ Cleared(account[i]).super = account[i].super
        /\ Cleared(account[i]).failed = 0 /\ Cleared(account[i]).locked = "no"
    BY <2>1 DEF Account, Cleared
  <2>5. /\ Failed(h, account[i]).name = account[i].name
        /\ Failed(h, account[i]).super = account[i].super
        /\ Failed(h, account[i]).failed = account[i].failed + 1
        /\ Failed(h, account[i]).locked =
               IF account[i].failed + 1 >= LockAt THEN "yes" ELSE "no"
    BY <2>1 DEF Account, Failed
  <2>6. account'[i] = r /\ wrong'[i] = IF Valid(h) THEN 0 ELSE wrong[i] + 1
    BY <1>1, <2>2 DEF TypeOK
  <2>7. \A j \in Id \ {i} : account'[j] = account[j] /\ wrong'[j] = wrong[j]
    BY <1>1, <2>2 DEF TypeOK
  <2>8. Live(i)'
    BY <2>3, <2>6, Marks DEF Live
  <2>9. CASE Valid(h)
    <3>1. account'[i] = Cleared(account[i])
      BY <2>6, <2>9
    <3>2. Stays(i)
      BY <1>3, <2>4, <2>8, <3>1 DEF Stays
    <3> QED BY <2>4, <2>6, <2>7, <2>9, <3>1, <3>2 DEF Alters
  <2>10. CASE ~Valid(h)
    <3>1. account'[i] = Failed(h, account[i])
      BY <2>6, <2>10
    <3>2. Stays(i)
      BY <1>3, <2>5, <2>8, <3>1 DEF Stays
    <3> QED BY <2>5, <2>6, <2>7, <2>10, <3>1, <3>2 DEF Alters
  <2> QED BY <2>9, <2>10
<1> QED BY <1>1, <1>2, <1>3 DEF Verify, CountLogin

(* Every step of the system does one of these things to every row.         *)
LEMMA RowsAlter ==
    ASSUME TypeOK, [Next]_vars
    PROVE  \A j \in Id : Alters(j)
<1>0. CASE UNCHANGED <<account, wrong>>
  BY <1>0 DEF Alters
<1>1. ASSUME NEW b, Bootstrap(b)
      PROVE  \A j \in Id : Alters(j)
  <2>1. CASE UNCHANGED <<account, tokens>>
    BY <1>0, <1>1, <2>1 DEF Bootstrap
  <2>2. ASSUME NEW i \in Id, NEW p \in Password, Free(i, "Mutsu"), Insert(i, "Mutsu", p, {}, TRUE)
        PROVE  \A j \in Id : Alters(j)
    <3>1. "Mutsu" \in Name /\ {} \in SUBSET Permission /\ TRUE \in BOOLEAN /\ UNCHANGED wrong
      BY <1>1, AccountsAssumption DEF Bootstrap
    <3> QED BY <2>2, <3>1, InsertAlters
  <2> QED BY <1>1, <2>1, <2>2 DEF Bootstrap
<1>2. ASSUME NEW i \in Id, LockLapses(i)
      PROVE  \A j \in Id : Alters(j)
  <2> DEFINE r == [account[i] EXCEPT !.locked = "lapsed"]
  <2>1. Live(i) /\ account[i] \in Account /\ UNCHANGED wrong /\ account[i].locked = "yes"
    BY <1>2, LiveRow DEF LockLapses
  <2>2. account' = [account EXCEPT ![i] = r]
    BY <1>2 DEF LockLapses
  <2>3. /\ r \in Account /\ r.name = account[i].name /\ r.super = account[i].super
        /\ r.failed = account[i].failed /\ r.locked = "lapsed"
    BY <2>1 DEF Account
  <2> HIDE DEF r
  <2> QED BY <2>1, <2>2, <2>3, ChangeAlters
<1>3. ASSUME NEW q \in Request, Act(q)
      PROVE  \A j \in Id : Alters(j)
  BY <1>3, ActAlters
<1>4. ASSUME NEW h \in Handler, LoginStep(h)
      PROVE  \A j \in Id : Alters(j)
  <2>1. CASE Verify(h)
    BY <2>1, CountAlters
  <2>2. CASE ~Verify(h)
    BY <1>0, <1>4, <2>2 DEF LoginStep, Admit, LookUp, Answer
  <2> QED BY <2>1, <2>2
<1>5. ASSUME NEW b, Look(b)
      PROVE  \A j \in Id : Alters(j)
  BY <1>0, <1>5 DEF Look
<1>6. ASSUME NEW q, NEW s, Allow(q, s) \/ Leave(s) \/ Forget(s)
      PROVE  \A j \in Id : Alters(j)
  BY <1>0, <1>6 DEF Allow, Leave, Forget
<1>7. CASE UNCHANGED vars
  BY <1>0, <1>7 DEF vars
<1> QED BY <1>1, <1>2, <1>3, <1>4, <1>5, <1>6, <1>7 DEF Next

-----------------------------------------------------------------------------
(* An unused row has counted nothing; every other row counts right.        *)
CountsRight ==
    \A i \in Id :
        /\ account[i] = Absent => wrong[i] = 0
        /\ Live(i) => /\ account[i].failed = wrong[i]
                      /\ account[i].locked # "no" <=> wrong[i] >= LockAt

LEMMA CountsStep == TypeOK /\ CountsRight /\ [Next]_vars => CountsRight'
<1> SUFFICES ASSUME TypeOK, CountsRight, [Next]_vars, NEW i \in Id
             PROVE  /\ account'[i] = Absent => wrong'[i] = 0
                    /\ Live(i)' => /\ account'[i].failed = wrong'[i]
                                   /\ account'[i].locked # "no" <=> wrong'[i] >= LockAt
  BY DEF CountsRight
<1>1. Alters(i) /\ wrong[i] \in Nat /\ LockAt \in Nat \ {0}
  BY RowsAlter, AccountsAssumption DEF TypeOK
<1>2. /\ account[i] = Absent => wrong[i] = 0
      /\ Live(i) => /\ account[i].failed = wrong[i]
                    /\ account[i].locked # "no" <=> wrong[i] >= LockAt
  BY DEF CountsRight
<1>3. CASE account'[i] = account[i] /\ wrong'[i] = wrong[i]
  BY <1>2, <1>3 DEF Live
<1>4. CASE account'[i] = Gone
  BY <1>4, Marks DEF Live
<1>5. CASE account'[i] # account[i] /\ account'[i] # Gone
  BY <1>1, <1>2, <1>5 DEF Alters, Stays, Live
<1>6. CASE account'[i] = account[i] /\ account'[i] # Gone /\ wrong'[i] # wrong[i]
  BY <1>1, <1>2, <1>6 DEF Alters, Stays, Live
<1> QED BY <1>3, <1>4, <1>5, <1>6

(* However many wrong logins are checked at once, each is counted, and the *)
(* lock follows the count.                                                 *)
THEOREM LockIsExact == Spec => []LockFollowsFailures
<1>1. Init => CountsRight
  BY DEF Init, CountsRight, Live
<1>2. CountsRight => LockFollowsFailures
  BY DEF CountsRight, LockFollowsFailures
<1> QED BY <1>1, <1>2, CountsStep, TypeCorrect, PTL DEF Spec

-----------------------------------------------------------------------------
(* No two live rows have one name, and the super administrator's is Mutsu. *)
NamesDiffer ==
    /\ \A i, j \in Id : Live(i) /\ Live(j) /\ account[i].name = account[j].name => i = j
    /\ \A i \in Id : Live(i) => (account[i].super <=> account[i].name = "Mutsu")

LEMMA NamesStep == TypeOK /\ NamesDiffer /\ [Next]_vars => NamesDiffer'
<1> SUFFICES ASSUME TypeOK, NamesDiffer, [Next]_vars PROVE NamesDiffer'
  OBVIOUS
<1> DEFINE Filled(i) == /\ account[i] = Absent
                        /\ account'[i].super <=> account'[i].name = "Mutsu"
                        /\ \A j \in Id \ {i} : /\ account'[j] = account[j]
                                               /\ Live(j) => account[j].name # account'[i].name
           Same(i) == /\ Live(i) /\ account'[i].name = account[i].name
                      /\ account'[i].super = account[i].super
<1>1. ASSUME NEW i \in Id, Live(i)' PROVE Same(i) \/ Filled(i)
  <2>1. Alters(i) /\ account'[i] # Gone
    BY <1>1, RowsAlter DEF Live
  <2>2. CASE account'[i] = account[i]
    BY <1>1, <2>2 DEF Live
  <2> QED BY <2>1, <2>2 DEF Alters, Stays
<1>2. ASSUME NEW i \in Id, NEW j \in Id, Live(i)', Live(j)', account'[i].name = account'[j].name
      PROVE  i = j
  <2>1. CASE Same(i) /\ Same(j)
    BY <1>2, <2>1 DEF NamesDiffer
  <2>2. CASE Filled(i)
    BY <1>2, <2>2 DEF Live
  <2>3. CASE Filled(j)
    BY <1>2, <2>3 DEF Live
  <2> QED BY <1>1, <1>2, <2>1, <2>2, <2>3
<1>3. ASSUME NEW i \in Id, Live(i)' PROVE account'[i].super <=> account'[i].name = "Mutsu"
  BY <1>1, <1>3 DEF NamesDiffer
<1> QED BY <1>2, <1>3 DEF NamesDiffer

(* There is one super administrator at most, however many runs of the      *)
(* script saw none.                                                        *)
THEOREM OneSuperOnly == Spec => []OneSuper
<1>1. Init => NamesDiffer
  BY DEF Init, NamesDiffer, Live
<1>2. NamesDiffer => OneSuper
  <2> SUFFICES ASSUME NamesDiffer
               PROVE  Cardinality({i \in Id : Live(i) /\ account[i].super}) <= 1
    BY DEF NamesDiffer, OneSuper
  <2> DEFINE S == {i \in Id : Live(i) /\ account[i].super}
  <2>1. \A i, j \in S : i = j
    BY DEF NamesDiffer
  <2>2. S = {} \/ \E i \in S : S = {i}
    BY <2>1
  <2>3. Cardinality({}) = 0 /\ \A x : Cardinality({x}) = 1
    BY FS_EmptySet, FS_Singleton
  <2>4. Cardinality(S) = 0 \/ Cardinality(S) = 1
    BY <2>2, <2>3
  <2> QED BY <2>4
<1> QED BY <1>1, <1>2, NamesStep, TypeCorrect, PTL DEF Spec
-----------------------------------------------------------------------------
(* What a step does to the throttle of a user name: no more in flight and  *)
(* no more counted; one let in while the count allows it; or one in flight *)
(* answered, and counted at most once.                                     *)
Throttles(n) ==
    \/ recent'[n] <= recent[n] /\ InFlight(n)' \subseteq InFlight(n)
    \/ recent[n] < MaxRecent /\ recent'[n] <= recent[n]
    \/ \E h \in InFlight(n) : /\ InFlight(n)' \subseteq InFlight(n) \ {h}
                              /\ recent'[n] <= recent[n] + 1

(* A login that ends stays in flight, under its name, until it is answered. *)
LEMMA EndedFlies ==
    ASSUME TypeOK, NEW h \in Handler, NEW how, login[h].at # "idle", Ends(h, how)
    PROVE  \A n \in Name : InFlight(n)' \subseteq InFlight(n)
<1>1. login'[h].name = login[h].name
  BY DEF Ends, TypeOK, NoLogin
<1>2. \A k \in Handler \ {h} : login'[k] = login[k]
  BY DEF Ends, TypeOK
<1> QED BY <1>1, <1>2 DEF InFlight

LEMMA LoginThrottles ==
    ASSUME TypeOK, NEW h \in Handler, LoginStep(h)
    PROVE  \A n \in Name : Throttles(n)
<1>0. recent \in [Name -> Nat] /\ MaxRecent \in Nat
  BY AccountsAssumption DEF TypeOK
<1>1. ASSUME NEW m \in Name, NEW p, NEW t, Admit(h, m, p, t)
      PROVE  \A n \in Name : Throttles(n)
  <2> SUFFICES ASSUME NEW n \in Name PROVE Throttles(n)
    OBVIOUS
  <2>1. recent'[n] <= recent[n]
    BY <1>0, <1>1 DEF Admit
  <2>2. CASE n = m
    BY <1>0, <1>1, <2>1, <2>2 DEF Admit, TooMany, Throttles
  <2>3. CASE n # m
    <3>1. login'[h].name = m /\ \A k \in Handler \ {h} : login'[k] = login[k]
      BY <1>1 DEF Admit, NoLogin, TypeOK
    <3>2. InFlight(n)' \subseteq InFlight(n)
      BY <2>3, <3>1 DEF InFlight
    <3> QED BY <2>1, <3>2 DEF Throttles
  <2> QED BY <2>2, <2>3
<1>2. CASE LookUp(h)
  <2>1. UNCHANGED recent /\ login[h].at # "idle"
    BY <1>2 DEF LookUp
  <2>2. CASE \E how \in {"rejected", "failed"} : Ends(h, how)
    BY <1>0, <2>1, <2>2, EndedFlies DEF Throttles
  <2>3. CASE ~(Ends(h, "rejected") \/ Ends(h, "failed"))
    <3>1. PICK i \in Id : login' = [login EXCEPT ![h].at = "verifying", ![h].id = i,
                                                 ![h].seen = account[i]]
      BY <1>2, <2>3 DEF LookUp
    <3>2. login'[h].name = login[h].name /\ \A k \in Handler \ {h} : login'[k] = login[k]
      BY <3>1 DEF TypeOK, Login
    <3>3. \A n \in Name : InFlight(n)' \subseteq InFlight(n)
      BY <2>1, <3>2 DEF InFlight
    <3> QED BY <1>0, <2>1, <3>3 DEF Throttles
  <2> QED BY <2>2, <2>3
<1>3. CASE Verify(h)
  <2>1. UNCHANGED recent /\ login[h].at # "idle"
    BY <1>3 DEF Verify
  <2>2. ASSUME NEW how, Ends(h, how)
        PROVE  \A n \in Name : Throttles(n)
    BY <1>0, <2>1, <2>2, EndedFlies DEF Throttles
  <2>3. CASE login' = [login EXCEPT ![h].at = "accepted"]
    <3>1. login'[h].name = login[h].name /\ \A k \in Handler \ {h} : login'[k] = login[k]
      BY <2>3 DEF TypeOK, Login
    <3>2. \A n \in Name : InFlight(n)' \subseteq InFlight(n)
      BY <2>1, <3>1 DEF InFlight
    <3> QED BY <1>0, <2>1, <3>2 DEF Throttles
  <2> QED BY <1>3, <2>2, <2>3 DEF Verify
<1>4. CASE Answer(h)
  <2> SUFFICES ASSUME NEW n \in Name PROVE Throttles(n)
    OBVIOUS
  <2>0. login[h].at # "idle" /\ login[h].name \in Name
    BY <1>4 DEF Answer, TypeOK, Login
  <2>1. login'[h].at = "idle" /\ \A k \in Handler \ {h} : login'[k] = login[k]
    BY <1>4 DEF Answer, NoLogin, TypeOK
  <2>2. InFlight(n)' \subseteq InFlight(n) \ {h}
    BY <2>1 DEF InFlight
  <2>3. CASE n = login[h].name
    <3>1. h \in InFlight(n)
      BY <2>0, <2>3 DEF InFlight
    <3>2. recent'[n] \in {recent[n] + 1, 0, recent[n]}
      BY <1>0, <1>4, <2>3 DEF Answer
    <3>3. recent'[n] <= recent[n] + 1
      BY <1>0, <3>2
    <3> QED BY <2>2, <3>1, <3>3 DEF Throttles
  <2>4. CASE n # login[h].name
    <3>1. recent'[n] = recent[n]
      BY <1>0, <1>4, <2>4 DEF Answer
    <3> QED BY <1>0, <2>2, <3>1 DEF Throttles
  <2> QED BY <2>3, <2>4
<1> QED BY <1>1, <1>2, <1>3, <1>4 DEF LoginStep

LEMMA ThrottleStep ==
    ASSUME TypeOK, [Next]_vars
    PROVE  \A n \in Name : Throttles(n)
<1>0. recent \in [Name -> Nat]
  BY DEF TypeOK
<1>1. CASE UNCHANGED <<recent, login>>
  BY <1>0, <1>1 DEF Throttles, InFlight
<1>2. ASSUME NEW h \in Handler, LoginStep(h) PROVE \A n \in Name : Throttles(n)
  BY <1>2, LoginThrottles
<1>3. ASSUME NEW m \in Name, Forget(m) PROVE \A n \in Name : Throttles(n)
  BY <1>0, <1>3 DEF Forget, Throttles, InFlight
<1>4. CASE UNCHANGED vars
  BY <1>1, <1>4 DEF vars
<1> QED BY <1>1, <1>2, <1>3, <1>4
        DEF Next, Look, Bootstrap, Allow, Act, Leave, LockLapses

LEMMA GuessesStep == TypeOK /\ BoundedGuesses /\ [Next]_vars => BoundedGuesses'
<1> SUFFICES ASSUME TypeOK, BoundedGuesses, [Next]_vars, NEW n \in Name
             PROVE  recent'[n] + Cardinality(InFlight(n)')
                        <= MaxRecent - 1 + Cardinality(Handler)
  BY DEF BoundedGuesses
<1> DEFINE F == InFlight(n)
           G == InFlight(n)'
<1>0. /\ recent[n] \in Nat /\ recent'[n] \in Nat /\ MaxRecent \in Nat \ {0}
      /\ IsFiniteSet(Handler)
      /\ recent[n] + Cardinality(F) <= MaxRecent - 1 + Cardinality(Handler)
  BY Throttled, AccountsAssumption DEF TypeOK, BoundedGuesses
<1>1. F \in SUBSET Handler /\ G \in SUBSET Handler /\ Throttles(n)
  BY ThrottleStep DEF InFlight
<1> HIDE DEF F, G
<1>2. /\ IsFiniteSet(F) /\ IsFiniteSet(G) /\ Cardinality(G) <= Cardinality(Handler)
      /\ Cardinality(F) \in Nat /\ Cardinality(G) \in Nat /\ Cardinality(Handler) \in Nat
  BY <1>0, <1>1, FS_Subset, FS_CardinalityType
<1>3. CASE recent'[n] <= recent[n] /\ G \subseteq F
  <2>1. Cardinality(G) <= Cardinality(F)
    BY <1>2, <1>3, FS_Subset
  <2> QED BY <1>0, <1>2, <1>3, <2>1 DEF G
<1>4. CASE recent[n] < MaxRecent /\ recent'[n] <= recent[n]
  BY <1>0, <1>2, <1>4 DEF G
<1>5. ASSUME NEW h \in F, G \subseteq F \ {h}, recent'[n] <= recent[n] + 1
      PROVE  recent'[n] + Cardinality(G) <= MaxRecent - 1 + Cardinality(Handler)
  <2>1. IsFiniteSet(F \ {h}) /\ Cardinality(F \ {h}) = Cardinality(F) - 1
    BY <1>2, FS_RemoveElement
  <2>2. Cardinality(G) <= Cardinality(F \ {h})
    BY <1>5, <2>1, FS_Subset
  <2> QED BY <1>0, <1>2, <1>5, <2>1, <2>2
<1> QED BY <1>1, <1>3, <1>4, <1>5 DEF Throttles, F, G

(* The throttle lets through no more than its limit and those that were    *)
(* being served when it was reached.                                       *)
THEOREM GuessesAreBounded == Spec => []BoundedGuesses
<1>1. Init => BoundedGuesses
  <2> SUFFICES ASSUME Init, NEW n \in Name
               PROVE  recent[n] + Cardinality(InFlight(n)) <= MaxRecent - 1 + Cardinality(Handler)
    BY DEF BoundedGuesses
  <2>1. InFlight(n) = {} /\ recent[n] = 0
    BY DEF Init, InFlight, NoLogin
  <2>2. Cardinality(InFlight(n)) = 0 /\ Cardinality(Handler) \in Nat /\ MaxRecent \in Nat \ {0}
    BY <2>1, FS_EmptySet, FS_CardinalityType, AccountsAssumption
  <2> QED BY <2>1, <2>2
<1> QED BY <1>1, GuessesStep, TypeCorrect, PTL DEF Spec
=============================================================================
