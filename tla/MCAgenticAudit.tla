--------------------------- MODULE MCAgenticAudit ---------------------------
(***************************************************************************)
(* Instances of AgenticAudit for TLC.  Two transactions compete for        *)
(* receipt r1, and t2 has an alternative, r2, which is also a member of    *)
(* the reimbursement group g of t3.                                        *)
(***************************************************************************)
EXTENDS AgenticAudit, TLC

MCTransaction == {"t1", "t2", "t3"}
MCReceipt     == {"r1", "r2", "r3"}
MCGroup       == {"g"}
MCSource      == {"c1", "c2", "c3", "g1", "g2"}

MCTxOf == [c \in Source |->
    CASE c = "c1" -> "t1" [] c \in {"c2", "c3"} -> "t2" [] OTHER -> "t3"]

MCReceiptsOf == [c \in Source |->
    CASE c \in {"c1", "c2"} -> {"r1"} [] c \in {"c3", "g1"} -> {"r2"} [] OTHER -> {"r3"}]

MCGroupOf == [c \in Source |-> IF c \in {"g1", "g2"} THEN "g" ELSE "none"]

MCRank == [t \in Transaction |-> CASE t = "t1" -> 1 [] t = "t2" -> 2 [] OTHER -> 3]

Cmd(id, scope, deps) == [id |-> id, op |-> "search_amount", scope |-> scope, deps |-> deps]

(* The first command leaves a candidate of t2 out, the second slices the   *)
(* group, the third waits for the first.                                   *)
MCCommands ==
    {Cmd("k1", {"c1", "c2"}, {}),
     Cmd("k1", {"c1", "g2"}, {}),
     Cmd("k2", {"g1", "g2"}, {"k1"})}

Rel(tx, ids, group) == [tx |-> tx, ids |-> ids, group |-> group]

Claim(rel, solid) == [rel |-> rel, solid |-> solid]

WholeGroup == Rel("t3", {"r2", "r3"}, "g")
HalfGroup  == Rel("t3", {"r3"}, "g")

MCClaims ==
    {Claim(Rel("t1", {"r1"}, "none"), TRUE),
     Claim(Rel("t2", {"r2"}, "none"), TRUE), Claim(WholeGroup, TRUE),
     Claim(WholeGroup, FALSE), Claim(HalfGroup, TRUE)}

Verdict(rec, tx, ids) == [rec |-> rec, tx |-> tx, ids |-> ids, sure |-> TRUE]

MCVerdicts ==
    {Verdict("match", "t1", {"r1"}), Verdict("match", "t2", {"r2"}), Verdict("suggest", "t2", {"r2"}),
     Verdict("match", "t3", {"r2", "r3"}), Verdict("match", "t3", {"r3"}),
     Verdict("leave_unmatched", "t1", {}),
     [Verdict("match", "t3", {"r2", "r3"}) EXCEPT !.sure = FALSE]}

(* Without the group and with one command, for the runs that ask about     *)
(* liveness and about one chunk of two transactions.                       *)
PairSource   == {"c1", "c2", "c3"}
PairCommands == {Cmd("k1", PairSource, {})}
PairClaims   == {Claim(Rel("t1", {"r1"}, "none"), TRUE), Claim(Rel("t2", {"r2"}, "none"), TRUE)}
PairVerdicts == {Verdict("match", "t1", {"r1"}), Verdict("match", "t2", {"r2"})}

(* An earlier round completed the approval of both jobs of k1.             *)
PairApproved == {[task |-> "k1", txs |-> {t}] : t \in {"t1", "t2"}}

(* The first command has no candidate left; the second waits for it.       *)
EmptyCommands == {Cmd("k1", {}, {}), Cmd("k2", PairSource, {"k1"})}
=============================================================================
