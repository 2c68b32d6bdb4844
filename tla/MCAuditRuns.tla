---------------------------- MODULE MCAuditRuns ----------------------------
(* Instances of AuditRuns: calls of distinct runs, and a repeated call of  *)
(* one run.                                                                *)
EXTENDS AuditRuns, TLC

CONSTANTS c1, c2, c3, r1, r2, r3

Distinct == c1 :> r1 @@ c2 :> r2 @@ c3 :> r3
DistinctTwo == c1 :> r1 @@ c2 :> r2
Repeated == c1 :> r1 @@ c2 :> r1

(* Calls are alike, each with its run.                                     *)
Alike ==
    {p \in Permutations(Call \cup RunId) : \A c \in Call : p[c] \in Call /\ p[RunOf[c]] = RunOf[p[c]]}
=============================================================================
