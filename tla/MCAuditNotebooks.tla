------------------------- MODULE MCAuditNotebooks --------------------------
(* Two sources, of which one has details too big for a notebook once it    *)
(* has changed; a notebook of four units; a list of two tasks out of      *)
(* three.                                                                  *)
EXTENDS AuditNotebooks, TLC

CONSTANTS d1, d2, t1, t2, t3

MCOrder == <<d1, d2>>
MCWeight == [k \in Kind |-> IF k = "details" THEN 2 ELSE 1]
MCHuge == {<<d2, 2>>}
MCSymmetry == Permutations(TaskId)
=============================================================================
