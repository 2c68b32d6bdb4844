---------------------------- MODULE AuditLedger ----------------------------
(***************************************************************************)
(* What a round of the agentic audit promises, whatever its plan, chunks,  *)
(* threads and failures: a ledger of decisions that only grows, stays      *)
(* consistent and is sealed once.                                          *)
(***************************************************************************)
EXTENDS AuditRelations

VARIABLES ledger, open

(* Decisions that may stand side by side: every transaction and receipt is *)
(* used once, nothing confirmed earlier is used, and the receipts a        *)
(* decision names are a whole relation of the kernel.                      *)
Consistent(L) ==
    /\ L \subseteq Decision
    /\ \A d, e \in L : d # e => d.tx # e.tx /\ d.ids \cap e.ids = {}
    /\ \A d \in L : /\ d.tx \notin ConfirmedTx
                    /\ d.ids \cap ConfirmedReceipt = {}
                    /\ d.ids # {} => \E r \in KernelRelations(Kernel) : r.tx = d.tx /\ r.ids = d.ids

Init == ledger = {} /\ open = TRUE

Record ==
    /\ open
    /\ ledger \subseteq ledger'
    /\ Consistent(ledger')
    /\ UNCHANGED open

Seal == open /\ open' = FALSE /\ UNCHANGED ledger

Next == Record \/ Seal

Spec == Init /\ [][Next]_<<ledger, open>>
=============================================================================
