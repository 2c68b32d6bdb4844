-------------------------- MODULE MCConversations --------------------------
(* Two messages of one administrator to Mutsu, two chats in one general    *)
(* conversation, and one that names the Mutsu conversation as general.     *)
EXTENDS Conversations, TLC

CONSTANTS m1, m2, g1, g2, g3, general, owner

MCTargetOf == [r \in Request |-> IF r \in {g1, g2} THEN general ELSE owner]
=============================================================================
