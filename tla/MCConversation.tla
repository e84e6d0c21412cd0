--------------------------- MODULE MCConversation ---------------------------
(* A router and two agents, and two calls at once.                         *)
EXTENDS Conversation, TLC

CONSTANTS router, a1, a2

MCCard == {router, a1, a2}
MCName == (router :> "router") @@ (a1 :> "a") @@ (a2 :> "b")
MCUrl == (router :> "u0") @@ (a1 :> "u1") @@ (a2 :> "u2")
=============================================================================
