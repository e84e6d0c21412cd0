-------------------------- MODULE MCAgentExecutor --------------------------
(* Three turns, of one conversation or of two.                             *)
EXTENDS AgentExecutor, TLC

CONSTANTS t1, t2, t3, chat, other

MCTurn == {t1, t2, t3}
MCOf == (t1 :> chat) @@ (t2 :> chat) @@ (t3 :> other)

\* All turns of one conversation
MCOneChat == [t \in MCTurn |-> chat]
=============================================================================
