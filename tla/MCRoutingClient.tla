-------------------------- MODULE MCRoutingClient --------------------------
(* A router, two incarnations of one agent (same name, different urls),    *)
(* and a card that no connection can be made to.                           *)
EXTENDS RoutingClient, TLC

CONSTANTS router, a1, a2, dead

MCCard == {router, a1, a2, dead}
MCName == (router :> "router") @@ (a1 :> "a") @@ (a2 :> "a")
            @@ (dead :> "dead")
MCUrl == (router :> "u0") @@ (a1 :> "u1") @@ (a2 :> "u2")
            @@ (dead :> "u3")
=============================================================================
