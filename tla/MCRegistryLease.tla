-------------------------- MODULE MCRegistryLease --------------------------
(* Two processes serve one agent, as in a rolling deployment; the clock of *)
(* the second is ahead of the registry's.                                  *)
EXTENDS RegistryLease, TLC

CONSTANTS old, new

MCName == (old :> "agent") @@ (new :> "agent")
MCSkew == (old :> 0) @@ (new :> 1)

\* Late requests are tried on DynamoDB, to keep the state space small
MCStrays == ("memory" :> 0) @@ ("dynamodb" :> 1)
MCNoStrays == [d \in {"memory", "dynamodb"} |-> 0]

\* A single process on the registry's clock
MCOneName == old :> "agent"
MCNoSkew == old :> 0
=============================================================================
