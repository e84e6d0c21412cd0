------------------------------- MODULE Grants -------------------------------
(***************************************************************************)
(* What concurrent callers of the interface McpRegistryLookup              *)
(* (src/distributed_a2a/registry_server/storage.py) get from its stores.   *)
(* A call that grants, revokes or registers may look at a server's agents  *)
(* and later write what it makes of those it saw: what other calls did in  *)
(* between is then lost, and nothing else ever is.  A call that is         *)
(* confirmed has taken effect at one moment between its start and its end; *)
(* one that fails may have.  An answer tells, of each server, what held at *)
(* some moment of the lookup.                                              *)
(***************************************************************************)

CONSTANTS
    Server,  \* names of servers
    Agent,   \* agents that may be granted access to them
    Worker,  \* callers
    None     \* no server, no agent

VARIABLES
    known,   \* servers that have been registered
    granted, \* server -> agents with access to it
    call,    \* worker -> the call it makes, or Idle
    seen,    \* worker -> {the agents its write has seen}, or {}
    done,    \* worker -> whether its call is to return without an error
    read,    \* worker -> servers its lookup has looked at
    answer   \* worker -> servers its lookup has found

vars == <<known, granted, call, seen, done, read, answer>>

Write ==
    [op: {"put"}, server: Server, agent: {None}] \cup
    [op: {"enable", "disable"}, server: Server, agent: Agent]

Lookup == [op: {"lookup"}, server: {None}, agent: Agent]

Idle == [op |-> "none", server |-> None, agent |-> None]

Init ==
    /\ known \in SUBSET Server
    /\ granted = [s \in Server |-> {}]
    /\ call = [w \in Worker |-> Idle]
    /\ seen = [w \in Worker |-> {}]
    /\ done = [w \in Worker |-> FALSE]
    /\ read = [w \in Worker |-> {}]
    /\ answer = [w \in Worker |-> {}]

Begin(w) ==
    /\ call[w] = Idle
    /\ \E r \in Write \cup Lookup : call' = [call EXCEPT ![w] = r]
    /\ UNCHANGED <<known, granted, seen, done, read, answer>>

Pending(w) == call[w] \in Write /\ ~ done[w]

\* A write looks at the server's agents
See(w) ==
    /\ Pending(w)
    /\ seen' = [seen EXCEPT ![w] = {granted[call[w].server]}]
    /\ UNCHANGED <<known, granted, call, done, read, answer>>

\* put_mcp_server: the definition may be there before the rest is done
Register(w) ==
    /\ Pending(w) /\ call[w].op = "put"
    /\ known' = known \cup {call[w].server}
    /\ UNCHANGED <<granted, call, seen, done, read, answer>>

Become(w, agents) == granted' = [granted EXCEPT ![call[w].server] = agents]

\* What was seen is written as it was, before the call's own change
Restore(w) ==
    /\ Pending(w)
    /\ \E agents \in seen[w] : Become(w, agents)
    /\ seen' = [seen EXCEPT ![w] = {}]
    /\ UNCHANGED <<known, call, done, read, answer>>

\* What a write starts from: what it has seen, or what there is
Base(w) == IF seen[w] = {} THEN {granted[call[w].server]} ELSE seen[w]

\* enable_mcp_server_for_agent
Enable(w) ==
    /\ call[w].op = "enable"
    /\ \E agents \in Base(w) : Become(w, agents \cup {call[w].agent})
    /\ UNCHANGED known

\* disable_mcp_server_for_agent
Disable(w) ==
    /\ call[w].op = "disable"
    /\ \E agents \in Base(w) : Become(w, agents \ {call[w].agent})
    /\ UNCHANGED known

\* put_mcp_server: it is a matter of the store whether the agents of a
\* server that is there already keep their access
Put(w) ==
    /\ call[w].op = "put"
    /\ \E agents \in Base(w) \cup {{}} : Become(w, agents)
    /\ known' = known \cup {call[w].server}

Change(w) == Enable(w) \/ Disable(w) \/ Put(w)

\* A write that has taken effect will be confirmed
Effect(w) ==
    /\ Pending(w)
    /\ Change(w)
    /\ seen' = [seen EXCEPT ![w] = {}]
    /\ done' = [done EXCEPT ![w] = TRUE]
    /\ UNCHANGED <<call, read, answer>>

\* get_mcp_server_for_agent looks at some of the servers
Look(w, servers) ==
    /\ call[w] \in Lookup /\ ~ done[w]
    /\ servers \cap read[w] = {}
    /\ read' = [read EXCEPT ![w] = @ \cup servers]
    /\ answer' = [answer EXCEPT ![w] = @ \cup
            {s \in servers \cap known : call[w].agent \in granted[s]}]
    /\ UNCHANGED <<known, granted, call, seen, done>>

\* A lookup that has looked at every server will be answered
Complete(w) ==
    /\ call[w] \in Lookup
    /\ read[w] = Server
    /\ done' = [done EXCEPT ![w] = TRUE]
    /\ UNCHANGED <<known, granted, call, seen, read, answer>>

Leave(w) ==
    /\ call' = [call EXCEPT ![w] = Idle]
    /\ seen' = [seen EXCEPT ![w] = {}]
    /\ done' = [done EXCEPT ![w] = FALSE]
    /\ read' = [read EXCEPT ![w] = {}]
    /\ answer' = [answer EXCEPT ![w] = {}]

\* The call returns
End(w) ==
    /\ done[w]
    /\ Leave(w)
    /\ UNCHANGED <<known, granted>>

\* The call raises instead; a write may have taken effect
Fail(w) ==
    /\ call[w] # Idle
    /\ ~ done[w]
    /\ UNCHANGED <<known, granted>> \/ (Pending(w) /\ Change(w))
    /\ Leave(w)

Next ==
    \E w \in Worker :
        \/ Begin(w) \/ See(w) \/ Register(w) \/ Restore(w) \/ Effect(w)
        \/ Complete(w) \/ End(w) \/ Fail(w)
        \/ \E servers \in SUBSET Server : Look(w, servers)

Spec == Init /\ [][Next]_vars
=============================================================================
