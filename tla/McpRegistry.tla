---------------------------- MODULE McpRegistry ----------------------------
(***************************************************************************)
(* The MCP registry: which agents may use which MCP servers.  Its          *)
(* endpoints (src/distributed_a2a/registry_server/bootstrap.py) are plain  *)
(* functions, which FastAPI runs in a pool of threads, over one of two     *)
(* stores: dictionaries (in_memory_registry_storage.py) or a table in      *)
(* DynamoDB (dynamo_db.py).  One step is one access to what the threads    *)
(* share: an operation on a dict or set, or a request to DynamoDB.         *)
(*                                                                         *)
(* What a definition says is not modelled, only that a server has one.     *)
(***************************************************************************)
EXTENDS FiniteSets

CONSTANTS
    Server,      \* names of MCP servers
    Registered,  \* those whose PUT was over before anything here began
    Agent,       \* names of agents
    Worker,      \* threads (of one registry process, or of several)
    None,        \* no server, no agent
    Drivers      \* the stores the registry may be started with

ASSUME ServerAssumption == Registered \subseteq Server /\ None \notin Server

ASSUME DriverAssumption == Drivers \subseteq {"memory", "dynamodb"}

VARIABLES
    driver,   \* the store the registry was started with
    defined,  \* servers with a definition
    keys,     \* servers _allowed_agents has a set for (in-memory store)
    allowed,  \* server -> its set of allowed agents
    call,     \* worker -> the request it serves
    at,       \* worker -> where in the request it is
    item,     \* worker -> allowed agents of the item it has read (DynamoDB)
    span,     \* worker -> keys its iteration began with
    todo,     \* worker -> keys its iteration has yet to visit
    answer,   \* worker -> servers its lookup has found so far
    \* History, read by the properties only:
    met,      \* worker -> what could undo its change while it was under way
    enabled,  \* grants confirmed undisturbed, with nothing called since
              \* that takes them away
    revoked,  \* revocations confirmed, with no grant called since
    disabled, \* those of them that were undisturbed
    ever,     \* worker -> servers granted at some moment of its lookup
    always    \* worker -> servers granted throughout its lookup

stored == <<defined, keys, allowed>>
frame == <<item, span, todo, answer>>
told == <<enabled, revoked, disabled>>
vars == <<driver, stored, call, at, frame, met, told, ever, always>>

-----------------------------------------------------------------------------
Put == [op: {"put"}, server: Server, agent: {None}]
Change == [op: {"enable", "disable"}, server: Server, agent: Agent]
Lookup == [op: {"lookup"}, server: {None}, agent: Agent]
Idle == [op |-> "none", server |-> None, agent |-> None]
Request == Put \cup Change \cup Lookup

Memory == driver = "memory"
Grant == Server \X Agent

\* Servers listed for agent a when the store holds def and all
ServersFor(a, def, all) == {s \in def : a \in all[s]}

\* Request r asks for the contrary of what q, on the same server, does
Contrary(r, q) ==
    \/ r.agent = q.agent /\ {r.op, q.op} = {"enable", "disable"}
    \/ ~ Memory /\ r.op = "put" /\ q.op = "enable"

\* Request r, at place, is about to write what does not follow from the
\* store but from an earlier look at it, and q's change may be missing there
Stale(place, q) ==
    \/ place = "item"
    \/ place = "create" /\ q.op = "enable"

Serves(w, op, place) == call[w].op = op /\ at[w] = place

Go(w, place) == at' = [at EXCEPT ![w] = place]

-----------------------------------------------------------------------------
Init ==
    /\ driver \in Drivers
    /\ defined = Registered
    /\ keys = Registered
    /\ allowed = [s \in Server |-> {}]
    /\ call = [w \in Worker |-> Idle]
    /\ at = [w \in Worker |-> "idle"]
    /\ item = [w \in Worker |-> {}]
    /\ span = [w \in Worker |-> {}]
    /\ todo = [w \in Worker |-> {}]
    /\ answer = [w \in Worker |-> {}]
    /\ met = [w \in Worker |-> {}]
    /\ enabled = {}
    /\ revoked = {}
    /\ disabled = {}
    /\ ever = [w \in Worker |-> {}]
    /\ always = [w \in Worker |-> {}]

\* A call puts an end to what callers were told before
Doubt(r) ==
    LET g == <<r.server, r.agent>>
    IN \/ /\ r.op = "enable"
          /\ revoked' = revoked \ {g}
          /\ disabled' = disabled \ {g}
          /\ UNCHANGED enabled
       \/ /\ r.op = "disable"
          /\ enabled' = enabled \ {g}
          /\ UNCHANGED <<revoked, disabled>>
       \/ /\ r.op = "put"
          /\ enabled' = {h \in enabled : Memory \/ h[1] # r.server}
          /\ UNCHANGED <<revoked, disabled>>
       \/ r.op = "lookup" /\ UNCHANGED told

\* A request arrives at a thread
Arrive(w, r) ==
    /\ at[w] = "idle"
    /\ call' = [call EXCEPT ![w] = r]
    /\ Go(w, "called")
    /\ Doubt(r)
    /\ UNCHANGED <<driver, stored, frame>>

\* The response is sent
Leave(w) ==
    /\ call' = [call EXCEPT ![w] = Idle]
    /\ Go(w, "idle")
    /\ item' = [item EXCEPT ![w] = {}]
    /\ span' = [span EXCEPT ![w] = {}]
    /\ todo' = [todo EXCEPT ![w] = {}]
    /\ answer' = [answer EXCEPT ![w] = {}]
    /\ UNCHANGED driver

\* The request fails, and nothing is confirmed
Fail(w) == Leave(w) /\ UNCHANGED <<stored, told>>

(* The in-memory store                                                     *)

\* put_mcp_server: self._servers[server.name] = server
Define(w) ==
    /\ Memory
    /\ Serves(w, "put", "called")
    /\ defined' = defined \cup {call[w].server}
    /\ Go(w, "defined")
    /\ UNCHANGED <<driver, keys, allowed, call, frame, told>>

\* Mutant of TestSet: a set is made without looking for one
SkipTest(w) ==
    /\ Memory
    /\ Serves(w, "put", "defined") \/ Serves(w, "enable", "called")
    /\ Go(w, "create")
    /\ UNCHANGED <<driver, stored, call, frame, told>>

\* put and enable look whether the server has its set of agents ...
TestSet(w) ==
    /\ Memory
    /\ \/ /\ Serves(w, "put", "defined")
          /\ Go(w, IF call[w].server \in keys THEN "served" ELSE "create")
       \/ /\ Serves(w, "enable", "called")
          /\ Go(w, IF call[w].server \in keys THEN "add" ELSE "create")
    /\ UNCHANGED <<driver, stored, call, frame, told>>

\* ... and give it an empty one, in place of what another thread has made
\* in between
CreateSet(w) ==
    /\ at[w] = "create"
    /\ keys' = keys \cup {call[w].server}
    /\ allowed' = [allowed EXCEPT ![call[w].server] = {}]
    /\ Go(w, IF call[w].op = "put" THEN "served" ELSE "add")
    /\ UNCHANGED <<driver, defined, call, frame, told>>

\* Mutant of Add: the server's name for the agent's
AddServer(w) ==
    /\ at[w] = "add"
    /\ allowed' = [allowed EXCEPT ![call[w].server] = @ \cup {call[w].server}]
    /\ Go(w, "served")
    /\ UNCHANGED <<driver, defined, keys, call, frame, told>>

\* self._allowed_agents[server_name].add(agent_name)
Add(w) ==
    /\ at[w] = "add"
    /\ allowed' = [allowed EXCEPT ![call[w].server] = @ \cup {call[w].agent}]
    /\ Go(w, "served")
    /\ UNCHANGED <<driver, defined, keys, call, frame, told>>

\* Mutant of Discard: the set is emptied
DiscardAll(w) ==
    /\ Memory
    /\ Serves(w, "disable", "called")
    /\ allowed' = [allowed EXCEPT ![call[w].server] = {}]
    /\ Go(w, "served")
    /\ UNCHANGED <<driver, defined, keys, call, frame, told>>

\* disable_mcp_server_for_agent: a set that is not there has no agent
Discard(w) ==
    /\ Memory
    /\ Serves(w, "disable", "called")
    /\ allowed' = [allowed EXCEPT ![call[w].server] = @ \ {call[w].agent}]
    /\ Go(w, "served")
    /\ UNCHANGED <<driver, defined, keys, call, frame, told>>

(* DynamoDB                                                                *)

\* A request to DynamoDB raises: PUT and lookups answer 500, enable and
\* disable 404
Raise(w) ==
    /\ ~ Memory
    /\ at[w] \in {"called", "item", "scan"}
    /\ Fail(w)

\* The item has been put; if the answer to that is lost, the call fails too
Answered(w) ==
    \/ /\ item' = [item EXCEPT ![w] = {}]
       /\ Go(w, "served")
       /\ UNCHANGED <<driver, call, span, todo, answer, told>>
    \/ Leave(w) /\ UNCHANGED told

\* put_mcp_server, as the endpoint calls it: the item is replaced by one
\* without allowed agents
PutItem(w) ==
    /\ ~ Memory
    /\ Serves(w, "put", "called")
    /\ defined' = defined \cup {call[w].server}
    /\ allowed' = [allowed EXCEPT ![call[w].server] = {}]
    /\ Answered(w)
    /\ UNCHANGED keys

\* enable and disable read the item, and raise if there is none (404)
GetItem(w) ==
    /\ ~ Memory
    /\ call[w].op \in {"enable", "disable"} /\ at[w] = "called"
    /\ LET agents == allowed[call[w].server]
           change == (call[w].op = "enable") # (call[w].agent \in agents)
       IN \/ call[w].server \notin defined /\ Fail(w)
          \/ /\ call[w].server \in defined
             /\ item' = [item EXCEPT ![w] = IF change THEN agents ELSE {}]
             /\ Go(w, IF change THEN "item" ELSE "served")
             /\ UNCHANGED <<driver, stored, call, span, todo, answer, told>>

\* Mutant of Changed: the agent is not taken out
NotTakenOut(w) == item[w] \cup {a \in {call[w].agent} : call[w].op = "enable"}

\* ... change what they have read ...
Changed(w) == IF call[w].op = "enable" THEN item[w] \cup {call[w].agent}
              ELSE item[w] \ {call[w].agent}

\* ... and put the whole item back
PutBack(w) ==
    /\ at[w] = "item"
    /\ defined' = defined \cup {call[w].server}
    /\ allowed' = [allowed EXCEPT ![call[w].server] = Changed(w)]
    /\ Answered(w)
    /\ UNCHANGED keys

(* get_mcp_server_for_agent, in both                                       *)

\* The iteration over the dict, or the scan of the table, begins
StartScan(w) ==
    /\ Serves(w, "lookup", "called")
    /\ span' = [span EXCEPT ![w] = IF Memory THEN keys ELSE Server]
    /\ todo' = [todo EXCEPT ![w] = IF Memory THEN keys ELSE Server]
    /\ Go(w, "scan")
    /\ UNCHANGED <<driver, stored, call, item, answer, told>>

\* A dict that has grown since makes its iterator raise
Grown(w) == Memory /\ keys # span[w]

\* Mutant of Visit: servers are listed whoever is allowed to use them
VisitAny(w, s) ==
    /\ at[w] = "scan" /\ s \in todo[w]
    /\ ~ Grown(w)
    /\ todo' = [todo EXCEPT ![w] = @ \ {s}]
    /\ answer' = [answer EXCEPT ![w] = @ \cup ({s} \cap defined)]
    /\ UNCHANGED <<driver, stored, call, at, item, span, told>>

\* The next server is looked at; in a table it may be one that is not there.
\* Of a dict's entry the set is read and then the definition: one step, as
\* CPython does not change threads between these two lines.
Visit(w, s) ==
    /\ at[w] = "scan" /\ s \in todo[w]
    /\ ~ Grown(w)
    /\ todo' = [todo EXCEPT ![w] = @ \ {s}]
    /\ answer' = [answer EXCEPT ![w] = @ \cup
            ({s} \cap ServersFor(call[w].agent, defined, allowed))]
    /\ UNCHANGED <<driver, stored, call, at, item, span, told>>

\* The iteration is over, or raises: the endpoint answers, or fails (500)
EndScan(w) ==
    /\ at[w] = "scan"
    /\ \/ Grown(w) /\ Fail(w)
       \/ /\ ~ Grown(w) /\ todo[w] = {}
          /\ Go(w, "served")
          /\ UNCHANGED <<driver, stored, call, frame, told>>

\* What a return without an error tells the caller
Confirm(w) ==
    LET g == {<<call[w].server, call[w].agent>>}
        confirmed(op) == IF call[w].op = op THEN g ELSE {}
    IN /\ enabled' = enabled \cup
            (IF met[w] = {} THEN confirmed("enable") ELSE {})
       /\ revoked' = revoked \cup
            (IF "contrary" \notin met[w] THEN confirmed("disable") ELSE {})
       /\ disabled' = disabled \cup
            (IF met[w] = {} THEN confirmed("disable") ELSE {})

Return(w) ==
    /\ at[w] = "served"
    /\ Confirm(w)
    /\ Leave(w)
    /\ UNCHANGED stored

Step(w) ==
    \/ Define(w) \/ TestSet(w) \/ CreateSet(w) \/ Add(w) \/ Discard(w)
    \/ PutItem(w) \/ GetItem(w) \/ PutBack(w) \/ Raise(w)
    \/ StartScan(w) \/ (\E s \in Server : Visit(w, s)) \/ EndScan(w)
    \/ Return(w)

\* What the changes under way have met, and the lookups could have seen
Watch ==
    LET now(w) == ServersFor(call'[w].agent, defined', allowed')
        new(w) == call[w].op # "lookup"
        by(w) == {u \in Worker \ {w} : call'[u].server = call'[w].server}
    IN /\ met' = [w \in Worker |->
            IF call'[w].op \notin {"enable", "disable"} THEN {}
            ELSE met[w] \cup
                {k \in {"contrary"} : \E u \in by(w) : Contrary(call'[u], call'[w])}
                \cup {k \in {"stale"} : \E u \in by(w) : Stale(at'[u], call'[w])}]
       /\ ever' = [w \in Worker |->
            IF call'[w].op # "lookup" THEN {}
            ELSE IF new(w) THEN now(w) ELSE ever[w] \cup now(w)]
       /\ always' = [w \in Worker |->
            IF call'[w].op # "lookup" THEN {}
            ELSE IF new(w) THEN now(w) ELSE always[w] \cap now(w)]

Next ==
    \E w \in Worker :
        /\ Step(w) \/ \E r \in Request : Arrive(w, r)
        /\ Watch

Spec == Init /\ [][Next]_vars

-----------------------------------------------------------------------------
Place == {"idle", "called", "defined", "create", "add", "item", "scan",
          "served"}

TypeOK ==
    /\ driver \in Drivers
    /\ defined \subseteq Server
    /\ keys \subseteq Server
    /\ allowed \in [Server -> SUBSET Agent]
    /\ call \in [Worker -> Request \cup {Idle}]
    /\ at \in [Worker -> Place]
    /\ item \in [Worker -> SUBSET Agent]
    /\ span \in [Worker -> SUBSET Server]
    /\ todo \in [Worker -> SUBSET Server]
    /\ answer \in [Worker -> SUBSET Server]
    /\ met \in [Worker -> SUBSET {"contrary", "stale"}]
    /\ enabled \subseteq Grant
    /\ disabled \subseteq revoked /\ revoked \subseteq Grant
    /\ ever \in [Worker -> SUBSET Server]
    /\ always \in [Worker -> SUBSET Server]

(* A grant the registry has confirmed stays until a call that revokes it   *)
(* is made, or in DynamoDB a PUT of the server, which replaces the item;   *)
(* in memory a PUT must not take it away.  This holds if, while the call   *)
(* was under way, none of that sort was, and no other thread was about to  *)
(* write after an earlier look: to put back an item without the agent, or  *)
(* an empty set in the place of the one it is in                           *)
(* (in_memory_registry_storage.py:29-30, 38-40; dynamo_db.py:137, 168-183).*)
EnabledStays == \A g \in enabled : g[2] \in allowed[g[1]]

(* A revocation the registry has confirmed stays until a call that grants  *)
(* the same access is made, if none was under way meanwhile and no other   *)
(* thread was about to put back an item it had read: calls that come later *)
(* do not bring the access back, and neither does what they race with      *)
(* (in_memory_registry_storage.py:42-45, dynamo_db.py:185-208).            *)
DisabledStays == \A g \in disabled : g[2] \notin allowed[g[1]]

(* The same of every revocation that no grant of the access overlapped,    *)
(* which is what disable_mcp_server_for_agent says it does                 *)
(* (storage.py:106): a call for another agent that read the item before    *)
(* puts the access back (dynamo_db.py:183).                                *)
RevokedForGood == \A g \in revoked : g[2] \notin allowed[g[1]]

(* An answer lists the servers granted throughout the lookup, and none     *)
(* that was granted at no moment of it; a dict that grows under the        *)
(* iteration may make it fail, never make it incomplete                    *)
(* (in_memory_registry_storage.py:47-55).                                  *)
AnswersAreHonest ==
    \A w \in Worker : Serves(w, "lookup", "served") =>
        always[w] \subseteq answer[w] /\ answer[w] \subseteq ever[w]

-----------------------------------------------------------------------------
(* The refinement: a write takes effect when it is served, what it has     *)
(* seen is the item it has read or the set it has missed, and a lookup     *)
(* looks at a server when it visits it.                                    *)

Seen(w) == {x \in {item[w]} : at[w] = "item"} \cup {x \in {{}} : at[w] = "create"}

Done(w) == at[w] = "served"

\* A server that has no set when the iteration begins is seen there and then
Looked(w) ==
    IF call[w].op = "lookup" /\ at[w] \in {"scan", "served"}
    THEN Server \ todo[w] ELSE {}

Promise == INSTANCE Grants WITH
    known   <- defined,
    granted <- allowed,
    seen    <- [w \in Worker |-> Seen(w)],
    done    <- [w \in Worker |-> Done(w)],
    read    <- [w \in Worker |-> Looked(w)]

(* The store implements Grants: a server's agents change only by a call    *)
(* that is under way, into what that call makes of a value they had        *)
(* meanwhile, a confirmed call has done so, one that failed may have, and  *)
(* an answer tells of each server what held at some moment of the lookup   *)
(* (in_memory_registry_storage.py:24-55, dynamo_db.py:123-225).            *)
KeepsPromise == Promise!Spec
=============================================================================
