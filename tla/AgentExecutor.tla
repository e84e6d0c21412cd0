--------------------------- MODULE AgentExecutor ---------------------------
(***************************************************************************)
(* The turns of an agent server and of a router                            *)
(* (src/distributed_a2a/executors.py, agent.py).  A turn is one call of    *)
(* RoutingAgentExecutor.execute or RoutingExecutor.execute: it publishes   *)
(* the events of one task, in one conversation (context_id).               *)
(*                                                                         *)
(* Turns run concurrently.  Those of the agent share self.agent, which a   *)
(* turn replaces when it has tools, and the checkpoint of their            *)
(* conversation, where a turn's tools leave at most one file, named by the *)
(* turn.                                                                   *)
(* One step is what a turn does between two awaits that matter.            *)
(***************************************************************************)
EXTENDS Integers, Sequences, TaskEvents

CONSTANTS
    Turn,         \* calls of execute
    Router,       \* those of a RoutingExecutor; the rest are one agent's
    Conversation, \* context ids
    Of,           \* turn -> its conversation
    Server,       \* MCP servers
    None,         \* not a turn
    Shared,       \* a checkpointer was given; else each agent has its own
    Waits,        \* what a message waits for of the turns before it in its
                  \* conversation: a "final" state, as the client does, or
                  \* "nothing" (as after an A2ATimeoutError)
    WritesFail,   \* writing the delivered flags to the checkpoint may fail
    Lasting,      \* MCP servers that stay granted to the agent
    MaxChanges    \* how often the others change

ASSUME TurnAssumption ==
    /\ Router \subseteq Turn /\ None \notin Turn
    /\ Of \in [Turn -> Conversation]
    /\ Lasting \subseteq Server
ASSUME ModeAssumption ==
    /\ {Shared, WritesFail} \subseteq BOOLEAN
    /\ Waits \in {"final", "nothing"}
    /\ MaxChanges \in Nat

VARIABLES
    granted,  \* the MCP servers the registry grants the agent
    changes,  \* how often they have changed
    agent,    \* self.agent
    saved,    \* saver -> conversation -> its checkpoint
    pc,       \* turn -> the await it is suspended at
    servers,  \* turn -> the servers the registry named to it
    runs,     \* turn -> the agent it runs
    loaded,   \* turn -> the checkpoint its agent started from
    pending,  \* turn -> delivered_sources, the files it has just delivered
    log,      \* turn -> the events it has published
    \* History, read by the properties only:
    held,     \* turn -> servers granted throughout the lookup it waits for
    seen,     \* turn -> servers granted at some time since it began
    kept,     \* files that have reached a checkpoint
    carriers, \* file -> turns that have published it
    disturbed \* conversations with a turn that began before another was over,
              \* or a write of flags that failed

execution == <<pc, servers, runs, loaded, pending, log>>
history == <<seen, kept, carriers, disturbed>>
vars == <<granted, changes, held, agent, saved, execution, history>>

-----------------------------------------------------------------------------
\* A tool message with a file, and whether it is flagged as delivered
Checkpoint == [files: SUBSET Turn, flagged: SUBSET Turn]
Empty == [files |-> {}, flagged |-> {}]

\* self.agent: the turn that made it (None: __init__) and its MCP servers
Agent == [maker: Turn \cup {None}, tools: SUBSET Server]
\* (load_app gives __init__ no tools)
FirstAgent == [maker |-> None, tools |-> {}]

\* The saver an agent keeps conversations in: the given one, or its own
Saver(a) == IF Shared THEN None ELSE a.maker

\* What an agent may answer with
Status == Final \cup {"rejected"}

Published(t) == \E k \in DOMAIN log[t] : log[t][k] \in Final
Over(t) == pc[t] = "done"

\* The caller may send the next message of the conversation of t
MaySend(t) ==
    \A o \in Turn \ {t} : Of[o] = Of[t] /\ pc[o] # "idle" =>
        \/ Waits = "final" /\ Published(o)
        \/ Waits = "nothing"

-----------------------------------------------------------------------------
Init ==
    /\ granted \in SUBSET Server
    /\ Lasting \subseteq granted
    /\ changes = 0
    /\ held = [t \in Turn |-> {}]
    /\ agent = FirstAgent
    /\ saved = [s \in Turn \cup {None} |-> [x \in Conversation |-> Empty]]
    /\ pc = [t \in Turn |-> "idle"]
    /\ servers = [t \in Turn |-> {}]
    /\ runs = [t \in Turn |-> FirstAgent]
    /\ loaded = [t \in Turn |-> Empty]
    /\ pending = [t \in Turn |-> {}]
    /\ log = [t \in Turn |-> <<>>]
    /\ seen = [t \in Turn |-> {}]
    /\ kept = {}
    /\ carriers = [f \in Turn |-> {}]
    /\ disturbed = {}

\* The MCP registry changes what the agent is granted
Regrant(now) ==
    /\ changes < MaxChanges
    /\ now # granted
    /\ Lasting \subseteq now
    /\ granted' = now
    /\ changes' = changes + 1
    /\ held' = [t \in Turn |-> held[t] \cap now]
    /\ seen' = [t \in Turn |-> IF pc[t] = "idle" THEN {} ELSE seen[t] \cup now]
    /\ UNCHANGED <<agent, saved, execution, kept, carriers, disturbed>>

\* t is suspended at another await; a lookup of its servers begins or is over
Goto(t, place) ==
    /\ pc' = [pc EXCEPT ![t] = place]
    /\ held' = [held EXCEPT ![t] = IF place = "servers" THEN granted ELSE {}]

Publish(t, events) == log' = [log EXCEPT ![t] = @ \o events]

\* Mutant of Fail: the task is left without a final state
FailQuietly(t, artifact) ==
    /\ Publish(t, <<artifact>>)
    /\ Goto(t, "done")
    /\ UNCHANGED <<granted, changes, agent, servers, runs, loaded, pending,
                   seen, carriers, disturbed>>

\* _fail_task, from one of the two handlers of execute
Fail(t, artifact) ==
    /\ Publish(t, <<artifact, "failed">>)
    /\ Goto(t, "done")
    /\ UNCHANGED <<granted, changes, agent, servers, runs, loaded, pending,
                   seen, carriers, disturbed>>

\* RoutingExecutor reports every error as a routing error
Broken(t) == IF t \in Router THEN "routing_error" ELSE "current_result"

\* Another turn of the conversation has begun and is not over
Overlaps(t) ==
    \E o \in Turn \ {t} : Of[o] = Of[t] /\ pc[o] # "idle" /\ ~ Over(o)

Disturb(t) == disturbed' = disturbed \cup {Of[t]}

Start(t) ==
    /\ pc[t] = "idle"
    /\ MaySend(t)
    /\ Publish(t, <<"working">>)
    /\ Goto(t, IF t \in Router THEN "routing" ELSE "servers")
    /\ seen' = [seen EXCEPT ![t] = granted]
    /\ \/ Overlaps(t) /\ Disturb(t)
       \/ ~ Overlaps(t) /\ UNCHANGED disturbed
    /\ UNCHANGED <<granted, changes, agent, saved, servers, runs, loaded,
                   pending, kept, carriers>>

\* Mutant of Invoke: all conversations of an agent share a thread
InvokeThreadless(t, a) ==
    LET boxes == {saved[Saver(a)][x] : x \in Conversation} IN
    /\ Goto(t, "running")
    /\ runs' = [runs EXCEPT ![t] = a]
    /\ loaded' = [loaded EXCEPT ![t] =
                    [files |-> UNION {c.files : c \in boxes},
                     flagged |-> UNION {c.flagged : c \in boxes}]]

\* self.agent(...): the agent a loads the checkpoint of the conversation
Invoke(t, a) ==
    /\ Goto(t, "running")
    /\ runs' = [runs EXCEPT ![t] = a]
    /\ loaded' = [loaded EXCEPT ![t] = saved[Saver(a)][Of[t]]]

\* Mutant of ServersNamed: the registry is asked once
ServersCached(t) ==
    /\ pc[t] = "servers"
    /\ \/ /\ agent.tools # {}
          /\ Invoke(t, agent)
          /\ UNCHANGED servers
       \/ /\ agent.tools = {}
          /\ Goto(t, "tools")
          /\ servers' = [servers EXCEPT ![t] = granted]
          /\ UNCHANGED <<runs, loaded>>
    /\ UNCHANGED <<granted, changes, agent, saved, pending, log, history>>

\* get_mcp_tool_for_agent returns: all servers that were granted throughout,
\* and perhaps some that came or went meanwhile (McpRegistry!AnswersAreHonest).
\* An empty list is no reason to replace self.agent, which keeps the tools it
\* was made with.
ServersNamed(t) ==
    /\ pc[t] = "servers"
    /\ \E named \in SUBSET seen[t] :
        /\ held[t] \subseteq named
        /\ \/ /\ named = {}
              /\ Invoke(t, agent)
              /\ UNCHANGED servers
           \/ /\ named # {}
              /\ Goto(t, "tools")
              /\ servers' = [servers EXCEPT ![t] = named]
              /\ UNCHANGED <<runs, loaded>>
    /\ UNCHANGED <<granted, changes, agent, saved, pending, log, history>>

\* get_tools returns: self.agent is replaced and invoked at once
ToolsListed(t) ==
    LET made == [maker |-> t, tools |-> servers[t]] IN
    /\ pc[t] = "tools"
    /\ agent' = made
    /\ Invoke(t, made)
    /\ UNCHANGED <<granted, changes, saved, servers, pending, log, history>>

-----------------------------------------------------------------------------
\* The files the run of t may add to its conversation: only tools make them
Files(t) == IF runs[t].tools = {} THEN {{}} ELSE {{}, {t}}

\* The agent's run checkpoints the conversation as t has it
Save(t, new) ==
    /\ saved' = [saved EXCEPT ![Saver(runs[t])][Of[t]] =
                    [loaded[t] EXCEPT !.files = @ \cup new]]
    /\ kept' = kept \cup new

\* The files of t's messages that are not flagged
Undelivered(t, new) == (loaded[t].files \cup new) \ loaded[t].flagged

\* The agent answers: execute publishes the files, the text and the state,
\* and turns to the flags if there was a file
AgentAnswers(t, status, new) ==
    LET files == Undelivered(t, new) IN
    /\ pc[t] = "running"
    /\ Save(t, new)
    /\ Publish(t, (IF files = {} THEN <<>> ELSE <<"file">>)
                    \o <<"current_result", status>>)
    /\ carriers' = [f \in Turn |-> IF f \in files THEN carriers[f] \cup {t}
                                                  ELSE carriers[f]]
    /\ pending' = [pending EXCEPT ![t] = files]
    /\ Goto(t, IF files = {} THEN "done" ELSE "flagging")
    /\ UNCHANGED <<granted, changes, agent, servers, runs, loaded, seen,
                   disturbed>>

\* Mutants of AgentRejects: the rejection is published as a state ...
RejectsPublicly(t, new) ==
    /\ pc[t] = "running"
    /\ Save(t, new)
    /\ Publish(t, <<"current_result", "rejected">>)
    /\ Goto(t, "done")
    /\ UNCHANGED <<granted, changes, agent, servers, runs, loaded, pending,
                   seen, carriers, disturbed>>

\* ... the files are flagged, though they are not delivered
RejectsFlagged(t, new) ==
    /\ pc[t] = "running"
    /\ saved' = [saved EXCEPT ![Saver(runs[t])][Of[t]] =
                    [files |-> loaded[t].files \cup new,
                     flagged |-> loaded[t].files \cup new]]
    /\ kept' = kept \cup new
    /\ Goto(t, "routing")
    /\ UNCHANGED <<granted, changes, agent, servers, runs, loaded, pending,
                   log, seen, carriers, disturbed>>

\* The agent rejects the request: the router of the executor takes over, and
\* no file is delivered.
AgentRejects(t, new) ==
    /\ pc[t] = "running"
    /\ Save(t, new)
    /\ Goto(t, "routing")
    /\ UNCHANGED <<granted, changes, agent, servers, runs, loaded, pending,
                   log, seen, carriers, disturbed>>

\* The agent raises, after its tools or before them
AgentRaises(t, new) ==
    /\ pc[t] = "running"
    /\ Save(t, new)
    /\ Fail(t, Broken(t))

\* The registry, the MCP servers or the router raise
CallRaises(t) ==
    /\ pc[t] \in {"servers", "tools", "routing", "lookup"}
    /\ Fail(t, Broken(t))
    /\ UNCHANGED <<saved, kept>>

-----------------------------------------------------------------------------
(* _route_request_to_matching_agent *)

\* The router says failed, or names no agent and has no message; or the card
\* of the agent it named is no longer in the registry.
RoutingFails(t) ==
    /\ pc[t] \in {"routing", "lookup"}
    /\ Fail(t, "routing_error")
    /\ UNCHANGED <<saved, kept>>

RoutingNamesAgent(t) ==
    /\ pc[t] = "routing"
    /\ Goto(t, "lookup")
    /\ UNCHANGED <<granted, changes, agent, saved, servers, runs, loaded,
                   pending, log, history>>

\* The router's own message, or the card of the agent it named, is the result
Routed(t, artifact) ==
    /\ Publish(t, <<artifact, "completed">>)
    /\ Goto(t, "done")
    /\ UNCHANGED <<granted, changes, agent, saved, servers, runs, loaded,
                   pending, history>>

RoutingTells(t) == pc[t] = "routing" /\ Routed(t, "current_result")
CardFound(t) == pc[t] = "lookup" /\ Routed(t, "target_agent")

-----------------------------------------------------------------------------
(* persist_delivered_messages, called after the final state is published,  *)
(* on what self.agent is by then                                           *)

\* Mutant of FlagsPersisted: flags set before are lost
FlagsReplaced(t) ==
    /\ pc[t] = "flagging"
    /\ saved' = [saved EXCEPT ![Saver(agent)][Of[t]] =
                    [files |-> @.files \cup pending[t], flagged |-> pending[t]]]
    /\ Goto(t, "done")
    /\ UNCHANGED <<granted, changes, agent, servers, runs, loaded, pending,
                   log, history>>

FlagsPersisted(t) ==
    /\ pc[t] = "flagging"
    /\ saved' = [saved EXCEPT ![Saver(agent)][Of[t]] =
                    [files |-> @.files \cup pending[t],
                     flagged |-> @.flagged \cup pending[t]]]
    /\ Goto(t, "done")
    /\ UNCHANGED <<granted, changes, agent, servers, runs, loaded, pending,
                   log, history>>

\* Mutant of FlagsLost: the failure reaches the handler of execute
FlagsRaise(t) ==
    /\ WritesFail
    /\ pc[t] = "flagging"
    /\ Fail(t, Broken(t))
    /\ UNCHANGED <<saved, kept>>

\* The write fails: the failure is logged and swallowed
FlagsLost(t) ==
    /\ WritesFail
    /\ pc[t] = "flagging"
    /\ Goto(t, "done")
    /\ Disturb(t)
    /\ UNCHANGED <<granted, changes, agent, saved, servers, runs, loaded,
                   pending, log, seen, kept, carriers>>

-----------------------------------------------------------------------------
\* What t does once it has begun
Step(t) ==
    \/ ServersNamed(t)
    \/ ToolsListed(t)
    \/ CallRaises(t)
    \/ \E new \in Files(t) :
          \/ \E status \in Final : AgentAnswers(t, status, new)
          \/ AgentRejects(t, new)
          \/ AgentRaises(t, new)
    \/ RoutingFails(t)
    \/ RoutingNamesAgent(t)
    \/ RoutingTells(t)
    \/ CardFound(t)
    \/ FlagsPersisted(t)
    \/ FlagsLost(t)

\* All turns are over
Idle == (\A t \in Turn : Over(t)) /\ UNCHANGED vars

Next ==
    \/ \E now \in SUBSET Server : Regrant(now)
    \/ \E t \in Turn : Start(t) \/ Step(t)
    \/ Idle

\* Every await of a turn returns or raises: the clients have timeouts
Fairness == \A t \in Turn : WF_vars(Step(t))

Spec == Init /\ [][Next]_vars /\ Fairness

-----------------------------------------------------------------------------
TypeOK ==
    /\ granted \in SUBSET Server
    /\ changes \in 0 .. MaxChanges
    /\ held \in [Turn -> SUBSET Server]
    /\ agent \in Agent
    /\ saved \in [Turn \cup {None} -> [Conversation -> Checkpoint]]
    /\ pc \in [Turn -> {"idle", "servers", "tools", "running", "routing",
                        "lookup", "flagging", "done"}]
    /\ servers \in [Turn -> SUBSET Server]
    /\ runs \in [Turn -> Agent]
    /\ loaded \in [Turn -> Checkpoint]
    /\ pending \in [Turn -> SUBSET Turn]
    /\ log \in [Turn -> Seq(Event)]
    /\ seen \in [Turn -> SUBSET Server]
    /\ kept \in SUBSET Turn
    /\ carriers \in [Turn -> SUBSET Turn]
    /\ disturbed \in SUBSET Conversation

\* A turn publishes one final state, after everything else it publishes and
\* right after one control artifact that agrees with it, on every path
\* through execute, its two handlers and the write of the flags after them;
\* files come with an agent's answer only, and a router's own answer is
\* complete.  (This is what Conversation takes executors to publish.)
EndsOnce ==
    \A t \in Turn : LET n == Len(log[t]) IN
        /\ pc[t] \in {"flagging", "done"} => n > 2 /\ <<log[t][n-1], log[t][n]>> \in Ending
        /\ \A k \in 1 .. n : log[t][k] \in Final => k = n
        /\ \A k \in 1 .. n : log[t][k] \in Artifact =>
               k = n - 1 /\ pc[t] \in {"flagging", "done"}
        /\ \A k \in 1 .. n : log[t][k] = "file" =>
               t \notin Router /\ log[t][n-1] = "current_result"
        /\ t \in Router /\ pc[t] = "done" /\ log[t][n-1] = "current_result" =>
               log[t][n] = "completed"

\* A file is delivered in its own conversation only, although all of them
\* share self.agent, and with it perhaps the saver (agent.py:103-105, 125-127): also when
\* turns overlap, self.agent is replaced under them, or flag writes fail.
FilesStayInside ==
    \A f \in Turn : \A t \in carriers[f] : Of[t] = Of[f]

\* Flags hold: in a conversation whose turns have begun one after another's
\* end, with no write of flags failed, a file is published by one turn only,
\* also when turns raise or are rejected, and while turns of others replace
\* self.agent, and with it perhaps the saver the flags are written to.
DeliveredOnce ==
    \A f \in Turn : Of[f] \notin disturbed => \A t, u \in carriers[f] : t = u

\* The same of all conversations, as agent.py:49-52 and 119-121 have it.
SentOnce == \A f \in Turn : \A t, u \in carriers[f] : t = u

\* With a checkpointer that all agents share, a file that a tool made has
\* been published, or is still in the conversation, unflagged, for the next
\* answer to publish, whatever happened to the turn that made it or to the
\* writes of flags (but not if a turn was sent before the final state of
\* another: Waits).  A published file still has to be collected: FileDelivery.
NoFileLost ==
    Shared => \A f \in kept :
        \/ carriers[f] # {}
        \/ LET c == saved[None][Of[f]] IN f \in c.files \ c.flagged

\* An agent runs with the tools of servers that were granted to it at some
\* time since its turn began.
ToolsWereGranted ==
    \A t \in Turn : pc[t] = "running" => runs[t].tools \subseteq seen[t]

\* A turn that was started publishes a final state.
EveryTaskIsFinal == \A t \in Turn : pc[t] # "idle" ~> Published(t)

-----------------------------------------------------------------------------
(* The refinement: a task is the last of each that its turn has published. *)

\* The last of some events that is of a kind
LastOf(events, kind, default) ==
    LET places == {k \in DOMAIN events : events[k] \in kind} IN
    IF places = {} THEN default
    ELSE events[CHOOSE k \in places : \A j \in places : j <= k]

TaskOf(events) == [state    |-> LastOf(events, Status, "working"),
                   artifact |-> LastOf(events, Artifact, "none"),
                   file     |-> LastOf(events, {"file"}, "none") = "file"]

Protocol == INSTANCE TaskProtocol WITH task <- [t \in Turn |-> TaskOf(log[t])]

\* Whatever happens to a turn, to a client its task is one of TaskProtocol's:
\* no state and no control artifact is ever taken back or changed, nothing
\* follows a final state, files precede the text of an agent's answer
\* (executors.py:114-153, 172-237).
KeepsProtocol == Protocol!Spec

=============================================================================
