# Verification of distributed_a2a

TLA+ specifications of `distributed_a2a` (`src/distributed_a2a/`), a library for
systems of language-model agents that find each other through a registry and
hand requests on to one another over the A2A protocol.

## The system

| component | source | state | operations |
|---|---|---|---|
| routing client | `client.py` | `RoutingA2AClient.current_card`; per call: connection, poll attempts, rejected names, depth | `send_message`, `fetch_initial_card`; `RemoteAgentConnection.send_message` |
| agent executor | `executors.py` (`RoutingAgentExecutor`), `agent.py` | `self.agent`, the checkpoints of its conversations; per turn: servers, agent run, delivered messages | `execute`, `_build_mcp_client`, `_update_agent_with_tools`, `_build_result`, `persist_delivered_messages` |
| router executor | `executors.py` (`RoutingExecutor`, `_route_request_to_matching_agent`) | none of its own | `execute` |
| heartbeat | `registry.py`, lifespan in `server.py` | where the task is in its loop | PUT at start, PATCH every 5 s, PUT after a failed PATCH |
| agent registry | `registry_server/bootstrap.py`, `in_memory_registry_storage.py`, `dynamo_db.py` | name -> card and `expire_at` | PUT, PATCH, GET, list; TTL |
| MCP registry | the same files | server -> definition and allowed agents | put, enable, disable, get for agent |
| file extraction, interceptor | `file_extractors.py`, `mcp_interceptors.py` | a flag on each tool message | `extract_file_parts`, `hide_binary_content_from_llm` |
| configuration, cards, wiring | `config.py`, `model.py`, `server.py`, `router.py` | none after start | |

How they interact. A client sends a message to the agent of `current_card`
(first the router) and polls its task. The executor behind it runs the agent,
and answers, fails, or publishes a `target_agent` artifact with the card of
another agent, which the router has named and the agent registry has looked up;
the client follows it and starts over after a rejection. An agent server keeps
itself registered with a heartbeat, and before every turn asks the MCP registry
which tool servers it may use. Files that tools produce are kept in the
conversation's checkpoint and delivered, as artifacts, by a turn that answers.

What is hard in it: calls of one client, and turns of one executor, are
coroutines that share `current_card` and `self.agent` and interleave at every
`await`; requests to the registry fail, hang, or arrive after their sender gave
up; the registry and the agents restart separately; leases run on two clocks;
the delivered flags are written after the client has been told the turn is
over; redirects and rejections could go on for ever. The MCP registry serves
its requests in several threads, over dictionaries or over a table that is read,
changed and put back. Files are named by counters and hints that live across
the blocks of a message, and travel under their names.

What makes each part correct:

- *client*: a call ends, after a bounded number of requests; the time-out comes
  after exactly `max_polls` polls; an agent that rejected a call is not tried
  again by it; the checks on a redirect are about the agent that sent it.
- *registration*: an agent that is up is found for as long as its lease can last
  without the registry, one that is gone stops being found within its lease, one
  that comes back is listed.
- *executors*: every task ends in one final state that agrees with its control
  artifact; a file is published, once; an agent has the tools granted to it.
- *MCP registry*: a confirmed grant or revocation stays until a call takes it
  back; an answer is complete, or a failure.
- *files*: extraction finds every file once and names it as declared; the reply
  has the last of each name; what the model is not shown reaches the caller.
- *the whole*: whatever the servers do, and whenever the client asks, it gets an
  answer with its result, a failure the executor stated, or a stated error.

`PROJECT.json` lists every hazard with the line at which it bites and the
properties that watch it.

## Modules

Each component has a module, an `MC` module with the instances TLC checks, and
a `Proofs` module. `Conversation` composes client, executors and agent registry
(it EXTENDS `RoutingClient`); `Grants` is the abstract specification that
`McpRegistry` implements, `TaskProtocol` the one that `AgentExecutor` implements;
`TaskEvents` holds the rules by which tasks grow, for `TaskProtocol` and
`Conversation`. In every module one action is what the program does between
two awaits that matter; operators named "Mutant of X" are plausible bugs, each
of which breaks a property: they are in no next-state relation.

### RoutingClient (`client.py`)

All calls of one `RoutingA2AClient`. `current_card` is the shared attribute;
`pc`, `conn`, `attempts`, `rejected`, `depth` are the locals of a call.
`Start` is the call up to its first await, `FetchReturns`/`FetchFails` the end
of `fetch_initial_card`, `Receive` the end of a request: with the task it
returned the call polls (`Poll`), raises `A2ATimeoutError` (`TimeOut`), follows
a card (`Redirect`), goes back after a rejection (`Rejection`), or returns or
raises (`Finish`). `Contact` is the head of the loop: depth check, then the
connection, whose constructor may raise. A remote task is any combination of a
state, the control artifact that `Verdict` looks for first, and some content;
`input_required`, `canceled` and `unknown` behave as `completed`, `submitted`
as `working`. `requests`, `polls`, `rejecters` and `refused` are history,
forgotten when the call ends (`refused` apart), which keeps states few.

The constant `Sequential` says whether the caller awaits a call before the next
one. The code neither forbids concurrent calls nor guards `current_card`.

### RegistryLease (`registry.py`, `server.py`, `registry_server/`)

The heartbeat tasks of several processes, which may share a name, and the store.
`beat` is the await a task is suspended at (`put`, `patch`, `reput`, `sleep`),
`offer` the `expire_at` of the request under way. `Serve` is the registry
serving it, `Return` and `Raise` its sender hearing of it, or not: a request may
be served and its sender see an error, and one given up may still be served
(`stray`, `ServeStray`). `Boot` and `Stop` are the lifespan (or a crash),
`Restart` is the in-memory registry's process, `Evict` DynamoDB's TTL process,
`Tick` the clock. A time is kept as ticks left, -1 for what is past, which makes
the states finite; `Skew` is an agent's clock against the registry's.
`UpdateExpiry` has the three outcomes of a PATCH: the item's expiry is set;
DynamoDB makes an item without a card; the in-memory store ignores it. Which store
it is, `driver`, is chosen once, in `Init`. `keeper` and `spent` are history: whose
request was the last to be served for a name, and how much of the lease has gone
since, a tick for each tick its process waits for the registry and an interval for
each round that fails.

### AgentExecutor (`executors.py`, `agent.py`)

The turns of one agent server, and of a router (`Router`). `pc` is the await a turn
is suspended at: the MCP registry (`servers`), the MCP servers (`tools`), the
agent (`running`), the router (`routing`), the agent registry (`lookup`), the
write of the flags (`flagging`). `agent` is `self.agent`, with the turn that
made it and its tools; `saved` holds the checkpoints, per saver, since an agent
made without a checkpointer has a memory of its own (`Shared`). `log` is what
the turn put on the event queue: `_fail_task` is `Fail`, reached from both
handlers of `execute`. A turn's tools make at most one file, named by the turn.
langgraph's checkpoints are external: a run saves the conversation as it loaded
it, with its own messages; `aupdate_state` merges into what is saved by then.

`Waits` says when the next message of a conversation is sent: as soon as the task is
seen to be final, as this library's client does (it polls the task); or at any time,
as after an `A2ATimeoutError`, which leaves the remote turn running. The final state is
published before the flags are written, so that turns overlap with either:
`disturbed` is the history of the conversations in which one began before another was
over, or a write of flags failed. `SentOnce`, what `agent.py` says of files, is violated;
`DeliveredOnce` is that of all other conversations. What turns that run at once do to a
checkpoint is the last one's to say: `NoFileLost` is stated for `Waits = "final"` only
(otherwise TLC finds a file overwritten; the code promises nothing there). Both are
about what is published; what is collected is the matter of `FileDelivery`.

The calls an agent makes of its MCP registry are steps here (`ServersNamed`), and
the grants a set that `Regrant` changes, `Lasting` apart. A lookup takes time and
changes overlap it: its answer has every server that was granted throughout
(`held`) and none that was at no moment granted (`seen`), which is what
`McpRegistry` promises (`AnswersAreHonest`); the registry's own concurrency is
modelled there.

### TaskProtocol, TaskEvents (what `executors.py` puts on the event queue)

`TaskProtocol` is what a client may rely on when it reads a task that is still
being worked on: a state, perhaps a control artifact, perhaps files. A task grows
by one event after the other (`OneMore`): files while there is no answer, and never
from a router (`MayAddFile`); one control artifact, an answer if files have come
(`MayAddArtifact`); one final state that goes with the artifact, after which
nothing changes (`MayAddState`). `AgentExecutor` publishes a turn's last events in
one step, hence `Publish` is up to three of them; its refinement mapping (`TaskOf`)
reads the last state, the last control artifact and the presence of files
off a turn's `log`. The executors of `Conversation` publish event by event under
the same three rules.

### McpRegistry, Grants (`registry_server/`, MCP part)

`Grants` is what concurrent callers of `McpRegistryLookup` get: each server has a set of
agents; a write may look at it (`See`) and write later what it makes of the agents it
saw (`Effect`), or those agents themselves (`Restore`), and what other calls did in
between is then lost. A call that ends without an error has taken effect at one moment
between `Begin` and `End`; one that raises (`Fail`) may have. A lookup looks at the
servers one after the other (`Look`). What a PUT of a known server does to its agents is
left open (`Put`), as the two stores differ.

`McpRegistry` has both stores. `call` and `at` are the request a thread serves and
where it is; a step is one access to what the threads share. In memory a PUT is
`Define`, `TestSet`, perhaps `CreateSet`; an enable `TestSet`, perhaps `CreateSet`,
`Add`; a disable `Discard`; a lookup iterates over the dict (`StartScan`, `Visit`,
`EndScan`) and raises if it has `Grown`. In DynamoDB a PUT is `PutItem`, and enable
and disable are `GetItem` and, if there is something to change, `PutBack` of the
whole item. A request to DynamoDB may raise before it has an effect (`Raise`) or after
(`Answered`), upon which the endpoint answers 500, or 404 for an enable and a disable.
`enabled`, `revoked`, `disabled`, `met`, `ever` and `always` are history: what callers
have been told, and what could undo a change while its call was under way.

Two kinds of loss are in the code. In DynamoDB an item that one thread has read is put
back over what another has written since; in memory a thread that has found no set for a
server makes a new one, over the one another has made since, with its grant.
`EnabledStays` and `DisabledStays` hold of every call that met neither (`Stale`), nor a
call for the contrary (`Contrary`); `RevokedForGood`, what `storage.py` says of a
revocation, excludes only the latter, and is violated. `KeepsPromise` says that these
losses are all there are.

The refinement maps `granted` to `allowed`, `seen` to the item a thread has read or the
set it has missed; a write has taken effect when the thread is to answer, a server
is looked at when it has been visited.

### FileDelivery (`mcp_interceptors.py`, `file_extractors.py`, `executors.py`, `client.py`)

The way of a file from a tool's result to the client's `AgentReply`. A result is a
sequence of blocks, from an MCP tool or another (`ToolReturns`); `Hidden` is what
the interceptor takes out of the model's sight. A turn that answers walks the
messages (`TakeBlock`, `EndMessage`): `TakeHidden` is `_mcp_block_to_file_part`,
`TakeContent` a round of `_extract_from_langchain_content_blocks`, with `counters`
and `pending` as in the code. `Publish` sends one file as an artifact, which the
SDK's task store (`PutArtifact`, external) puts in the place of one of the same
id. The client raises if the answer's status was `failed` (`RaiseRemoteFailure`), and
else collects the files (`Collect`): those of a failed answer are published and flagged
like any, and reach nobody. A turn that rejects or raises publishes none (`Withhold`), and
what its tools made waits for the next answer. A synthetic name is the triple of kind, index and
type; a given one may be equal to it.

### Conversation (`client.py` with `executors.py`, `server.py`, the agent registry)

Calls of `RoutingClient` whose requests are answered from `tasks`: what the
executors have published so far, an event a step (`EmitFile`, `EmitArtifact`,
`EmitState`), by the rules of `TaskEvents` that `AgentExecutor` is proved to keep
(`ImplementsProtocol`). `View` is that task as
the client tells tasks apart. Agents register and lapse, servers `Die` with their
task stores, and a redirect hands on any card that is listed at that moment.
Every step is a step of `RoutingClient` or leaves its variables alone.

## Runs

| run | bounds | shows |
|---|---|---|
| `client_sequential` | 4 cards (two with one name, one that cannot be connected to), 2 calls, depth 3, 1 poll | all client properties, safety and liveness, of calls made one after the other; `EveryStepCounts`, the variant that bounds a call's steps |
| `lease` | 2 processes of one name, skew 0 and 1, both stores; interval 1, lease 3, time-out 6 ticks; 1 late request on DynamoDB | `LeaseBound`, `LiveFound` with crashes, restarts and evictions; `FoundAgain` (liveness) when the lease has lapsed |
| `lease_unlisted` | 1 process, DynamoDB | **violated**: `UpGetsListed` |
| `executor_files` | 3 turns of one conversation, each after the final state of the one before; 1 server granted or revoked twice; a shared checkpointer, flag writes late or failing | `DeliveredOnce`, `NoFileLost` |
| `executor_resent` | the same, with flag writes that succeed | **violated**: `SentOnce` |
| `executor_tools` | 2 turns of one conversation, which may overlap, one of them a router's, and 1 turn of another; 2 servers of which 1 stays granted, 1 change of grants, also during a lookup; a shared checkpointer, flag writes fail | `EndsOnce`, `ToolsWereGranted`, `FilesStayInside`, `EveryTaskIsFinal`, and the refinement of `TaskProtocol` (`KeepsProtocol`) |
| `executor_revoked` | the same turns without a checkpointer; the last server may be revoked | **violated**: `ToolsWereGranted` |
| `mcp_registry` | 2 threads that read and write, 2 servers of which 1 is registered beforehand, 2 agents, both stores | `EnabledStays`, `DisabledStays`, `AnswersAreHonest`, and the refinement of `Grants` (`KeepsPromise`) |
| `mcp_revived` | the same | **violated**: `RevokedForGood` |
| `file_delivery` | 2 turns, up to 2 tool results of 4 blocks in all; 7 blocks of MCP tools, 6 of others, 2 given names, one of which looks synthetic | `NoneMissed`, `NamesAsDeclared`, `MadeNamesDiffer`, `LastOfNameArrives` |
| `file_dropped` | the same | **violated**: `HiddenArrives` |
| `conversation` | a router, 2 agents, 2 calls interleaved, depth 1, 1 poll | `ProtocolKept`, `RepliesAreAnswers`, `TimeoutIsDue`; the termination of interleaved calls |

The violated ones are where the code does other than its own texts say;
`findings` in `PROJECT.json` quotes them.

What the passing runs leave out, or state with care, and why.

- With `Sequential = FALSE` a call can fail as redirected to itself because another call
  has moved `current_card` to the card it was offered (`SelfRedirectIsReal`, 3 cards,
  depth 2).
- The lease of the code bears less than its constant says. `LiveFound` gives the measure:
  with heartbeats of 5 s and a lease of 15 s (`server.py:21-26`; 1 and 3 ticks in the run)
  an agent stays found through two failed rounds in a row, or 10 s of waiting for the
  registry. The third miss, or one request that hangs for its 30 s (`registry.py:63`), may
  make it lapse, until a request is served again (`FoundAgain`).
- In memory, too, an agent whose first PUT fails never gets listed: TLC finds
  `UpGetsListed` violated with `Drivers = {"memory"}` by PATCHes that are accepted and
  ignored for ever. The run shows DynamoDB, where the same PATCH leaves an item that breaks
  the listing besides.
- `DeliveredOnce` is about conversations that are not `disturbed`; the others are
  `executor_resent`'s.
- A grant or a revocation whose call overlapped a write from an earlier look may be
  lost; `mcp_revived` shows one such loss, a grant lost by two first requests of a server is
  the other.
- A reply does not hold every file of its turn: the artifact id is the file's name
  (`executors.py:133`), so that of two of one name only the last arrives, which
  `LastOfNameArrives` states exactly; and it says that the caller of a failed answer gets
  none, though they are flagged as delivered (`client.py:206-209`).

Why the bounds are enough. *Client*: two calls are the fewest that can disturb
each other; depth 3 leaves room for router, agent, rejection, router, another
agent; one poll has both sides of the poll limit; two cards of one name
tell names from urls. *Lease*: two processes of one name are a rolling
deployment; with a lease of three intervals and a time-out of six, the ratios of
the code, a request may be served before, at and after the moment its item
expires, and a failed round and the waiting within one use up the lease separately
and together. Horizon (one more than the longest lease) caps history, MaxStrays late
requests. *Executor*: a flag set by a first turn, one by a second, and
what a third makes of both take three turns; three turns also suffice to replace
`self.agent` under each other within a conversation and across two; two servers
and a change let a grant come or go under a lookup. MaxChanges caps the changes. *MCP registry*:
a race is between two threads; two agents tell the change of one grant from
another's; a server that is registered and one that is not have both kinds of key. (The safety
properties also hold in an instance of three threads and one server, too large to be a run.)
Requests go on for ever; the history is finite without a bound. *Files*: a hint, a file and
two more blocks are what it takes for a name to be used, used up and counted;
two results and two turns let a file be flagged, withheld, and meet another of its
name. MaxBlocks, MaxResults and MaxTurns cap them. *Conversation*: depth 1 has a
redirect from the router to an agent and its limit, one poll has both sides of the
poll limit; the second call moves `current_card` under the first. The theorems
below hold without these bounds.
Agents and threads of the MCP registry, whose runs check no liveness, are symmetric; no other
symmetry is used. Deadlock is checked in every run; a client or an executor
whose calls are all over stutters (`Finished`, `Idle`).

Fairness. *Client*: every await is an HTTP request with a time-out or a sleep,
so a call is resumed (`WF` of each call's steps); nothing makes the program
call. *Registration*: time goes on, a finished await resumes the task (`WF`), and
of the PUTs, or PATCHes, that are sent again and again one is served at last, before
the `expire_at` it carries (`SF` of `ServeInTime`: a network that is not down, and not
slower than the lease, for ever). Nobody is bound to start or to stop
a process. *Executor*: the registry, MCP and model clients time out, so
every turn under way takes its next step (`WF`); nobody is bound to send.
*Conversation*: only the client's side of that (`WF` of `CallStep`): executors and
servers may stop for good. *MCP registry* and *files*: safety only.

## Proofs

Checked by TLAPS, for all values of the constants that meet the named
assumptions.

- `RoutingClientProofs`. `TypeCorrect`, `RequestsAreBounded` and
  `TimeoutIsHonest` hold whether or not calls interleave. The first needs that
  a call that waits has a connection (`TypeInv`); the second the inductive
  `Accounted`, requests = full hops made so far + attempts in this one.
  `StepsAreBounded` is the safety half of `EveryCallEnds`: `StepsLeft` is a natural
  number that each step of the client lowers for its call and leaves alone for
  the others, sequential or not; that attempts and depth stay in their limits is
  `Accounted`, and a hop is worth the MaxPolls + 3 steps it can take, so that
  a redirect or a rejection pays for the polls it allows. What is left
  to TLC is that a call with steps left takes one.
  `RejectionsAreHonoured`, `RejectersAreLeft`, `BlameIsReal` and `ResponderStays` assume
  `Sequential`: the invariant `OneAtATime` says that only one call is under way and that the
  card it waits on is `current_card`, which is what concurrent calls break.
- `RegistryLeaseProofs`. `TypeCorrect`; `LeaseIsBounded` from `LeaseInv`, which
  extends the bound to requests under way and to late ones, any number of them;
  `LiveAgentsAreFound`, for any lease, interval and time-out, from `LiveInv`: what is
  left of the lease, what is spent and how long the present sleep has lasted make up the
  whole lease, and a request under way carries one that is older by no more than its
  waiting. `MemoryLists`: in the in-memory store no item is without a card, which
  `lease_unlisted` shows of DynamoDB not to hold.
- `AgentExecutorProofs`. `TypeCorrect`; `ToolsAreGranted`, if some server
  stays granted (`Lasting`): every lookup then names one, the servers a turn was
  named were granted since it began, and no turn runs an agent it did not make.
  Without that `executor_revoked` is the counterexample. `EveryTurnEndsOnce` from
  `LogInv`, the shape of a turn's events at each await, and `RouterInv`, a router's.
  `ImplementsProtocol`, the refinement of `TaskProtocol`: a turn's log grows
  from nothing to `working` to its end (`LogSteps`), where its task is one artifact
  and a state that go together (`EndedTask`), and such a task grows from a new one by
  the rules (`GrowsToEnd`). `FilesAreIsolated`, with a checkpointer or
  without and however turns overlap: `InsideInv` says that every checkpoint, what
  a run has loaded and what a turn is to flag belong to their conversation. `NothingIsLost`, for a shared
  checkpointer and turns sent after the final state of the one before, also when
  flag writes are late or fail: `FilesInv` says that one turn of a conversation is
  before its final state at a time (which `LogInv` yields), and that what it has
  loaded includes every undelivered file, so that saving it loses none. `NothingIsSentTwice`, with
  a checkpointer or without and for every caller: `DeliveryInv` says that in a
  conversation that is not disturbed one turn is busy at a time, and ties each published
  file to the turn that published it, as pending until its flags are written, and as
  flagged, in the checkpoint that `self.agent` would load and in what the next turn has
  loaded, afterwards (`MakerInv`, `MadeInv`: whose memory an agent without a checkpointer
  has).
  `StepKinds` sorts the actions of a turn into the few kinds these proofs tell
  apart.
- `McpRegistryProofs`. `TypeCorrect` and `AnswersHonest` hold for any threads and
  stores: the second from the invariant that relates `answer`, `todo`, `ever` and
  `always` of a lookup under way, and that says what a dict that has not grown still
  has to visit. `GrantsStay` and `RevocationsStay` hold for any threads as well: `WordInv`
  says that a call that could undo a change is in `met` of the call that makes it
  (`MetInv`), that a change which met none is in effect when it is served (`ServedInv`),
  and that no call under way can undo what a caller was told (`ToldInv`). `Refinement`
  maps each action to a step of `Grants` or a stutter, with no assumption on the writers.
- `FileDeliveryProofs`. All five properties, for any blocks, names and turns.
  `NoneMissed` ties `parts` to what has been passed; `NamesAsDeclared` needs that
  `counters` are the cardinalities of `Counted` and `pending` the last hint
  since the last file; `MadeNamesDiffer` follows, as ranks of one kind differ;
  `LastOfNameArrives` from what `artifacts` holds after `sent` files, and from `Phases`,
  by which a reply is those artifacts, or empty if the answer failed.
- `ConversationProofs`. `IsRoutingClient`: the composition implements the client's
  specification without its fairness (`SafetySpec`), from which `RequestsBounded`,
  `EveryStepCounts` and the client's type invariant follow by the theorems of
  `RoutingClientProofs`.
  `ProtocolIsKept`, `RepliesAgree` and `TimeoutsAreDue` rest on the shape of a task at every
  moment: a final state stands beside the result that goes with it.

Left to TLC: all liveness, that is `EveryCallEnds`, `EveryTaskIsFinal` and
`FoundAgain` (this prover has no rules for fairness and ENABLED). Every invariant and
every other property of a passing run is a theorem, under the assumptions named
above.

## Not modelled

Configuration, cards and FastAPI wiring (no state after start; the router's server
has no heartbeat and keeps nothing but its task store). Texts, formats, bytes and
the contents of replies and definitions. The a2a SDK, the models, the tool
servers and langgraph are external: any answer, or what the library's code relies on.
`cancel`, which only raises. DynamoDB's scan pages, its reads as anything but those of the
last write (`get_item` and `scan` are eventually consistent), and a write that takes effect
after its caller was told of a time-out. The Visit of an in-memory lookup reads a set and a
definition in one step: CPython does not change threads between the two. Reads of single items and lists of the MCP registry, which change nothing. A
restart of the in-memory MCP registry, after which it is as in `Init`.

Known and not a property: a client whose call has failed at an agent keeps that
agent's card as `current_card` (`client.py:328`) and goes there with its next call; the
case `routing_error` of `client.py:213` is never reached with the library's own
servers, whose routing errors have the state failed.

## Plan

1. `RoutingClient`, `RegistryLease`, `AgentExecutor`, with proofs: done.
2. `McpRegistry`, an implementation of `Grants`, with proofs: done.
3. `FileDelivery`, with proofs: done.
4. `Conversation`, an implementation of `RoutingClient`, with proofs: done.
5. `TaskProtocol`, implemented by `AgentExecutor`; lookups that overlap changes of
   grants; the budget of a call; isolation of conversations: done.
6. The real lease and time-out, callers as the client is, several writers and failing
   requests of DynamoDB, answers that failed: done.
7. Open: the definitions of MCP servers, to show which of two updates survives;
   pages of DynamoDB's scans.
