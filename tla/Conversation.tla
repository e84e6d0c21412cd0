---------------------------- MODULE Conversation ----------------------------
(***************************************************************************)
(* The client against the library's own servers: calls of RoutingClient    *)
(* whose requests are answered by agents and routers that publish tasks as *)
(* AgentExecutor does, come and go, and redirect to the cards the agent    *)
(* registry lists, those of agents that are gone included.                 *)
(*                                                                         *)
(* Of an executor's turn only what it publishes is kept, one event a step: *)
(* a client may ask between any two of them.  A server that is down fails  *)
(* requests as a broken network does.                                      *)
(***************************************************************************)
EXTENDS RoutingClient, TaskEvents

CONSTANT Router  \* cards that are served by a RoutingExecutor

ASSUME RouterAssumption == Router \subseteq Card

VARIABLES
    listed, \* cards in the agent registry
    tasks   \* call -> the task its agent has made of its last message

system == <<vars, listed, tasks>>

\* state is "working" for submitted and working; card is that of a
\* target_agent; kept is false once the server has died with its task store
NewTask == [state |-> "working", artifact |-> "none", file |-> FALSE,
            card |-> NoCard, kept |-> TRUE]

\* The task of call c as the client tells tasks apart
View(c) ==
    LET t == tasks[c] IN
    [state   |-> IF t.state = "input_required" THEN "completed" ELSE t.state,
     control |-> IF t.artifact = "current_result" THEN "none" ELSE t.artifact,
     card    |-> t.card,
     content |-> t.file \/ t.artifact = "current_result"]

-----------------------------------------------------------------------------
ConversationInit ==
    /\ Init
    /\ listed = {}
    /\ tasks = [c \in Call |-> NewTask]

(* Executors publish by the rules that AgentExecutor is shown to keep      *)

\* The executor of c's task has not died
Working(c) == pc[c] = "waiting" /\ tasks[c].kept

ByRouter(c) == conn[c] \in Router

EmitFile(c) ==
    /\ Working(c)
    /\ MayAddFile(ByRouter(c), tasks[c])
    /\ tasks' = [tasks EXCEPT ![c].file = TRUE]
    /\ UNCHANGED <<vars, listed>>

\* The answer, or what became of routing: the card of the agent the router
\* named, if the registry has it, or an error
EmitArtifact(c, artifact, card) ==
    /\ Working(c)
    /\ MayAddArtifact(tasks[c], artifact)
    /\ card \in IF artifact = "target_agent" THEN listed ELSE {NoCard}
    /\ tasks' = [tasks EXCEPT ![c].artifact = artifact, ![c].card = card]
    /\ UNCHANGED <<vars, listed>>

\* Mutant of EmitState: the state is published before the result
EmitStateFirst(c, state) ==
    /\ Working(c)
    /\ tasks[c].state = "working"
    /\ tasks' = [tasks EXCEPT ![c].state = state]
    /\ UNCHANGED <<vars, listed>>

EmitState(c, state) ==
    /\ Working(c)
    /\ MayAddState(ByRouter(c), tasks[c], state)
    /\ tasks' = [tasks EXCEPT ![c].state = state]
    /\ UNCHANGED <<vars, listed>>

Execute(c) ==
    \/ EmitFile(c)
    \/ \E artifact \in Artifact, card \in Card \cup {NoCard} : EmitArtifact(c, artifact, card)
    \/ \E state \in Final : EmitState(c, state)

(* Servers and their registrations                                         *)

\* A server dies, and its tasks with it; another may take its place
Die(card) ==
    /\ tasks' = [c \in Call |-> [tasks[c] EXCEPT !.kept = @ /\ conn[c] # card]]
    /\ UNCHANGED <<vars, listed>>

\* An agent's card is put in the place of any of the same name
Register(card) ==
    /\ card \notin Router
    /\ listed' = {other \in listed : Name[other] # Name[card]} \cup {card}
    /\ UNCHANGED <<vars, tasks>>

\* A registration runs out, or is lost
Lapse(card) ==
    /\ card \in listed
    /\ listed' = listed \ {card}
    /\ UNCHANGED <<vars, tasks>>

(* The client                                                              *)

\* A call that connects, and one that ends, has no use for its old task
Renew(c) ==
    /\ tasks' = [tasks EXCEPT ![c] =
            IF pc'[c] = "waiting" /\ attempts'[c] > 1 THEN @ ELSE NewTask]
    /\ UNCHANGED listed

Answered(c) ==
    /\ tasks[c].kept
    /\ Receive(c, View(c))

CallStep(c) ==
    /\ FetchReturns(c) \/ FetchFails(c) \/ RequestFails(c) \/ Answered(c)
    /\ Renew(c)

ConversationNext ==
    \/ \E c \in Call : Start(c) /\ Renew(c)
    \/ \E c \in Call : CallStep(c) \/ Execute(c)
    \/ \E card \in Card : Die(card) \/ Register(card) \/ Lapse(card)

\* The client's side of RoutingClient's fairness; executors and servers may
\* stop for good.
ConversationFairness == \A c \in Call : WF_system(CallStep(c))

ConversationSpec ==
    ConversationInit /\ [][ConversationNext]_system /\ ConversationFairness

-----------------------------------------------------------------------------
SystemTypeOK ==
    /\ TypeOK
    /\ listed \subseteq Card \ Router
    /\ tasks \in [Call -> [state: Final \cup {"working"}, artifact: Artifact \cup {"none"},
                          file: BOOLEAN, card: Card \cup {NoCard}, kept: BOOLEAN]]

(* Between the library's client and its servers no call fails over the     *)
(* protocol: no response is unexpected, no card malformed, and, as a       *)
(* rejection is answered with a redirect, no agent is ever excluded, at    *)
(* whatever moment a client asks (client.py:202-249, executors.py:126-170).*)
ProtocolKept ==
    \A c \in Call :
        /\ rejected[c] = {} /\ pc[c] # "refetching"
        /\ result[c] \notin {"unexpected_response", "malformed_card", "auth_required",
                             "redirect_to_rejected", "rejected_again"}

(* A reply is an agent's or router's answer, complete with its text; what  *)
(* an executor calls failed, a routing error too, is raised                *)
(* (client.py:206-214).                                                    *)
RepliesAreAnswers ==
    [][\A c \in Call : result[c] = "none" /\ result'[c] \in {"reply", "failed"} =>
            IF result'[c] = "reply"
            THEN tasks[c].artifact = "current_result"
                    /\ tasks[c].state \in {"completed", "input_required"}
            ELSE tasks[c].state = "failed"]_system

(* An answer that was there when the client last asked is not thrown away  *)
(* for a time-out (client.py:190-200).                                     *)
TimeoutIsDue ==
    [][\A c \in Call : result[c] = "none" /\ result'[c] = "timeout" =>
            tasks[c].state = "working"]_system
=============================================================================
