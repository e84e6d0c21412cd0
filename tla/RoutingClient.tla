--------------------------- MODULE RoutingClient ---------------------------
(***************************************************************************)
(* The calls of one RoutingA2AClient (src/distributed_a2a/client.py).      *)
(*                                                                         *)
(* A call of send_message contacts the agent of self.current_card, polls   *)
(* its task until the task leaves working / submitted, and then returns,   *)
(* raises, follows a redirect to another agent, or, after a rejection,     *)
(* fetches the initial card and starts over.  All calls of one client      *)
(* share self.current_card.  asyncio switches calls only at an await, so   *)
(* one step of the model is what one call does between two awaits.         *)
(*                                                                         *)
(* A remote task is reduced to what the client tells apart: its state, its *)
(* first control artifact and whether it carries a text or a file.         *)
(***************************************************************************)
EXTENDS Integers, FiniteSets

CONSTANTS
    Card,         \* the agent cards of the deployment
    NoCard,       \* current_card is None
    AgentName,    \* the names the cards carry
    AgentUrl,     \* the urls the cards carry
    Name,         \* card -> its name
    Url,          \* card -> its url
    InitialCard,  \* the card served at initial_url
    Unusable,     \* cards RemoteAgentConnection refuses to connect to
    Call,         \* the calls of send_message made on this client
    MaxDepth,     \* MAX_RECURSION_DEPTH
    MaxPolls,     \* max_polls
    Sequential    \* the caller awaits a call before it makes the next one

ASSUME CardAssumption ==
    /\ NoCard \notin Card
    /\ InitialCard \in Card
    /\ Unusable \subseteq Card
    /\ Name \in [Card -> AgentName]
    /\ Url \in [Card -> AgentUrl]

ASSUME BoundAssumption == MaxDepth \in Nat /\ MaxPolls \in Nat

ASSUME SequentialAssumption == Sequential \in BOOLEAN

VARIABLES
    current_card, \* self.current_card, shared by the calls
    pc,           \* call -> the await it is suspended at
    conn,         \* call -> card of its RemoteAgentConnection
    attempts,     \* call -> attempts of the polling loop
    rejected,     \* call -> names in rejected_agents
    depth,        \* call -> current_depth
    result,       \* call -> what the call returned or raised
    \* What the network saw, read by the properties only:
    requests,     \* call -> message/send and tasks/get requests it made
    polls,        \* call -> tasks/get requests to the agent it talks to
    rejecters,    \* call -> cards whose agents rejected the call
    refused       \* call -> the card it was redirected to and did not follow

control == <<current_card, pc, conn, attempts, rejected, depth, result>>
history == <<requests, polls, rejecters, refused>>
vars == <<control, history>>

-----------------------------------------------------------------------------
(* What the client makes of a task.                                        *)

\* working stands for working and submitted, completed for every other state
\* that send_message does not look at (input_required, canceled, unknown).
TaskState == {"working", "completed", "failed", "rejected", "auth_required"}

\* The first artifact that matches one of the three control cases.  The
\* parts of a malformed target_agent are no AgentCard.
Control == {"none", "routing_error", "rejected", "target_agent", "malformed"}

Task == {t \in [state: TaskState, control: Control,
                card: Card \cup {NoCard}, content: BOOLEAN] :
            (t.control = "target_agent") <=> (t.card # NoCard)}

\* Mutant of Verdict: a routing error is returned before the state is read
EagerVerdict(task) ==
    IF task.control = "routing_error" THEN "reply"
    ELSE IF task.state \in {"working", "auth_required", "failed"} THEN task.state
    ELSE IF task.control = "target_agent" THEN "redirect"
    ELSE IF task.control = "malformed" THEN "malformed_card"
    ELSE IF task.control = "rejected" \/ (task.state = "rejected" /\ ~ task.content)
    THEN "rejected"
    ELSE IF task.content THEN "reply" ELSE "unexpected_response"

\* How RemoteAgentConnection.send_message leaves its polling loop (or does not)
Verdict(task) ==
    CASE task.state \in {"working", "auth_required", "failed"} -> task.state
      [] task.state \in {"completed", "rejected"} /\ task.control # "none" ->
            (CASE task.control = "routing_error" -> "reply"
               [] task.control = "rejected"      -> "rejected"
               [] task.control = "target_agent"  -> "redirect"
               [] task.control = "malformed"     -> "malformed_card")
      [] task.state \in {"completed", "rejected"} /\ task.control = "none" ->
            (IF task.content THEN "reply"
             ELSE IF task.state = "rejected" THEN "rejected"
             ELSE "unexpected_response")

\* Verdicts that end the call: a reply is returned, the others are raised.
FinalVerdict == {"reply", "auth_required", "failed", "malformed_card",
                 "unexpected_response"}

Result == FinalVerdict \cup
    {"none", "timeout", "remote_error", "fetch_failed", "unusable_card",
     "too_deep", "self_redirect", "redirect_to_rejected", "rejected_again"}

-----------------------------------------------------------------------------
Init ==
    /\ current_card = NoCard
    /\ pc = [c \in Call |-> "idle"]
    /\ conn = [c \in Call |-> NoCard]
    /\ attempts = [c \in Call |-> 0]
    /\ rejected = [c \in Call |-> {}]
    /\ depth = [c \in Call |-> 0]
    /\ result = [c \in Call |-> "none"]
    /\ requests = [c \in Call |-> 0]
    /\ polls = [c \in Call |-> 0]
    /\ rejecters = [c \in Call |-> {}]
    /\ refused = [c \in Call |-> NoCard]

\* The call returns or raises: the variables of its frame are gone
Finish(c, outcome) ==
    /\ pc' = [pc EXCEPT ![c] = "done"]
    /\ result' = [result EXCEPT ![c] = outcome]
    /\ conn' = [conn EXCEPT ![c] = NoCard]
    /\ attempts' = [attempts EXCEPT ![c] = 0]
    /\ rejected' = [rejected EXCEPT ![c] = {}]
    /\ depth' = [depth EXCEPT ![c] = 0]
    /\ requests' = [requests EXCEPT ![c] = 0]
    /\ polls' = [polls EXCEPT ![c] = 0]
    /\ rejecters' = [rejecters EXCEPT ![c] = {}]

\* Mutant of Connect: hops are not counted (and the requests counted afresh,
\* which keeps the states finite)
UncountedConnect(c, card, d) ==
    /\ pc' = [pc EXCEPT ![c] = "waiting"]
    /\ conn' = [conn EXCEPT ![c] = card]
    /\ attempts' = [attempts EXCEPT ![c] = 1]
    /\ requests' = [requests EXCEPT ![c] = 1]
    /\ polls' = [polls EXCEPT ![c] = 0]
    /\ UNCHANGED <<depth, rejected, result, rejecters>>

\* A RemoteAgentConnection is made for card and sends the message
Connect(c, card, d) ==
    /\ pc' = [pc EXCEPT ![c] = "waiting"]
    /\ conn' = [conn EXCEPT ![c] = card]
    /\ attempts' = [attempts EXCEPT ![c] = 1]
    /\ depth' = [depth EXCEPT ![c] = d]
    /\ requests' = [requests EXCEPT ![c] = @ + 1]
    /\ polls' = [polls EXCEPT ![c] = 0]
    /\ UNCHANGED <<rejected, result, rejecters>>

\* The head of send_message's loop, at depth d with current_card = card: the
\* depth check, then the connection, whose constructor may raise.
Contact(c, card, d) ==
    \/ d > MaxDepth /\ Finish(c, "too_deep")
    \/ d <= MaxDepth /\ card \in Unusable /\ Finish(c, "unusable_card")
    \/ d <= MaxDepth /\ card \notin Unusable /\ Connect(c, card, d)

\* send_message is called: with no card yet it awaits fetch_initial_card
Start(c) ==
    /\ pc[c] = "idle"
    /\ Sequential => \A o \in Call : pc[o] \in {"idle", "done"}
    /\ \/ /\ current_card = NoCard
          /\ pc' = [pc EXCEPT ![c] = "fetching"]
          /\ UNCHANGED <<conn, attempts, rejected, depth, result,
                         requests, polls, rejecters>>
       \/ /\ current_card # NoCard
          /\ Contact(c, current_card, 0)
    /\ UNCHANGED <<current_card, refused>>

\* fetch_initial_card returns, at the start of a call or after a rejection
FetchReturns(c) ==
    /\ current_card' = InitialCard
    /\ \/ pc[c] = "fetching" /\ Contact(c, InitialCard, 0)
       \/ pc[c] = "refetching" /\ Contact(c, InitialCard, depth[c] + 1)
    /\ UNCHANGED refused

\* ... or raises; current_card stays what it was
FetchFails(c) ==
    /\ pc[c] \in {"fetching", "refetching"}
    /\ Finish(c, "fetch_failed")
    /\ UNCHANGED <<current_card, refused>>

\* A request raises (transport, empty response, the caller cancels the call)
RequestFails(c) ==
    /\ pc[c] = "waiting"
    /\ Finish(c, "remote_error")
    /\ UNCHANGED <<current_card, refused>>

\* Mutant of Poll: one poll too many
PollOnceMore(c) ==
    /\ attempts[c] <= MaxPolls + 1
    /\ attempts' = [attempts EXCEPT ![c] = @ + 1]
    /\ requests' = [requests EXCEPT ![c] = @ + 1]
    /\ polls' = [polls EXCEPT ![c] = @ + 1]
    /\ UNCHANGED <<current_card, pc, conn, rejected, depth, result,
                   rejecters, refused>>

\* The task is still working: sleep and ask again
Poll(c) ==
    /\ attempts[c] <= MaxPolls
    /\ attempts' = [attempts EXCEPT ![c] = @ + 1]
    /\ requests' = [requests EXCEPT ![c] = @ + 1]
    /\ polls' = [polls EXCEPT ![c] = @ + 1]
    /\ UNCHANGED <<current_card, pc, conn, rejected, depth, result,
                   rejecters, refused>>

\* Mutant of TimeOut: >= for >
EarlyTimeOut(c) ==
    /\ attempts[c] >= MaxPolls
    /\ Finish(c, "timeout")
    /\ UNCHANGED <<current_card, refused>>

\* ... or, at the limit, raise A2ATimeoutError
TimeOut(c) ==
    /\ attempts[c] > MaxPolls
    /\ Finish(c, "timeout")
    /\ UNCHANGED <<current_card, refused>>

Refuse(c, card, outcome) ==
    /\ Finish(c, outcome)
    /\ refused' = [refused EXCEPT ![c] = card]
    /\ UNCHANGED current_card

\* Mutants of Redirect: agents are told apart by name ...
RedirectByName(c, card) ==
    \/ /\ Name[card] = Name[current_card]
       /\ Refuse(c, card, "self_redirect")
    \/ /\ Name[card] # Name[current_card]
       /\ current_card' = card
       /\ Contact(c, card, depth[c] + 1)
       /\ UNCHANGED refused

\* ... the rejected agents are not looked at ...
RedirectAnywhere(c, card) ==
    /\ current_card' = card
    /\ Contact(c, card, depth[c] + 1)
    /\ UNCHANGED refused

\* ... the new card is not kept
RedirectOnce(c, card) ==
    /\ Contact(c, card, depth[c] + 1)
    /\ UNCHANGED <<current_card, refused>>

\* The agent redirects to card.  The checks read self.current_card, which
\* another call may have replaced since this one contacted its agent.
Redirect(c, card) ==
    \/ /\ Url[card] = Url[current_card]
       /\ Refuse(c, card, "self_redirect")
    \/ /\ Url[card] # Url[current_card]
       /\ Name[card] \in rejected[c]
       /\ Refuse(c, card, "redirect_to_rejected")
    \/ /\ Url[card] # Url[current_card]
       /\ Name[card] \notin rejected[c]
       /\ current_card' = card
       /\ Contact(c, card, depth[c] + 1)
       /\ UNCHANGED refused

\* Mutant of Exclude: the card is replaced before its name is remembered
ExcludeAfterFetch(c, name) ==
    /\ rejected' = [rejected EXCEPT ![c] = @ \cup {Name[InitialCard]}]
    /\ rejecters' = [rejecters EXCEPT ![c] = @ \cup {conn[c]}]
    /\ pc' = [pc EXCEPT ![c] = "refetching"]
    /\ UNCHANGED <<conn, attempts, depth, result, requests, polls>>

Exclude(c, name) ==
    /\ rejected' = [rejected EXCEPT ![c] = @ \cup {name}]
    /\ rejecters' = [rejecters EXCEPT ![c] = @ \cup {conn[c]}]
    /\ pc' = [pc EXCEPT ![c] = "refetching"]
    /\ UNCHANGED <<conn, attempts, depth, result, requests, polls>>

\* The agent rejects the request: remember the name, go back to the start
Rejection(c) ==
    /\ \/ /\ Name[current_card] \in rejected[c]
          /\ Finish(c, "rejected_again")
       \/ /\ Name[current_card] \notin rejected[c]
          /\ Exclude(c, Name[current_card])
    /\ UNCHANGED <<current_card, refused>>

\* Mutant of Receive: at the limit a task is given up without being read
ReceiveUnread(c, task) ==
    /\ pc[c] = "waiting"
    /\ LET verdict == Verdict(task) IN
       \/ verdict = "working" /\ Poll(c)
       \/ TimeOut(c)
       \/ verdict = "redirect" /\ Redirect(c, task.card)
       \/ verdict = "rejected" /\ Rejection(c)
       \/ /\ verdict \in FinalVerdict
          /\ Finish(c, verdict)
          /\ UNCHANGED <<current_card, refused>>

\* The awaited request returns task
Receive(c, task) ==
    /\ pc[c] = "waiting"
    /\ LET verdict == Verdict(task) IN
       \/ verdict = "working" /\ Poll(c)
       \/ verdict = "working" /\ TimeOut(c)
       \/ verdict = "redirect" /\ Redirect(c, task.card)
       \/ verdict = "rejected" /\ Rejection(c)
       \/ /\ verdict \in FinalVerdict
          /\ Finish(c, verdict)
          /\ UNCHANGED <<current_card, refused>>

\* Every call has returned: nothing more is asked of the client
Finished ==
    /\ \A c \in Call : pc[c] = "done"
    /\ UNCHANGED vars

\* What the call does by itself once the caller has made it
Step(c) ==
    \/ FetchReturns(c)
    \/ FetchFails(c)
    \/ RequestFails(c)
    \/ \E task \in Task : Receive(c, task)

Next == (\E c \in Call : Start(c) \/ Step(c)) \/ Finished

\* Every await of a call is an httpx request or a sleep, and httpx raises
\* when its own timeout expires: a suspended call is resumed eventually.
\* Nothing makes the program call send_message.
Fairness == \A c \in Call : WF_vars(Step(c))

Spec == Init /\ [][Next]_vars /\ Fairness

-----------------------------------------------------------------------------
TypeOK ==
    /\ current_card \in Card \cup {NoCard}
    /\ pc \in [Call -> {"idle", "fetching", "waiting", "refetching", "done"}]
    /\ conn \in [Call -> Card \cup {NoCard}]
    /\ attempts \in [Call -> 0 .. MaxPolls + 1]
    /\ rejected \in [Call -> SUBSET AgentName]
    /\ depth \in [Call -> 0 .. MaxDepth]
    /\ result \in [Call -> Result]
    /\ requests \in [Call -> Nat]
    /\ polls \in [Call -> Nat]
    /\ rejecters \in [Call -> SUBSET Card]
    /\ refused \in [Call -> Card \cup {NoCard}]

(* A call makes at most MaxDepth + 1 hops of one message/send and MaxPolls *)
(* tasks/get requests each, whatever the agents answer and whatever other  *)
(* calls do to current_card: the loop of client.py has no other bound.     *)
RequestsBounded ==
    \A c \in Call : requests[c] <= (MaxDepth + 1) * (MaxPolls + 1)

(* A2ATimeoutError reports the polls that were made, and is raised only    *)
(* after all max_polls of them: the answer to the last poll is still read  *)
(* (client.py:190-200, attempts starts at 1 and is compared with >).       *)
TimeoutOnlyAfterLimit ==
    [][\A c \in Call : result[c] # "timeout" /\ result'[c] = "timeout"
            => polls[c] = MaxPolls /\ attempts[c] - 1 = polls[c]]_vars

(* "Agent redirected to itself." is raised only when the agent this call   *)
(* talked to offered its own url (client.py:321-322).                      *)
SelfRedirectIsReal ==
    [][\A c \in Call :
            result[c] # "self_redirect" /\ result'[c] = "self_redirect"
            => Url[refused'[c]] = Url[conn[c]]]_vars

(* rejected_agents, which the router is told to exclude, are the names of  *)
(* the agents that rejected this very call (client.py:334-339).            *)
RejectedIsAccurate ==
    \A c \in Call : rejected[c] = {Name[card] : card \in rejecters[c]}

(* A call never waits for an agent that has rejected it, except for the    *)
(* initial agent, to which every rejection returns (client.py:323-344).    *)
NeverBackToRejecter ==
    \A c \in Call : pc[c] = "waiting" =>
        conn[c] = InitialCard \/ conn[c] \notin rejecters[c]

(* When a call returns a reply, the next call goes to the agent that       *)
(* replied: current_card is the card the call ended at.                    *)
ResponderIsKept ==
    [][\A c \in Call : result[c] # "reply" /\ result'[c] = "reply"
            => current_card' = conn[c]]_vars

\* What a call may do until it ends: MaxPolls + 3 steps a hop at most, those
\* of the request, its polls, the answer, and a fetch after a rejection
StepsLeft(c) ==
    LET hop == MaxPolls + 3
        ahead == (MaxDepth - depth[c]) * hop
    IN  CASE pc[c] = "idle"       -> (MaxDepth + 1) * hop + 2
          [] pc[c] = "fetching"   -> (MaxDepth + 1) * hop + 1
          [] pc[c] = "waiting"    -> ahead + (MaxPolls + 3 - attempts[c])
          [] pc[c] = "refetching" -> ahead + 1
          [] pc[c] = "done"       -> 0

(* Whatever the agents answer, each step of the client brings one call     *)
(* nearer to its end and holds no other back, also when calls share        *)
(* current_card: polls, redirects and rejections use up one bounded        *)
(* budget (client.py:190-200, 301-345).                                    *)
EveryStepCounts ==
    [][\E c \in Call : /\ StepsLeft(c)' < StepsLeft(c)
                       /\ \A o \in Call \ {c} : StepsLeft(o)' = StepsLeft(o)]_vars

(* Every call returns or raises, whatever the agents answer: redirects,    *)
(* rejections and polls cannot go on for ever.                             *)
EveryCallEnds == \A c \in Call : pc[c] = "fetching" \/ pc[c] = "waiting" ~> pc[c] = "done"

=============================================================================
