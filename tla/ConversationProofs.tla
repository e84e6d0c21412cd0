------------------------- MODULE ConversationProofs -------------------------
(* What Conversation guarantees for any routers, agents and calls, any     *)
(* schedule and any losses: the client is RoutingClient's, whose proved    *)
(* properties it inherits, and the servers keep the client's protocol.     *)
EXTENDS Conversation, RoutingClientProofs

USE RouterAssumption

\* What ProtocolKept says is never the result of a call
Breach == {"unexpected_response", "malformed_card", "auth_required",
           "redirect_to_rejected", "rejected_again"}

-----------------------------------------------------------------------------
(* The tasks, whatever the client does                                     *)

\* The tasks have their types, and agree with themselves at every moment.
TasksOK ==
    /\ listed \subseteq Card \ Router
    /\ tasks \in [Call -> [state: Final \cup {"working"}, artifact: Artifact \cup {"none"},
                           file: BOOLEAN, card: Card \cup {NoCard}, kept: BOOLEAN]]
    /\ \A c \in Call :
        /\ tasks[c].artifact = "target_agent" <=> tasks[c].card # NoCard
        /\ tasks[c].file => tasks[c].artifact \in {"none", "current_result"}
        /\ tasks[c].state # "working" => <<tasks[c].artifact, tasks[c].state>> \in Ending

LEMMA NewTaskIsOne ==
    NewTask \in [state: Final \cup {"working"}, artifact: Artifact \cup {"none"},
                 file: BOOLEAN, card: Card \cup {NoCard}, kept: BOOLEAN]
  BY DEF NewTask

LEMMA RenewKeeps ==
    ASSUME TasksOK, NEW c \in Call, Renew(c)
    PROVE  TasksOK'
<1>1. \A o \in Call : tasks'[o] = tasks[o] \/ tasks'[o] = NewTask
  BY DEF Renew, TasksOK
<1>2. tasks' \in [Call -> [state: Final \cup {"working"}, artifact: Artifact \cup {"none"},
                           file: BOOLEAN, card: Card \cup {NoCard}, kept: BOOLEAN]]
  BY NewTaskIsOne DEF Renew, TasksOK
<1> QED
  BY <1>1, <1>2, CardAssumption DEF Renew, TasksOK, NewTask

LEMMA ExecuteKeeps ==
    ASSUME TasksOK, NEW c \in Call, Execute(c)
    PROVE  TasksOK'
<1> USE DEF TasksOK
<1>1. CASE EmitFile(c)
  BY <1>1 DEF EmitFile, MayAddFile
<1>2. ASSUME NEW artifact \in Artifact, NEW card \in Card \cup {NoCard},
             EmitArtifact(c, artifact, card)
      PROVE  TasksOK'
  <2>1. /\ artifact = "target_agent" <=> card # NoCard
        /\ tasks[c].file => artifact = "current_result"
        /\ tasks[c].state = "working"
    BY <1>2, CardAssumption DEF EmitArtifact, MayAddArtifact
  <2>2. tasks' = [tasks EXCEPT ![c].artifact = artifact, ![c].card = card]
        /\ UNCHANGED listed
    BY <1>2 DEF EmitArtifact
  <2> QED
    BY <2>1, <2>2 DEF Artifact
<1>3. ASSUME NEW state \in Final, EmitState(c, state) PROVE TasksOK'
  BY <1>3 DEF EmitState, MayAddState
<1> QED
  BY <1>1, <1>2, <1>3 DEF Execute

LEMMA TasksInduction == ConversationSpec => []TasksOK
<1>1. ConversationInit => TasksOK
  BY NewTaskIsOne DEF ConversationInit, TasksOK, NewTask
<1>2. TasksOK /\ [ConversationNext]_system => TasksOK'
  <2> SUFFICES ASSUME TasksOK, [ConversationNext]_system PROVE TasksOK'
    OBVIOUS
  <2>1. ASSUME NEW c \in Call, Renew(c) PROVE TasksOK'
    BY <2>1, RenewKeeps
  <2>2. ASSUME NEW c \in Call, Execute(c) PROVE TasksOK'
    BY <2>2, ExecuteKeeps
  <2>3. ASSUME NEW card \in Card, Die(card) PROVE TasksOK'
    BY <2>3 DEF Die, TasksOK
  <2>4. ASSUME NEW card \in Card, Register(card) \/ Lapse(card) PROVE TasksOK'
    BY <2>4 DEF Register, Lapse, TasksOK
  <2>5. CASE UNCHANGED system
    BY <2>5 DEF system, TasksOK
  <2> QED
    BY <2>1, <2>2, <2>3, <2>4, <2>5 DEF ConversationNext, CallStep
<1> QED
  BY <1>1, <1>2, PTL DEF ConversationSpec

-----------------------------------------------------------------------------
(* The client, whatever the servers do                                     *)

\* What a client makes of a task is one of RoutingClient's tasks, and its
\* verdict is never one that breaches the protocol.
LEMMA ViewIsTask ==
    ASSUME TasksOK, NEW c \in Call
    PROVE  /\ View(c) \in Task
           /\ Verdict(View(c)) \in {"working", "failed", "reply", "redirect"}
           /\ Verdict(View(c)) = "working" => tasks[c].state = "working"
           /\ Verdict(View(c)) = "failed" => tasks[c].state = "failed"
           /\ Verdict(View(c)) = "reply" =>
                /\ tasks[c].artifact = "current_result"
                /\ tasks[c].state \in {"completed", "input_required"}
<1> DEFINE t == tasks[c]
<1>1. /\ t.state \in Final \cup {"working"} /\ t.artifact \in Artifact \cup {"none"}
      /\ t.file \in BOOLEAN /\ t.card \in Card \cup {NoCard}
      /\ t.artifact = "target_agent" <=> t.card # NoCard
      /\ t.state # "working" => <<t.artifact, t.state>> \in Ending
  BY DEF TasksOK
<1>2. /\ View(c).state = IF t.state = "input_required" THEN "completed" ELSE t.state
      /\ View(c).control = IF t.artifact = "current_result" THEN "none" ELSE t.artifact
      /\ View(c).card = t.card
      /\ View(c).content = (t.file \/ t.artifact = "current_result")
  BY DEF View
<1>3. View(c) \in Task
  <2>1. /\ View(c).state \in TaskState /\ View(c).control \in Control
        /\ View(c).content \in BOOLEAN
        /\ View(c).control = "target_agent" <=> View(c).card # NoCard
    BY <1>1, <1>2 DEF TaskState, Control, Final, Artifact
  <2>2. View(c) = [state |-> View(c).state, control |-> View(c).control,
                   card |-> View(c).card, content |-> View(c).content]
    BY DEF View
  <2>3. View(c) \in [state: TaskState, control: Control,
                     card: Card \cup {NoCard}, content: BOOLEAN]
    BY <1>1, <1>2, <2>1, <2>2
  <2> QED
    BY <2>1, <2>3 DEF Task
<1>4. CASE t.state = "working"
  BY <1>2, <1>3, <1>4 DEF Verdict
<1>5. CASE t.state = "failed"
  BY <1>2, <1>3, <1>5 DEF Verdict
<1>6. CASE t.state \in {"completed", "input_required"}
  <2>1. t.artifact \in {"current_result", "target_agent"}
    BY <1>1, <1>6 DEF Ending
  <2>2. View(c).state = "completed"
    BY <1>2, <1>6
  <2>3. CASE t.artifact = "current_result"
    <3>1. View(c).control = "none" /\ View(c).content
      BY <1>2, <2>3
    <3> QED
      BY <1>3, <1>6, <2>2, <2>3, <3>1 DEF Verdict
  <2>4. CASE t.artifact = "target_agent"
    <3>1. View(c).control = "target_agent"
      BY <1>2, <2>4
    <3> QED
      BY <1>3, <2>2, <3>1 DEF Verdict
  <2> QED
    BY <2>1, <2>3, <2>4
<1> QED
  BY <1>1, <1>4, <1>5, <1>6 DEF Final

\* Every step of the system is a step of RoutingClient, or none of it: the
\* system implements RoutingClient.
LEMMA StepSimulation ==
    ASSUME TasksOK, [ConversationNext]_system
    PROVE  [Next]_vars
<1>1. ASSUME NEW c \in Call, Start(c) PROVE Next
  BY <1>1 DEF Next
<1>2. ASSUME NEW c \in Call, CallStep(c) PROVE Next
  BY <1>2, ViewIsTask DEF Next, Step, CallStep, Answered
<1>3. ASSUME NEW c \in Call, Execute(c) PROVE UNCHANGED vars
  BY <1>3 DEF Execute, EmitFile, EmitArtifact, EmitState
<1>4. ASSUME NEW card \in Card, Die(card) \/ Register(card) \/ Lapse(card)
      PROVE  UNCHANGED vars
  BY <1>4 DEF Die, Register, Lapse
<1> QED
  BY <1>1, <1>2, <1>3, <1>4 DEF ConversationNext, system

\* The client of the system is RoutingClient: it starts as one, and each of
\* its steps is one of RoutingClient's (client.py:282-349 against
\* executors.py:114-277).
THEOREM IsRoutingClient == ConversationSpec => SafetySpec
<1>1. ConversationInit => Init
  BY DEF ConversationInit
<1>2. TasksOK /\ [ConversationNext]_system => [Next]_vars
  BY StepSimulation
<1> QED
  BY <1>1, <1>2, TasksInduction, PTL DEF ConversationSpec, SafetySpec

\* RequestsBounded: also against the library's own routers and agents, which
\* may redirect a call in circles, its requests are bounded.
THEOREM SystemRequestsAreBounded == ConversationSpec => []RequestsBounded
  BY IsRoutingClient, Requests, PTL

\* EveryStepCounts: no executor, server or registration gives a call back what
\* it has used up of its steps; redirects in circles end.
THEOREM SystemStepsAreBounded == ConversationSpec => EveryStepCounts
  BY IsRoutingClient, Steps, PTL

LEMMA SystemTypeInduction == ConversationSpec => []TypeInv
  BY IsRoutingClient, TypeInduction, PTL

\* SystemTypeOK is an invariant of the system.
THEOREM SystemTypeCorrect == ConversationSpec => []SystemTypeOK
<1>1. TypeInv /\ TasksOK => SystemTypeOK
  BY DEF TypeInv, TasksOK, SystemTypeOK
<1> QED
  BY <1>1, SystemTypeInduction, TasksInduction, PTL

-----------------------------------------------------------------------------
(* The protocol between them                                               *)

LEMMA FinishKeeps ==
    ASSUME TypeInv, ProtocolKept, NEW c \in Call, NEW outcome, outcome \notin Breach,
           Finish(c, outcome)
    PROVE  ProtocolKept'
  BY DEF TypeInv, FramesOK, ProtocolKept, Finish, Breach

LEMMA ContactKeeps ==
    ASSUME TypeInv, ProtocolKept, NEW c \in Call, NEW card, NEW d, Contact(c, card, d)
    PROVE  ProtocolKept'
<1>1. CASE Connect(c, card, d)
  BY <1>1 DEF TypeInv, FramesOK, ProtocolKept, Connect
<1> QED
  BY <1>1, FinishKeeps DEF Contact, Breach

\* ProtocolKept: at whatever moment a client asks, what the executors have
\* published so far is an answer it can read, and none of them says rejected
\* (client.py:202-249, executors.py:126-170).
THEOREM ProtocolIsKept == ConversationSpec => []ProtocolKept
<1>1. ConversationInit => ProtocolKept
  BY DEF ConversationInit, Init, ProtocolKept
<1>2. TypeInv /\ TasksOK /\ ProtocolKept /\ [ConversationNext]_system => ProtocolKept'
  <2> SUFFICES ASSUME TypeInv, TasksOK, ProtocolKept, [ConversationNext]_system
               PROVE  ProtocolKept'
    OBVIOUS
  <2>1. ASSUME NEW c \in Call, Start(c) PROVE ProtocolKept'
    <3>1. CASE Contact(c, current_card, 0)
      BY <3>1, ContactKeeps
    <3>2. CASE current_card = NoCard
      BY <2>1, <3>2 DEF Start, TypeInv, FramesOK, ProtocolKept
    <3> QED
      BY <2>1, <3>1, <3>2 DEF Start
  <2>2. ASSUME NEW c \in Call, FetchReturns(c) PROVE ProtocolKept'
    BY <2>2, ContactKeeps DEF FetchReturns
  <2>3. ASSUME NEW c \in Call, FetchFails(c) \/ RequestFails(c) PROVE ProtocolKept'
    BY <2>3, FinishKeeps DEF FetchFails, RequestFails, Breach
  <2>4. ASSUME NEW c \in Call, Answered(c) PROVE ProtocolKept'
    <3>1. Receive(c, View(c))
          /\ Verdict(View(c)) \in {"working", "failed", "reply", "redirect"}
      BY <2>4, ViewIsTask DEF Answered
    <3>2. CASE Poll(c)
      BY <3>2 DEF Poll, ProtocolKept
    <3>3. CASE TimeOut(c)
      BY <3>3, FinishKeeps DEF TimeOut, Breach
    <3>4. CASE Redirect(c, View(c).card)
      <4>1. rejected[c] = {}
        BY DEF ProtocolKept
      <4>2. CASE Refuse(c, View(c).card, "self_redirect")
        BY <4>2, FinishKeeps DEF Refuse, Breach
      <4> QED
        BY <3>4, <4>1, <4>2, ContactKeeps DEF Redirect
    <3>5. ASSUME Finish(c, Verdict(View(c))) PROVE ProtocolKept'
      BY <3>1, <3>5, FinishKeeps DEF Breach
    <3> QED
      BY <3>1, <3>2, <3>3, <3>4, <3>5 DEF Receive
  <2>5. CASE UNCHANGED vars
    BY <2>5 DEF vars, control, ProtocolKept
  <2>6. ASSUME NEW c \in Call, Execute(c) PROVE ProtocolKept'
    BY <2>5, <2>6 DEF Execute, EmitFile, EmitArtifact, EmitState
  <2>7. ASSUME NEW card \in Card, Die(card) \/ Register(card) \/ Lapse(card)
        PROVE  ProtocolKept'
    BY <2>5, <2>7 DEF Die, Register, Lapse
  <2> QED
    BY <2>1, <2>2, <2>3, <2>4, <2>5, <2>6, <2>7
    DEF ConversationNext, CallStep, system
<1> QED
  BY <1>1, <1>2, SystemTypeInduction, TasksInduction, PTL DEF ConversationSpec

\* What a step that ends a call makes of its task.
LEMMA EndingsAgree ==
    ASSUME TypeInv, TasksOK, ConversationNext, NEW o \in Call, result[o] = "none"
    PROVE  /\ result'[o] = "reply" =>
                /\ tasks[o].artifact = "current_result"
                /\ tasks[o].state \in {"completed", "input_required"}
           /\ result'[o] = "failed" => tasks[o].state = "failed"
           /\ result'[o] = "timeout" => tasks[o].state = "working"
<1> DEFINE Ended == result'[o] \in {"reply", "failed", "timeout"}
<1>1. ASSUME NEW c \in Call, NEW outcome, Finish(c, outcome), Ended
      PROVE  o = c /\ result'[o] = outcome
  BY <1>1 DEF Finish, TypeInv, FramesOK
<1>2. ASSUME NEW c \in Call, NEW card, NEW d, Contact(c, card, d), Ended PROVE FALSE
  BY <1>1, <1>2 DEF Contact, Connect
<1>3. ASSUME NEW c \in Call, Start(c) \/ FetchReturns(c) \/ FetchFails(c)
                                \/ RequestFails(c), Ended
      PROVE  FALSE
  BY <1>1, <1>2, <1>3 DEF Start, FetchReturns, FetchFails, RequestFails
<1>4. ASSUME NEW c \in Call, Answered(c), Ended
      PROVE  /\ o = c
             /\ \/ result'[o] = "timeout" /\ Verdict(View(c)) = "working"
                \/ result'[o] # "timeout" /\ Verdict(View(c)) = result'[o]
  <2>1. Receive(c, View(c))
        /\ Verdict(View(c)) \in {"working", "failed", "reply", "redirect"}
    BY <1>4, ViewIsTask DEF Answered
  <2>2. CASE Poll(c)
    BY <1>4, <2>2 DEF Poll
  <2>3. CASE Verdict(View(c)) = "working" /\ TimeOut(c)
    BY <1>1, <1>4, <2>3 DEF TimeOut
  <2>4. CASE Redirect(c, View(c).card)
    BY <1>1, <1>2, <1>4, <2>4 DEF Redirect, Refuse
  <2>5. CASE Finish(c, Verdict(View(c)))
    BY <1>1, <1>4, <2>1, <2>5
  <2> QED
    BY <2>1, <2>2, <2>3, <2>4, <2>5 DEF Receive
<1>5. ASSUME UNCHANGED vars, Ended PROVE FALSE
  BY <1>5 DEF vars, control
<1>6. ASSUME NEW c \in Call, Execute(c), Ended PROVE FALSE
  BY <1>5, <1>6 DEF Execute, EmitFile, EmitArtifact, EmitState
<1>7. ASSUME NEW card \in Card, Die(card) \/ Register(card) \/ Lapse(card), Ended
      PROVE  FALSE
  BY <1>5, <1>7 DEF Die, Register, Lapse
<1>8. ASSUME Ended
      PROVE  \/ result'[o] = "timeout" /\ Verdict(View(o)) = "working"
             \/ result'[o] # "timeout" /\ Verdict(View(o)) = result'[o]
  BY <1>3, <1>4, <1>6, <1>7, <1>8 DEF ConversationNext, CallStep
<1> QED
  BY <1>8, ViewIsTask

\* RepliesAreAnswers: what a call returns is a complete answer of the agent
\* it asked, and it raises "failed" only for a task that failed
\* (client.py:206-249).
THEOREM RepliesAgree == ConversationSpec => RepliesAreAnswers
<1>1. TypeInv /\ TasksOK /\ [ConversationNext]_system
        => [\A c \in Call : result[c] = "none" /\ result'[c] \in {"reply", "failed"} =>
                IF result'[c] = "reply"
                THEN tasks[c].artifact = "current_result"
                        /\ tasks[c].state \in {"completed", "input_required"}
                ELSE tasks[c].state = "failed"]_system
  BY EndingsAgree
<1> QED
  BY <1>1, SystemTypeInduction, TasksInduction, PTL
  DEF ConversationSpec, RepliesAreAnswers

\* TimeoutIsDue: a time-out gives up a task that was still working when the
\* last answer was read (client.py:190-200).
THEOREM TimeoutsAreDue == ConversationSpec => TimeoutIsDue
<1>1. TypeInv /\ TasksOK /\ [ConversationNext]_system
        => [\A c \in Call : result[c] = "none" /\ result'[c] = "timeout" =>
                tasks[c].state = "working"]_system
  BY EndingsAgree
<1> QED
  BY <1>1, SystemTypeInduction, TasksInduction, PTL
  DEF ConversationSpec, TimeoutIsDue
=============================================================================
