------------------------ MODULE RoutingClientProofs ------------------------
(* What RoutingClient guarantees for every set of cards and of calls and   *)
(* for every bound.                                                        *)
EXTENDS RoutingClient, TLAPS

USE DEF FinalVerdict, Result

-----------------------------------------------------------------------------
(* Type correctness                                                        *)

\* What holds of the calls' own variables: TypeOK's part about them, and that
\* a call past its first await has a connection.
FramesOK ==
    /\ pc \in [Call -> {"idle", "fetching", "waiting", "refetching", "done"}]
    /\ conn \in [Call -> Card \cup {NoCard}]
    /\ attempts \in [Call -> 0 .. MaxPolls + 1]
    /\ rejected \in [Call -> SUBSET AgentName]
    /\ depth \in [Call -> 0 .. MaxDepth]
    /\ result \in [Call -> Result]
    /\ requests \in [Call -> Nat]
    /\ polls \in [Call -> Nat]
    /\ rejecters \in [Call -> SUBSET Card]
    /\ \A c \in Call : pc[c] \in {"waiting", "refetching"} => conn[c] \in Card

\* A call that has a connection has left a card in current_card.
CardKnown ==
    \A c \in Call : pc[c] \in {"waiting", "refetching"} => current_card \in Card

TypeInv == TypeOK /\ FramesOK /\ CardKnown

\* Ending a call leaves its variables in their types.
LEMMA FinishTyped ==
    ASSUME FramesOK, NEW c \in Call, NEW outcome \in Result, Finish(c, outcome)
    PROVE  /\ FramesOK'
           /\ CardKnown /\ UNCHANGED current_card => CardKnown'
  BY BoundAssumption DEF FramesOK, CardKnown, Finish

\* So does contacting an agent.
LEMMA ContactTyped ==
    ASSUME FramesOK, NEW c \in Call, NEW card \in Card, NEW d \in Nat,
           Contact(c, card, d)
    PROVE  FramesOK'
<1>1. CASE d <= MaxDepth /\ Connect(c, card, d)
  BY <1>1, BoundAssumption DEF FramesOK, Connect
<1> QED
  BY <1>1, FinishTyped DEF Contact

\* A verdict of redirect comes with a card.
LEMMA RedirectCarriesCard ==
    ASSUME NEW task \in Task, Verdict(task) = "redirect"
    PROVE  task.card \in Card
  BY DEF Task, Verdict, TaskState, Control

\* Safety needs no fairness.
SafetySpec == Init /\ [][Next]_vars

\* TypeInv is inductive.
LEMMA TypeInduction == SafetySpec => []TypeInv
<1>1. Init => TypeInv
  BY BoundAssumption DEF Init, TypeInv, TypeOK, FramesOK, CardKnown
<1>2. TypeInv /\ [Next]_vars => TypeInv'
  <2> SUFFICES ASSUME TypeInv, [Next]_vars PROVE TypeInv'
    OBVIOUS
  <2> USE CardAssumption, BoundAssumption
  <2>0. FramesOK /\ CardKnown /\ TypeOK
    BY DEF TypeInv
  <2>a. ASSUME FramesOK', refused' \in [Call -> Card \cup {NoCard}],
               current_card' \in Card
        PROVE  TypeInv'
    BY <2>a DEF TypeInv, TypeOK, FramesOK, CardKnown
  <2>b. ASSUME NEW c \in Call, NEW outcome \in Result, Finish(c, outcome),
               UNCHANGED current_card, refused' \in [Call -> Card \cup {NoCard}]
        PROVE  TypeInv'
    <3>1. FramesOK' /\ CardKnown'
      BY <2>0, <2>b, FinishTyped
    <3> QED
      BY <2>0, <2>b, <3>1 DEF TypeInv, TypeOK, FramesOK
  <2>1. ASSUME NEW c \in Call, Start(c) PROVE TypeInv'
    <3>1. CASE current_card = NoCard
      BY <2>0, <2>1, <3>1 DEF Start, TypeInv, TypeOK, FramesOK, CardKnown
    <3>2. CASE current_card # NoCard
      <4>1. current_card \in Card /\ Contact(c, current_card, 0)
        BY <2>0, <2>1, <3>2 DEF Start, TypeOK
      <4>2. FramesOK'
        BY <2>0, <4>1, ContactTyped
      <4> QED
        BY <2>0, <2>1, <2>a, <4>1, <4>2 DEF Start, TypeOK
    <3> QED
      BY <3>1, <3>2
  <2>2. ASSUME NEW c \in Call, FetchReturns(c) PROVE TypeInv'
    <3>1. depth[c] + 1 \in Nat /\ 0 \in Nat
      BY <2>0 DEF TypeOK
    <3>2. FramesOK'
      BY <2>0, <2>2, <3>1, ContactTyped DEF FetchReturns
    <3> QED
      BY <2>0, <2>2, <2>a, <3>2 DEF FetchReturns, TypeOK
  <2>3. ASSUME NEW c \in Call, FetchFails(c) PROVE TypeInv'
    BY <2>0, <2>3, <2>b DEF FetchFails, TypeOK
  <2>4. ASSUME NEW c \in Call, RequestFails(c) PROVE TypeInv'
    BY <2>0, <2>4, <2>b DEF RequestFails, TypeOK
  <2>5. ASSUME NEW c \in Call, NEW task \in Task, Receive(c, task)
        PROVE  TypeInv'
    <3>0. pc[c] = "waiting" /\ current_card \in Card /\ conn[c] \in Card
      BY <2>0, <2>5 DEF Receive, CardKnown, FramesOK
    <3>1. CASE Poll(c)
      BY <2>0, <3>1 DEF Poll, TypeInv, TypeOK, FramesOK, CardKnown
    <3>2. CASE TimeOut(c)
      BY <2>0, <2>b, <3>2 DEF TimeOut, TypeOK
    <3>3. CASE Verdict(task) = "redirect" /\ Redirect(c, task.card)
      <4>1. task.card \in Card /\ depth[c] + 1 \in Nat
        BY <2>0, <3>3, RedirectCarriesCard DEF TypeOK
      <4>2. CASE Contact(c, task.card, depth[c] + 1) /\ current_card' = task.card
                 /\ UNCHANGED refused
        <5>1. FramesOK'
          BY <2>0, <4>1, <4>2, ContactTyped
        <5> QED
          BY <2>0, <2>a, <4>1, <4>2, <5>1 DEF TypeOK
      <4>3. ASSUME NEW outcome \in Result, Refuse(c, task.card, outcome)
            PROVE  TypeInv'
        <5>1. refused' \in [Call -> Card \cup {NoCard}]
          BY <2>0, <4>1, <4>3 DEF Refuse, TypeOK
        <5> QED
          BY <2>b, <4>3, <5>1 DEF Refuse
      <4> QED
        BY <3>3, <4>2, <4>3 DEF Redirect
    <3>4. CASE Rejection(c)
      <4>1. CASE Finish(c, "rejected_again")
        BY <2>0, <2>b, <3>4, <4>1 DEF Rejection, TypeOK
      <4>2. CASE Exclude(c, Name[current_card])
        <5>1. Name[current_card] \in AgentName
          BY <3>0
        <5>2. FramesOK'
          BY <2>0, <3>0, <4>2, <5>1 DEF Exclude, FramesOK
        <5> QED
          BY <2>0, <2>a, <3>0, <3>4, <5>2 DEF Rejection, TypeOK
      <4> QED
        BY <3>4, <4>1, <4>2 DEF Rejection
    <3>5. ASSUME NEW verdict \in FinalVerdict, Finish(c, verdict),
                 UNCHANGED <<current_card, refused>>
          PROVE  TypeInv'
      BY <2>0, <2>b, <3>5 DEF TypeOK
    <3> QED
      BY <2>5, <3>1, <3>2, <3>3, <3>4, <3>5 DEF Receive
  <2>6. CASE UNCHANGED vars
    BY <2>0, <2>6 DEF TypeInv, TypeOK, FramesOK, CardKnown, vars, control, history
  <2> QED
    BY <2>1, <2>2, <2>3, <2>4, <2>5, <2>6 DEF Next, Step, Finished
<1> QED
  BY <1>1, <1>2, PTL DEF SafetySpec

\* TypeOK is an invariant of the client (client.py:174-349): in particular
\* the depth of a call and the attempts of a poll never pass their limits.
THEOREM TypeCorrect == Spec => []TypeOK
<1>1. TypeInv => TypeOK
  BY DEF TypeInv
<1> QED
  BY <1>1, TypeInduction, PTL DEF Spec, SafetySpec

-----------------------------------------------------------------------------
(* The bound on the requests of a call, under any schedule of the calls    *)

\* Each hop has used up at most MaxPolls + 1 requests, the present one as
\* many as attempts says, and a call that is not under way has made none.
Accounted ==
    \A c \in Call :
        /\ requests[c] <= depth[c] * (MaxPolls + 1) + attempts[c]
        /\ pc[c] = "waiting" => attempts[c] = polls[c] + 1
        /\ pc[c] \in {"idle", "fetching", "done"} => requests[c] = 0

\* Making one more hop is within the account of the hops before it.
LEMMA OneMoreHop ==
    ASSUME NEW r \in Nat, NEW d \in Nat, NEW a \in 0 .. MaxPolls + 1,
           r <= d * (MaxPolls + 1) + a
    PROVE  r + 1 <= (d + 1) * (MaxPolls + 1) + 1
<1> DEFINE k == MaxPolls + 1
<1>1. k \in Nat /\ d * k \in Nat /\ (d + 1) * k = d * k + k
  BY BoundAssumption
<1> QED
  BY <1>1, BoundAssumption

LEMMA FinishAccounted ==
    ASSUME TypeInv, Accounted, NEW c \in Call, NEW outcome, Finish(c, outcome)
    PROVE  Accounted'
<1>1. 0 <= 0 * (MaxPolls + 1) + 0
  BY BoundAssumption
<1> QED
  BY <1>1 DEF TypeInv, FramesOK, Accounted, Finish

LEMMA ContactAccounted ==
    ASSUME TypeInv, Accounted, NEW c \in Call, NEW card, NEW d \in Nat,
           requests[c] + 1 <= d * (MaxPolls + 1) + 1, Contact(c, card, d)
    PROVE  Accounted'
<1>1. CASE Connect(c, card, d)
  BY <1>1 DEF TypeInv, FramesOK, Accounted, Connect
<1> QED
  BY <1>1, FinishAccounted DEF Contact

LEMMA AccountInduction == SafetySpec => []Accounted
<1>1. Init => Accounted
  <2>1. 0 <= 0 * (MaxPolls + 1) + 0
    BY BoundAssumption
  <2> QED
    BY <2>1 DEF Init, Accounted
<1>2. TypeInv /\ Accounted /\ [Next]_vars => Accounted'
  <2> SUFFICES ASSUME TypeInv, Accounted, [Next]_vars PROVE Accounted'
    OBVIOUS
  <2>0. ASSUME NEW c \in Call
        PROVE  /\ requests[c] \in Nat /\ depth[c] \in Nat /\ polls[c] \in Nat
               /\ attempts[c] \in 0 .. MaxPolls + 1
               /\ requests[c] + 1 <= (depth[c] + 1) * (MaxPolls + 1) + 1
    <3>1. /\ requests[c] \in Nat /\ depth[c] \in Nat /\ polls[c] \in Nat
          /\ attempts[c] \in 0 .. MaxPolls + 1
      BY <2>0, BoundAssumption DEF TypeInv, FramesOK
    <3> QED
      BY <2>0, <3>1, OneMoreHop DEF Accounted
  <2>a. ASSUME NEW c \in Call, pc[c] \in {"idle", "fetching"}
        PROVE  requests[c] + 1 <= 0 * (MaxPolls + 1) + 1
    BY <2>a, BoundAssumption DEF Accounted
  <2>1. ASSUME NEW c \in Call, Start(c) PROVE Accounted'
    <3>1. CASE current_card = NoCard
      BY <2>1, <3>1 DEF Start, TypeInv, FramesOK, Accounted
    <3>2. CASE Contact(c, current_card, 0)
      BY <2>1, <2>a, <3>2, ContactAccounted DEF Start
    <3> QED
      BY <2>1, <3>1, <3>2 DEF Start
  <2>2. ASSUME NEW c \in Call, FetchReturns(c) PROVE Accounted'
    <3>1. CASE pc[c] = "fetching" /\ Contact(c, InitialCard, 0)
      BY <2>a, <3>1, ContactAccounted
    <3>2. CASE Contact(c, InitialCard, depth[c] + 1)
      BY <2>0, <3>2, ContactAccounted
    <3> QED
      BY <2>2, <3>1, <3>2 DEF FetchReturns
  <2>3. ASSUME NEW c \in Call, FetchFails(c) \/ RequestFails(c) PROVE Accounted'
    BY <2>3, FinishAccounted DEF FetchFails, RequestFails
  <2>4. ASSUME NEW c \in Call, NEW task \in Task, Receive(c, task)
        PROVE  Accounted'
    <3>1. CASE Poll(c)
      <4>1. /\ requests[c] + 1 <= depth[c] * (MaxPolls + 1) + (attempts[c] + 1)
            /\ attempts[c] + 1 = (polls[c] + 1) + 1
        <5>1. depth[c] * (MaxPolls + 1) \in Nat
          BY <2>0, BoundAssumption
        <5> QED
          BY <2>0, <2>4, <5>1, BoundAssumption DEF Accounted, Receive
      <4> QED
        BY <2>4, <3>1, <4>1 DEF Receive, Poll, TypeInv, FramesOK, Accounted
    <3>2. CASE Redirect(c, task.card)
      BY <2>0, <3>2, ContactAccounted, FinishAccounted DEF Redirect, Refuse
    <3>3. CASE Exclude(c, Name[current_card])
      BY <2>4, <3>3 DEF Receive, Exclude, TypeInv, FramesOK, Accounted
    <3> QED
      BY <2>4, <3>1, <3>2, <3>3, FinishAccounted DEF Receive, TimeOut, Rejection
  <2>5. CASE UNCHANGED vars
    BY <2>5 DEF Accounted, vars, control, history
  <2> QED
    BY <2>1, <2>2, <2>3, <2>4, <2>5 DEF Next, Step, Finished
<1> QED
  BY <1>1, <1>2, TypeInduction, PTL DEF SafetySpec

\* RequestsBounded needs no fairness.
LEMMA Requests == SafetySpec => []RequestsBounded
<1>1. TypeInv /\ Accounted => RequestsBounded
  <2> SUFFICES ASSUME TypeInv, Accounted, NEW c \in Call
               PROVE  requests[c] <= (MaxDepth + 1) * (MaxPolls + 1)
    BY DEF RequestsBounded
  <2>1. /\ requests[c] \in Nat /\ depth[c] \in 0 .. MaxDepth
        /\ attempts[c] \in 0 .. MaxPolls + 1
        /\ requests[c] <= depth[c] * (MaxPolls + 1) + attempts[c]
    BY DEF TypeInv, FramesOK, Accounted
  <2>2. /\ depth[c] * (MaxPolls + 1) <= MaxDepth * (MaxPolls + 1)
        /\ depth[c] * (MaxPolls + 1) \in Nat
        /\ MaxDepth * (MaxPolls + 1) \in Nat
        /\ (MaxDepth + 1) * (MaxPolls + 1) = MaxDepth * (MaxPolls + 1) + (MaxPolls + 1)
    BY <2>1, BoundAssumption
  <2> QED
    BY <2>1, <2>2, BoundAssumption
<1> QED
  BY <1>1, TypeInduction, AccountInduction, PTL

\* RequestsBounded: however the agents answer, and however the calls that
\* share current_card interleave, a call makes at most MaxDepth + 1 hops of
\* MaxPolls + 1 requests (client.py:190-200 inside client.py:301-345).
THEOREM RequestsAreBounded == Spec => []RequestsBounded
  BY Requests, PTL DEF Spec, SafetySpec

\* TimeoutOnlyAfterLimit: A2ATimeoutError is raised after exactly max_polls
\* polls and reports their number (client.py:190-200).
THEOREM TimeoutIsHonest == Spec => TimeoutOnlyAfterLimit
<1>1. TypeInv /\ Accounted /\ [Next]_vars
        => [\A c \in Call : result[c] # "timeout" /\ result'[c] = "timeout"
                => polls[c] = MaxPolls /\ attempts[c] - 1 = polls[c]]_vars
  <2> SUFFICES ASSUME TypeInv, Accounted, Next, NEW o \in Call,
                      result[o] # "timeout", result'[o] = "timeout"
               PROVE  polls[o] = MaxPolls /\ attempts[o] - 1 = polls[o]
    OBVIOUS
  <2>1. ASSUME NEW c \in Call, NEW outcome, Finish(c, outcome)
        PROVE  o = c /\ outcome = "timeout"
    BY <2>1 DEF Finish, TypeInv, FramesOK
  <2>2. ASSUME NEW c \in Call, NEW card, NEW d, Contact(c, card, d) PROVE FALSE
    BY <2>1, <2>2 DEF Contact, Connect
  <2>3. ASSUME NEW c \in Call, Start(c) \/ FetchReturns(c) \/ FetchFails(c)
                                \/ RequestFails(c)
        PROVE  FALSE
    BY <2>1, <2>2, <2>3 DEF Start, FetchReturns, FetchFails, RequestFails
  <2>4. ASSUME NEW c \in Call, NEW task \in Task, Receive(c, task)
        PROVE  polls[o] = MaxPolls /\ attempts[o] - 1 = polls[o]
    <3>1. CASE TimeOut(c)
      <4>1. o = c /\ pc[c] = "waiting" /\ attempts[c] > MaxPolls
        BY <2>1, <2>4, <3>1 DEF TimeOut, Receive
      <4>2. attempts[c] \in 0 .. MaxPolls + 1 /\ polls[c] \in Nat
        BY DEF TypeInv, FramesOK
      <4>3. attempts[c] = polls[c] + 1
        BY <4>1 DEF Accounted
      <4> QED
        BY <4>1, <4>2, <4>3, BoundAssumption
    <3>2. CASE Poll(c) \/ \E card : Redirect(c, card)
      BY <2>1, <2>2, <3>2 DEF Poll, Redirect, Refuse
    <3>3. CASE Rejection(c)
      BY <2>1, <3>3 DEF Rejection, Exclude
    <3>4. ASSUME NEW verdict \in FinalVerdict, Finish(c, verdict) PROVE FALSE
      BY <2>1, <3>4 DEF FinalVerdict
    <3> QED
      BY <2>4, <3>1, <3>2, <3>3, <3>4 DEF Receive
  <2> QED
    BY <2>3, <2>4 DEF Next, Step, Finished, vars, control
<1> QED
  BY <1>1, TypeInduction, AccountInduction, PTL DEF Spec, SafetySpec, TimeoutOnlyAfterLimit

-----------------------------------------------------------------------------
(* The steps of a call, under any schedule of the calls                    *)

\* The steps of the hops that are left, by the hops made so far.
LEMMA HopsAhead ==
    ASSUME NEW d \in 0 .. MaxDepth
    PROVE  /\ (MaxDepth - d) * (MaxPolls + 3) \in Nat
           /\ (MaxDepth - d) * (MaxPolls + 3) <= MaxDepth * (MaxPolls + 3)
           /\ (MaxDepth + 1) * (MaxPolls + 3) = MaxDepth * (MaxPolls + 3) + (MaxPolls + 3)
           /\ d + 1 <= MaxDepth =>
                (MaxDepth - d) * (MaxPolls + 3)
                    = (MaxDepth - (d + 1)) * (MaxPolls + 3) + (MaxPolls + 3)
<1> DEFINE hop == MaxPolls + 3
<1>1. hop \in Nat /\ MaxDepth \in Nat
  BY BoundAssumption
<1> HIDE DEF hop
<1>2. /\ (MaxDepth - d) * hop \in Nat
      /\ (MaxDepth - d) * hop <= MaxDepth * hop
      /\ (MaxDepth + 1) * hop = MaxDepth * hop + hop
      /\ (MaxDepth - d) * hop = (MaxDepth - (d + 1)) * hop + hop
  BY <1>1
<1> QED
  BY <1>2 DEF hop

\* The budget is never overdrawn, and used up only when the call has ended.
LEMMA BudgetKnown ==
    ASSUME TypeInv, Accounted, NEW c \in Call
    PROVE  /\ StepsLeft(c) \in Nat
           /\ pc[c] # "done" => StepsLeft(c) > 0
<1>1. depth[c] \in 0 .. MaxDepth /\ attempts[c] \in 0 .. MaxPolls + 1
  BY DEF TypeInv, FramesOK
<1>2. pc[c] \in {"idle", "fetching", "waiting", "refetching", "done"}
  BY DEF TypeInv, FramesOK
<1>3. /\ (MaxDepth - depth[c]) * (MaxPolls + 3) \in Nat
      /\ (MaxDepth + 1) * (MaxPolls + 3) \in Nat
  <2>1. MaxDepth * (MaxPolls + 3) \in Nat
    BY BoundAssumption
  <2> QED
    BY <1>1, <2>1, HopsAhead, BoundAssumption
<1> QED
  BY <1>1, <1>2, <1>3, BoundAssumption DEF StepsLeft

\* A call that ends has nothing left to do.
LEMMA FinishCounts ==
    ASSUME TypeInv, Accounted, NEW c \in Call, NEW outcome, Finish(c, outcome),
           pc[c] # "done"
    PROVE  StepsLeft(c)' < StepsLeft(c)
<1>1. StepsLeft(c)' = 0
  BY DEF StepsLeft, Finish, TypeInv, FramesOK
<1> QED
  BY <1>1, BudgetKnown

\* A call that makes a hop, the first or one more, has fewer left.
LEMMA ContactCounts ==
    ASSUME TypeInv, Accounted, NEW c \in Call, NEW card, NEW d, Contact(c, card, d),
           \/ pc[c] \in {"idle", "fetching"} /\ d = 0
           \/ pc[c] \in {"waiting", "refetching"} /\ d = depth[c] + 1
    PROVE  StepsLeft(c)' < StepsLeft(c)
<1>1. /\ depth[c] \in 0 .. MaxDepth /\ attempts[c] \in 0 .. MaxPolls + 1
      /\ pc \in [Call -> {"idle", "fetching", "waiting", "refetching", "done"}]
      /\ depth \in [Call -> 0 .. MaxDepth] /\ attempts \in [Call -> 0 .. MaxPolls + 1]
  BY DEF TypeInv, FramesOK
<1>2. CASE d <= MaxDepth /\ Connect(c, card, d)
  <2>1. StepsLeft(c)' = (MaxDepth - d) * (MaxPolls + 3) + (MaxPolls + 3 - 1)
    BY <1>1, <1>2 DEF StepsLeft, Connect
  <2>2. CASE pc[c] \in {"idle", "fetching"} /\ d = 0
    <3>1. StepsLeft(c) >= (MaxDepth + 1) * (MaxPolls + 3) + 1
      <4>1. (MaxDepth + 1) * (MaxPolls + 3) \in Int
        BY BoundAssumption
      <4> QED
        BY <2>2, <4>1 DEF StepsLeft
    <3>2. /\ MaxDepth * (MaxPolls + 3) \in Nat
          /\ (MaxDepth + 1) * (MaxPolls + 3) = MaxDepth * (MaxPolls + 3) + (MaxPolls + 3)
      BY <1>1, HopsAhead, BoundAssumption
    <3>3. StepsLeft(c)' = MaxDepth * (MaxPolls + 3) + (MaxPolls + 3 - 1)
      <4>1. MaxDepth - 0 = MaxDepth
        BY BoundAssumption
      <4> QED
        BY <2>1, <2>2, <4>1
    <3>4. StepsLeft(c) \in Nat
      BY BudgetKnown
    <3> QED
      BY <3>1, <3>2, <3>3, <3>4, BoundAssumption
  <2>3. CASE pc[c] \in {"waiting", "refetching"} /\ d = depth[c] + 1
    <3>1. /\ (MaxDepth - d) * (MaxPolls + 3) \in Nat
          /\ (MaxDepth - depth[c]) * (MaxPolls + 3)
                = (MaxDepth - d) * (MaxPolls + 3) + (MaxPolls + 3)
      <4>1. d \in 0 .. MaxDepth
        BY <1>1, <1>2, <2>3
      <4> QED
        BY <1>1, <1>2, <2>3, <4>1, HopsAhead
    <3>2. StepsLeft(c) >= (MaxDepth - depth[c]) * (MaxPolls + 3) + 1
      <4>1. (MaxDepth - depth[c]) * (MaxPolls + 3) \in Nat
        BY <3>1, BoundAssumption
      <4> QED
        BY <1>1, <2>3, <4>1, BoundAssumption DEF StepsLeft
    <3>3. StepsLeft(c) \in Nat
      BY BudgetKnown
    <3> QED
      BY <2>1, <3>1, <3>2, <3>3, BoundAssumption
  <2> QED
    BY <2>2, <2>3
<1> QED
  BY <1>1, <1>2, FinishCounts DEF Contact

LEMMA StepsCount ==
    ASSUME TypeInv, Accounted, NEW c \in Call, Start(c) \/ Step(c)
    PROVE  StepsLeft(c)' < StepsLeft(c)
<1>1. /\ depth[c] \in 0 .. MaxDepth /\ attempts[c] \in 0 .. MaxPolls + 1
      /\ pc \in [Call -> {"idle", "fetching", "waiting", "refetching", "done"}]
      /\ attempts \in [Call -> 0 .. MaxPolls + 1]
      /\ (MaxDepth - depth[c]) * (MaxPolls + 3) \in Nat
  BY HopsAhead DEF TypeInv, FramesOK
<1>2. CASE Start(c)
  <2>1. CASE pc' = [pc EXCEPT ![c] = "fetching"]
    <3>1. (MaxDepth + 1) * (MaxPolls + 3) \in Int
      BY BoundAssumption
    <3>2. pc[c] = "idle" /\ pc'[c] = "fetching"
      BY <1>1, <1>2, <2>1 DEF Start
    <3> QED
      BY <3>1, <3>2 DEF StepsLeft
  <2>2. CASE Contact(c, current_card, 0)
    BY <1>2, <2>2, ContactCounts DEF Start
  <2> QED
    BY <1>2, <2>1, <2>2 DEF Start
<1>3. CASE FetchReturns(c)
  BY <1>3, ContactCounts DEF FetchReturns
<1>4. CASE FetchFails(c) \/ RequestFails(c)
  BY <1>4, FinishCounts DEF FetchFails, RequestFails
<1>5. ASSUME NEW task \in Task, Receive(c, task) PROVE StepsLeft(c)' < StepsLeft(c)
  <2>0. pc[c] = "waiting"
    BY <1>5 DEF Receive
  <2>1. CASE Poll(c)
    <3>1. pc'[c] = "waiting" /\ depth' = depth /\ attempts'[c] = attempts[c] + 1
      BY <1>1, <2>0, <2>1 DEF Poll
    <3> QED
      BY <1>1, <2>0, <3>1, BoundAssumption DEF StepsLeft
  <2>2. CASE Redirect(c, task.card)
    BY <2>0, <2>2, ContactCounts, FinishCounts DEF Redirect, Refuse
  <2>3. CASE Exclude(c, Name[current_card])
    <3>1. pc'[c] = "refetching" /\ depth' = depth
      BY <1>1, <2>3 DEF Exclude
    <3> QED
      BY <1>1, <2>0, <3>1, BoundAssumption DEF StepsLeft
  <2> QED
    BY <1>5, <2>0, <2>1, <2>2, <2>3, FinishCounts DEF Receive, TimeOut, Rejection
<1> QED
  BY <1>2, <1>3, <1>4, <1>5 DEF Step

\* The steps of one call take nothing from another's budget.
LEMMA OthersKeepBudget ==
    ASSUME TypeInv, NEW c \in Call, Start(c) \/ Step(c), NEW o \in Call \ {c}
    PROVE  StepsLeft(o)' = StepsLeft(o)
<1>1. ASSUME pc'[o] = pc[o], attempts'[o] = attempts[o], depth'[o] = depth[o]
      PROVE  StepsLeft(o)' = StepsLeft(o)
  BY <1>1 DEF StepsLeft
<1>2. ASSUME NEW outcome, Finish(c, outcome) PROVE StepsLeft(o)' = StepsLeft(o)
  BY <1>1, <1>2 DEF Finish, TypeInv, FramesOK
<1>3. ASSUME NEW card, NEW d, Contact(c, card, d) PROVE StepsLeft(o)' = StepsLeft(o)
  <2>1. CASE Connect(c, card, d)
    BY <1>1, <2>1 DEF Connect, TypeInv, FramesOK
  <2> QED
    BY <1>2, <1>3, <2>1 DEF Contact
<1>4. CASE Start(c)
  BY <1>1, <1>3, <1>4 DEF Start, TypeInv, FramesOK
<1>5. ASSUME NEW task \in Task, Receive(c, task) PROVE StepsLeft(o)' = StepsLeft(o)
  <2>1. CASE Poll(c)
    BY <1>1, <2>1 DEF Poll, TypeInv, FramesOK
  <2>2. CASE Exclude(c, Name[current_card])
    BY <1>1, <2>2 DEF Exclude, TypeInv, FramesOK
  <2> QED
    BY <1>2, <1>3, <1>5, <2>1, <2>2
    DEF Receive, TimeOut, Redirect, Refuse, Rejection
<1> QED
  BY <1>2, <1>3, <1>4, <1>5 DEF Step, FetchReturns, FetchFails, RequestFails

LEMMA Steps == SafetySpec => EveryStepCounts
<1>1. TypeInv /\ Accounted /\ [Next]_vars
        => [\E c \in Call : /\ StepsLeft(c)' < StepsLeft(c)
                            /\ \A o \in Call \ {c} : StepsLeft(o)' = StepsLeft(o)]_vars
  BY StepsCount, OthersKeepBudget DEF Next, Finished
<1> QED
  BY <1>1, TypeInduction, AccountInduction, PTL DEF SafetySpec, EveryStepCounts

\* A call always has a budget of steps, which is used up when it has ended at
\* the latest (client.py:301-345).
LEMMA Budget == SafetySpec => [](\A c \in Call : StepsLeft(c) \in Nat)
<1>1. TypeInv /\ Accounted => \A c \in Call : StepsLeft(c) \in Nat
  BY BudgetKnown
<1> QED
  BY <1>1, TypeInduction, AccountInduction, PTL

\* EveryStepCounts: every step of the client uses up some of the budget of one
\* call and nothing of any other's, so that no calls, however they interleave,
\* go on for ever; with fairness, which is left to TLC, each of them ends
\* (client.py:190-200 inside client.py:301-345).
THEOREM StepsAreBounded ==
    Spec => EveryStepCounts /\ [](\A c \in Call : StepsLeft(c) \in Nat)
  BY Steps, Budget, PTL DEF Spec, SafetySpec

-----------------------------------------------------------------------------
(* A client whose caller awaits each call before it makes the next one     *)

Busy(c) == pc[c] \in {"fetching", "waiting", "refetching"}

\* With one call at a time, current_card is the card of its connection; it
\* holds the names of its rejecters, and its agent is not one of them.
OneAtATime ==
    /\ \A c, o \in Call : Busy(c) /\ Busy(o) => c = o
    /\ \A c \in Call : pc[c] \in {"waiting", "refetching"}
                            => conn[c] = current_card
    /\ \A c \in Call : pc[c] = "waiting"
                            => conn[c] = InitialCard \/ Name[conn[c]] \notin rejected[c]
    /\ \A c \in Call : pc[c] \in {"idle", "fetching", "done"}
                            => rejected[c] = {} /\ rejecters[c] = {}
    /\ RejectedIsAccurate

LEMMA FinishAlone ==
    ASSUME TypeInv, OneAtATime, NEW c \in Call, Busy(c) \/ \A o \in Call : ~ Busy(o),
           NEW outcome, Finish(c, outcome)
    PROVE  OneAtATime'
<1>1. \A o \in Call : o # c => ~ Busy(o)
  BY DEF OneAtATime
<1>2. \A o \in Call : pc'[o] \in {"idle", "done"}
  BY <1>1 DEF Finish, TypeInv, FramesOK, Busy
<1>3. \A o \in Call : rejected'[o] = {} /\ rejecters'[o] = {}
  BY <1>1 DEF Finish, TypeInv, FramesOK, OneAtATime, Busy
<1> QED
  BY <1>2, <1>3 DEF OneAtATime, RejectedIsAccurate, Busy

LEMMA ContactAlone ==
    ASSUME TypeInv, OneAtATime, NEW c \in Call, Busy(c) \/ \A o \in Call : ~ Busy(o),
           NEW card, NEW d, Contact(c, card, d), current_card' = card,
           card = InitialCard \/ Name[card] \notin rejected[c]
    PROVE  OneAtATime'
<1>1. CASE Connect(c, card, d)
  <2>1. \A o \in Call : o # c => pc'[o] \in {"idle", "done"}
    BY <1>1 DEF Connect, TypeInv, FramesOK, OneAtATime, Busy
  <2>2. pc'[c] = "waiting" /\ conn'[c] = card
    BY <1>1 DEF Connect, TypeInv, FramesOK
  <2>3. rejected' = rejected /\ rejecters' = rejecters
    BY <1>1 DEF Connect
  <2>4. RejectedIsAccurate'
    BY <2>3 DEF OneAtATime, RejectedIsAccurate
  <2>5. \A o \in Call : o # c => rejected[o] = {} /\ rejecters[o] = {}
    BY DEF OneAtATime, Busy, TypeInv, FramesOK
  <2> QED
    BY <2>1, <2>2, <2>3, <2>4, <2>5 DEF OneAtATime, Busy
<1> QED
  BY <1>1, FinishAlone DEF Contact

LEMMA SequentialInduction == ASSUME Sequential PROVE SafetySpec => []OneAtATime
<1>1. Init => OneAtATime
  BY DEF Init, OneAtATime, RejectedIsAccurate, Busy
<1>2. TypeInv /\ OneAtATime /\ [Next]_vars => OneAtATime'
  <2> SUFFICES ASSUME TypeInv, OneAtATime, [Next]_vars PROVE OneAtATime'
    OBVIOUS
  <2>1. ASSUME NEW c \in Call, Start(c) PROVE OneAtATime'
    <3>1. \A o \in Call : ~ Busy(o)
      BY <2>1 DEF Start, Busy
    <3>2. CASE current_card = NoCard
      BY <2>1, <3>1, <3>2
      DEF Start, TypeInv, FramesOK, OneAtATime, RejectedIsAccurate, Busy
    <3>3. CASE Contact(c, current_card, 0)
      <4>1. rejected[c] = {}
        BY <2>1 DEF Start, OneAtATime
      <4> QED
        BY <2>1, <3>1, <3>3, <4>1, ContactAlone DEF Start
    <3> QED
      BY <2>1, <3>2, <3>3 DEF Start
  <2>2. ASSUME NEW c \in Call, FetchReturns(c) PROVE OneAtATime'
    <3>1. Busy(c)
      BY <2>2 DEF FetchReturns, Busy
    <3> QED
      BY <2>2, <3>1, ContactAlone DEF FetchReturns
  <2>3. ASSUME NEW c \in Call, FetchFails(c) \/ RequestFails(c) PROVE OneAtATime'
    BY <2>3, FinishAlone DEF FetchFails, RequestFails, Busy
  <2>4. ASSUME NEW c \in Call, NEW task \in Task, Receive(c, task)
        PROVE  OneAtATime'
    <3>0. pc[c] = "waiting" /\ Busy(c) /\ conn[c] = current_card
      BY <2>4 DEF Receive, Busy, OneAtATime
    <3>1. CASE Poll(c)
      BY <3>0, <3>1 DEF Poll, OneAtATime, RejectedIsAccurate, Busy
    <3>2. CASE Redirect(c, task.card)
      BY <3>0, <3>2, ContactAlone, FinishAlone DEF Redirect, Refuse
    <3>3. CASE Exclude(c, Name[current_card]) /\ UNCHANGED current_card
      <4>1. pc'[c] = "refetching" /\ \A o \in Call : o # c => pc'[o] = pc[o]
        BY <3>3 DEF Exclude, TypeInv, FramesOK
      <4>2. /\ rejected'[c] = rejected[c] \cup {Name[conn[c]]}
            /\ rejecters'[c] = rejecters[c] \cup {conn[c]}
            /\ \A o \in Call : o # c => rejected'[o] = rejected[o]
                                        /\ rejecters'[o] = rejecters[o]
        BY <3>0, <3>3 DEF Exclude, TypeInv, FramesOK
      <4>3. RejectedIsAccurate'
        BY <4>2 DEF OneAtATime, RejectedIsAccurate
      <4> QED
        BY <3>0, <3>3, <4>1, <4>2, <4>3 DEF Exclude, OneAtATime, Busy
    <3> QED
      BY <2>4, <3>0, <3>1, <3>2, <3>3, FinishAlone DEF Receive, TimeOut, Rejection
  <2>5. CASE UNCHANGED vars
    BY <2>5 DEF OneAtATime, RejectedIsAccurate, Busy, vars, control, history
  <2> QED
    BY <2>1, <2>2, <2>3, <2>4, <2>5 DEF Next, Step, Finished
<1> QED
  BY <1>1, <1>2, TypeInduction, PTL DEF SafetySpec

\* RejectedIsAccurate: a client used by one call at a time tells the router
\* to exclude exactly the agents that rejected the call (client.py:334-339).
THEOREM RejectionsAreHonoured ==
    ASSUME Sequential
    PROVE  Spec => []RejectedIsAccurate
<1>1. OneAtATime => RejectedIsAccurate
  BY DEF OneAtATime
<1> QED
  BY <1>1, SequentialInduction, PTL DEF Spec, SafetySpec

\* NeverBackToRejecter: such a client never goes back to an agent that has
\* rejected the call, but for the initial agent (client.py:320-344).
THEOREM RejectersAreLeft ==
    ASSUME Sequential
    PROVE  Spec => []NeverBackToRejecter
<1>1. OneAtATime => NeverBackToRejecter
  BY DEF OneAtATime, RejectedIsAccurate, NeverBackToRejecter
<1> QED
  BY <1>1, SequentialInduction, PTL DEF Spec, SafetySpec

\* With one call at a time, the card that the end of a call reads is that of
\* the agent the call talks to.
LEMMA CardIsOwn ==
    ASSUME Sequential
    PROVE  SafetySpec => SelfRedirectIsReal /\ ResponderIsKept
<1>1. TypeInv /\ OneAtATime /\ [Next]_vars
        => /\ [\A c \in Call :
                   result[c] # "self_redirect" /\ result'[c] = "self_redirect"
                   => Url[refused'[c]] = Url[conn[c]]]_vars
           /\ [\A c \in Call : result[c] # "reply" /\ result'[c] = "reply"
                   => current_card' = conn[c]]_vars
  <2> SUFFICES ASSUME TypeInv, OneAtATime, Next, NEW o \in Call,
                      result[o] # result'[o]
               PROVE  /\ result'[o] = "self_redirect" => Url[refused'[o]] = Url[conn[o]]
                      /\ result'[o] = "reply" => current_card' = conn[o]
    OBVIOUS
  <2>1. ASSUME NEW c \in Call, NEW outcome, Finish(c, outcome)
        PROVE  o = c /\ result'[o] = outcome
    BY <2>1 DEF Finish, TypeInv, FramesOK
  <2>2. ASSUME NEW c \in Call, NEW card, NEW d, Contact(c, card, d)
        PROVE  result'[o] \in {"too_deep", "unusable_card"}
    BY <2>1, <2>2 DEF Contact, Connect
  <2>3. ASSUME NEW c \in Call, Start(c) \/ FetchReturns(c) \/ FetchFails(c)
                                \/ RequestFails(c)
        PROVE  result'[o] \notin {"self_redirect", "reply"}
    BY <2>1, <2>2, <2>3 DEF Start, FetchReturns, FetchFails, RequestFails
  <2>4. ASSUME NEW c \in Call, NEW task \in Task, Receive(c, task)
        PROVE  /\ result'[o] = "self_redirect" => Url[refused'[o]] = Url[conn[o]]
               /\ result'[o] = "reply" => current_card' = conn[o]
    <3>0. conn[c] = current_card
      BY <2>4 DEF Receive, OneAtATime
    <3>1. CASE Redirect(c, task.card)
      <4>1. ASSUME NEW outcome, Refuse(c, task.card, outcome)
            PROVE  o = c /\ result'[o] = outcome /\ refused'[o] = task.card
        BY <2>1, <4>1 DEF Refuse, TypeInv, TypeOK
      <4> QED
        BY <2>2, <3>0, <3>1, <4>1 DEF Redirect
    <3>2. ASSUME NEW verdict \in FinalVerdict, Finish(c, verdict),
                 UNCHANGED current_card
          PROVE  /\ result'[o] # "self_redirect"
                 /\ result'[o] = "reply" => current_card' = conn[o]
      BY <2>1, <3>0, <3>2
    <3> QED
      BY <2>1, <2>4, <3>1, <3>2 DEF Receive, Poll, TimeOut, Rejection, Exclude
  <2> QED
    BY <2>3, <2>4 DEF Next, Step, Finished, vars, control
<1> QED
  BY <1>1, TypeInduction, SequentialInduction, PTL
  DEF SafetySpec, SelfRedirectIsReal, ResponderIsKept

\* SelfRedirectIsReal: with one call at a time, an agent blamed for redirecting
\* to itself did so (client.py:321-322).
THEOREM BlameIsReal == ASSUME Sequential PROVE Spec => SelfRedirectIsReal
  BY CardIsOwn, PTL DEF Spec, SafetySpec

\* ResponderIsKept: with one call at a time, a reply leaves the client at the
\* agent that gave it (client.py:328, 349).
THEOREM ResponderStays == ASSUME Sequential PROVE Spec => ResponderIsKept
  BY CardIsOwn, PTL DEF Spec, SafetySpec
=============================================================================
