------------------------ MODULE RegistryLeaseProofs ------------------------
(* What RegistryLease guarantees for every number of processes and for all *)
(* lengths of the interval, the lease, the time-out and the clock skews.   *)
EXTENDS RegistryLease, FiniteSetTheorems, TLAPS

\* TypeOK, and the awaits that timer measures.
TypeInv ==
    /\ TypeOK
    /\ \A i \in Inst : /\ Calling(i) => timer[i] <= CallTimeout
                       /\ beat[i] = "sleep" => timer[i] <= Interval

-----------------------------------------------------------------------------
(* Lemmas on the operators                                                 *)

LEMMA LeaseTyped == \A i \in Inst : Lease(i) \in Nat /\ Lease(i) < Horizon
  BY TimeAssumption DEF Lease

LEMMA TickedTyped ==
    \A t \in Moment : /\ Ticked(t) \in Moment
                      /\ t >= 0 => Ticked(t) = t - 1
                      /\ t < 0 => Ticked(t) = -1
  BY TimeAssumption DEF Moment, Ticked, Max

\* A request stays one while it is on its way.
LEMMA AgedRequest ==
    ASSUME NEW r \in Request
    PROVE  /\ [r EXCEPT !.left = Ticked(@)] \in Request
           /\ [r EXCEPT !.left = Ticked(@)].inst = r.inst
           /\ [r EXCEPT !.left = Ticked(@)].left = Ticked(r.left)
  BY TickedTyped DEF Request

LEMMA PendingTyped ==
    ASSUME TypeOK, NEW i \in Inst
    PROVE  /\ Pending(i) \in Request /\ Pending(i).inst = i
           /\ Pending(i).left = offer[i]
  BY DEF TypeOK, Pending, Request

\* What an endpoint does: it concerns one name, never removes a card, and
\* leaves the expire_at of the request behind if it leaves an item.
LEMMA EndpointEffect ==
    ASSUME TypeOK, NEW r \in Request, Endpoint(r)
    PROVE  /\ stored' \in [AgentName -> Inst \cup {NoCard, Absent}]
           /\ left' \in [AgentName -> Moment]
           /\ \A n \in AgentName : n # Name[r.inst] =>
                stored'[n] = stored[n] /\ left'[n] = left[n]
           /\ \A n \in AgentName : stored[n] \in Inst => stored'[n] \in Inst
           /\ stored'[Name[r.inst]] # Absent => left'[Name[r.inst]] = r.left
<1>1. r.inst \in Inst /\ Name[r.inst] \in AgentName /\ r.left \in Moment
  BY InstAssumption DEF Request
<1> QED
  BY <1>1, InstAssumption DEF TypeOK, Endpoint, PutCard, UpdateExpiry, store

\* A request that is given up belongs to its sender.
LEMMA AbandonEffect ==
    ASSUME TypeOK, NEW i \in Inst, Abandon(i)
    PROVE  /\ stray' \subseteq Request
           /\ \A r \in stray' : r \in stray \/ (Calling(i) /\ r = Pending(i))
  BY PendingTyped DEF TypeOK, Abandon

\* What is forgotten, kept or counted is typed.
LEMMA HistoryTyped ==
    ASSUME TypeOK
    PROVE  /\ \A t \in Nat : Counted(t) \in 0 .. Horizon
           /\ \A gone : Forget(gone) =>
                /\ keeper' \in [AgentName -> Inst \cup {Absent}]
                /\ spent' \in [AgentName -> 0 .. Horizon]
           /\ \A n \in AgentName, i \in Inst, t \in Nat : Keep(n, i, t) =>
                /\ keeper' \in [AgentName -> Inst \cup {Absent}]
                /\ spent' \in [AgentName -> 0 .. Horizon]
<1>1. \A t \in Nat : Counted(t) \in 0 .. Horizon
  BY TimeAssumption DEF Counted, Min
<1>2. ASSUME NEW gone, Forget(gone)
      PROVE  /\ keeper' \in [AgentName -> Inst \cup {Absent}]
             /\ spent' \in [AgentName -> 0 .. Horizon]
  BY <1>2, TimeAssumption DEF Forget, TypeOK
<1>3. ASSUME NEW n \in AgentName, NEW i \in Inst, NEW t \in Nat, Keep(n, i, t)
      PROVE  /\ keeper' \in [AgentName -> Inst \cup {Absent}]
             /\ spent' \in [AgentName -> 0 .. Horizon]
  BY <1>1, <1>2, <1>3 DEF Keep, TypeOK
<1> QED
  BY <1>1, <1>2, <1>3

-----------------------------------------------------------------------------
LEMMA TypeInduction == Spec => []TypeInv
<1> USE TimeAssumption, LeaseTyped
<1>1. Init => TypeInv
  BY DEF Init, TypeInv, TypeOK, Calling, Max, Moment
<1>2. TypeInv /\ [Next]_vars => TypeInv'
  <2> SUFFICES ASSUME TypeInv, [Next]_vars PROVE TypeInv'
    OBVIOUS
  <2>0. TypeOK
    BY DEF TypeInv
  <2>a. ASSUME NEW i \in Inst, NEW b \in {"put", "patch", "reput"}, Send(i, b)
        PROVE  /\ beat' \in [Inst -> {"down", "put", "patch", "reput", "sleep"}]
               /\ timer' \in [Inst -> 0 .. Max(CallTimeout, Interval)]
               /\ offer' \in [Inst -> Moment]
               /\ served' \in [Inst -> BOOLEAN]
               /\ \A j \in Inst : /\ Calling(j)' => timer'[j] <= CallTimeout
                                  /\ beat'[j] = "sleep" => timer'[j] <= Interval
    BY <2>a DEF Send, TypeInv, TypeOK, Calling, Max, Moment
  <2>b. ASSUME NEW i \in Inst, NEW b, NEW t,
               <<b, t>> \in {<<"sleep", Interval>>, <<"down", 0>>}, Leave(i, b, t)
        PROVE  /\ beat' \in [Inst -> {"down", "put", "patch", "reput", "sleep"}]
               /\ timer' \in [Inst -> 0 .. Max(CallTimeout, Interval)]
               /\ offer' \in [Inst -> Moment]
               /\ served' \in [Inst -> BOOLEAN]
               /\ \A j \in Inst : /\ Calling(j)' => timer'[j] <= CallTimeout
                                  /\ beat'[j] = "sleep" => timer'[j] <= Interval
    BY <2>b DEF Leave, TypeInv, TypeOK, Calling, Max, Moment
  <2>c. ASSUME UNCHANGED task
        PROVE  /\ beat' \in [Inst -> {"down", "put", "patch", "reput", "sleep"}]
               /\ timer' \in [Inst -> 0 .. Max(CallTimeout, Interval)]
               /\ offer' \in [Inst -> Moment]
               /\ served' \in [Inst -> BOOLEAN]
               /\ \A j \in Inst : /\ Calling(j)' => timer'[j] <= CallTimeout
                                  /\ beat'[j] = "sleep" => timer'[j] <= Interval
    BY <2>c DEF task, TypeInv, TypeOK, Calling
  <2>1. CASE Restart
    <3>1. /\ UNCHANGED <<driver, task, stray, since>> /\ Forget(AgentName)
          /\ stored' \in [AgentName -> Inst \cup {NoCard, Absent}]
          /\ left' \in [AgentName -> Moment]
      BY <2>1 DEF Restart, Moment
    <3> QED
      BY <2>0, <2>c, <3>1, HistoryTyped DEF TypeInv, TypeOK
  <2>2. ASSUME NEW n \in AgentName, Evict(n) PROVE TypeInv'
    <3>1. /\ UNCHANGED <<driver, left, task, stray, since>> /\ Forget({n})
          /\ stored' \in [AgentName -> Inst \cup {NoCard, Absent}]
      BY <2>0, <2>2 DEF Evict, TypeOK
    <3> QED
      BY <2>0, <2>c, <3>1, HistoryTyped DEF TypeInv, TypeOK
  <2>3. ASSUME NEW i \in Inst, Boot(i) PROVE TypeInv'
    <3>1. /\ UNCHANGED <<driver, stored, left, stray, keeper, spent>>
          /\ since' \in [Inst -> 0 .. Horizon]
      BY <2>3 DEF Boot, store, kept, TypeInv, TypeOK
    <3> QED
      BY <2>0, <2>3, <2>a, <3>1 DEF Boot, TypeInv, TypeOK
  <2>4. ASSUME NEW i \in Inst, Serve(i) PROVE TypeInv'
    <3>1. /\ stored' \in [AgentName -> Inst \cup {NoCard, Absent}]
          /\ left' \in [AgentName -> Moment]
      BY <2>0, <2>4, PendingTyped, EndpointEffect DEF Serve
    <3>2. CallTimeout - timer[i] \in Nat
      BY <2>4 DEF Serve, TypeInv, TypeOK, Max
    <3>3. Keep(Name[i], i, CallTimeout - timer[i])
      BY <2>4 DEF Serve
    <3>4. /\ keeper' \in [AgentName -> Inst \cup {Absent}]
          /\ spent' \in [AgentName -> 0 .. Horizon]
      BY <2>0, <3>2, <3>3, HistoryTyped, InstAssumption
    <3> QED
      BY <2>4, <3>1, <3>4 DEF Serve, TypeInv, TypeOK, Calling
  <2>5. ASSUME NEW i \in Inst, Return(i) PROVE TypeInv'
    <3>1. UNCHANGED <<driver, stored, left, stray, since, keeper, spent>>
      BY <2>5 DEF Return, store, history, kept
    <3> QED
      BY <2>0, <2>5, <2>a, <2>b, <3>1 DEF Return, TypeInv, TypeOK
  <2>6. ASSUME NEW i \in Inst, Raise(i) PROVE TypeInv'
    <3>1. /\ UNCHANGED <<driver, stored, left, since, keeper>>
          /\ stray' \subseteq Request
      BY <2>0, <2>6, AbandonEffect DEF Raise, store
    <3>2. spent' \in [AgentName -> 0 .. Horizon]
      <4>1. \A n \in AgentName : Counted(spent[n] + Interval) \in 0 .. Horizon
        BY <2>0, HistoryTyped DEF TypeOK
      <4> QED
        BY <2>0, <2>6, <4>1 DEF Raise, TypeOK
    <3> QED
      BY <2>0, <2>6, <2>a, <2>b, <3>1, <3>2 DEF Raise, TypeInv, TypeOK
  <2>7. ASSUME NEW i \in Inst, Wake(i) PROVE TypeInv'
    <3>1. UNCHANGED <<driver, stored, left, stray, since, keeper, spent>>
      BY <2>7 DEF Wake, store, history, kept
    <3> QED
      BY <2>0, <2>7, <2>a, <3>1 DEF Wake, TypeInv, TypeOK
  <2>8. ASSUME NEW i \in Inst, Stop(i) PROVE TypeInv'
    <3>1. /\ UNCHANGED <<driver, stored, left, since>>
          /\ stray' \subseteq Request
          /\ Forget({n \in AgentName : keeper[n] = i})
      BY <2>0, <2>8, AbandonEffect DEF Stop, store
    <3> QED
      BY <2>0, <2>8, <2>b, <3>1, HistoryTyped DEF Stop, TypeInv, TypeOK
  <2>9. CASE ServeStray
    <3>1. PICK r \in stray : /\ Endpoint(r) /\ stray' = stray \ {r}
                             /\ Forget({Name[r.inst]})
                             /\ UNCHANGED <<driver, task, since>>
      BY <2>9 DEF ServeStray
    <3>2. r \in Request
      BY <2>0, <3>1 DEF TypeOK
    <3> QED
      BY <2>0, <2>c, <3>1, <3>2, EndpointEffect, HistoryTyped
      DEF TypeInv, TypeOK
  <2>10. CASE Tick
    <3>1. left' \in [AgentName -> Moment] /\ offer' \in [Inst -> Moment]
      BY <2>0, <2>10, TickedTyped DEF Tick, TypeOK
    <3>2. stray' \subseteq Request
      BY <2>0, <2>10, AgedRequest DEF Tick, TypeOK
    <3>3. since' \in [Inst -> 0 .. Horizon] /\ spent' \in [AgentName -> 0 .. Horizon]
      <4>1. /\ \A i \in Inst : Counted(since[i] + 1) \in 0 .. Horizon
            /\ \A n \in AgentName : Counted(spent[n] + 1) \in 0 .. Horizon
        BY <2>0, HistoryTyped DEF TypeOK
      <4> QED
        BY <2>0, <2>10, <4>1 DEF Tick, TypeOK
    <3>4. /\ timer' \in [Inst -> 0 .. Max(CallTimeout, Interval)]
          /\ \A i \in Inst : timer'[i] <= timer[i]
      BY <2>0, <2>10 DEF Tick, TypeOK, Max
    <3>5. /\ UNCHANGED <<driver, stored, beat, served, keeper>>
          /\ \A i \in Inst : timer[i] \in Int /\ timer'[i] \in Int
      BY <2>0, <2>10, <3>4 DEF Tick, TypeOK, Max
    <3> QED
      BY <3>1, <3>2, <3>3, <3>4, <3>5 DEF TypeInv, TypeOK, Calling
  <2>11. CASE UNCHANGED vars
    BY <2>11, <2>c DEF TypeInv, TypeOK, vars, store, task, history, kept
  <2> QED
    BY <2>1, <2>2, <2>3, <2>4, <2>5, <2>6, <2>7, <2>8, <2>9, <2>10, <2>11 DEF Next
<1> QED
  BY <1>1, <1>2, PTL DEF Spec

\* TypeOK is an invariant of the registry and its heartbeats.
THEOREM TypeCorrect == Spec => []TypeOK
<1>1. TypeInv => TypeOK
  BY DEF TypeInv
<1> QED
  BY <1>1, TypeInduction, PTL

-----------------------------------------------------------------------------
(* No lease outlives its agent                                             *)

\* A running process was up just now, and no expire_at on its way is later
\* than the lease of its sender allows.
LeaseInv ==
    /\ \A i \in Inst : Up(i) => since[i] = 0 /\ offer[i] <= Lease(i)
    /\ \A r \in stray : r.left >= 0 => r.left + since[r.inst] <= Lease(r.inst)
    /\ LeaseBound

\* An endpoint that serves a request within its sender's lease keeps the bound.
LEMMA EndpointBound ==
    ASSUME TypeOK, LeaseBound, NEW r \in Request, Endpoint(r),
           r.left >= 0 => r.left + since[r.inst] <= Lease(r.inst),
           UNCHANGED since
    PROVE  LeaseBound'
<1>1. r.inst \in Inst
  BY DEF Request
<1> SUFFICES ASSUME NEW n \in AgentName, stored'[n] # Absent, left'[n] >= 0
             PROVE  \E i \in Inst : Name[i] = n /\ left'[n] + since[i] <= Lease(i)
  BY DEF LeaseBound, Lease
<1>2. CASE n = Name[r.inst]
  BY <1>1, <1>2, EndpointEffect
<1>3. CASE n # Name[r.inst]
  BY <1>3, EndpointEffect DEF LeaseBound
<1> QED
  BY <1>2, <1>3

\* Time shortens what is left by as much as it lengthens since.
LEMMA TickBound ==
    ASSUME NEW t \in Moment, NEW s \in 0 .. Horizon, NEW s2 \in 0 .. Horizon,
           NEW l \in Int, s2 <= s + 1, Ticked(t) >= 0, t >= 0 => t + s <= l
    PROVE  Ticked(t) + s2 <= l
  BY TickedTyped, TimeAssumption DEF Moment

LEMMA LeaseInduction == Spec => []LeaseInv
<1>1. Init => LeaseInv
  BY DEF Init, LeaseInv, LeaseBound, Up
<1>2. TypeInv /\ LeaseInv /\ [Next]_vars => LeaseInv'
  <2> SUFFICES ASSUME TypeInv, LeaseInv, [Next]_vars PROVE LeaseInv'
    OBVIOUS
  <2>0. TypeOK /\ LeaseBound
    BY DEF TypeInv, LeaseInv
  <2> USE LeaseTyped DEF Up
  <2>a. ASSUME UNCHANGED <<stored, left, since>> PROVE LeaseBound'
    BY <2>0, <2>a DEF LeaseBound, Lease
  <2>b. ASSUME UNCHANGED <<stray, since>>
        PROVE  (\A r \in stray : r.left >= 0
                    => r.left + since[r.inst] <= Lease(r.inst))'
    BY <2>b DEF LeaseInv, Lease
  <2>c. ASSUME NEW i \in Inst, Abandon(i), UNCHANGED since, Up(i)
        PROVE  (\A r \in stray : r.left >= 0
                    => r.left + since[r.inst] <= Lease(r.inst))'
    <3> SUFFICES ASSUME NEW r \in stray', r.left >= 0
                 PROVE  r.left + since[r.inst] <= Lease(r.inst)
      BY <2>c DEF Lease
    <3>1. CASE r \in stray
      BY <3>1 DEF LeaseInv
    <3>2. CASE r = Pending(i)
      <4>1. r.inst = i /\ r.left = offer[i] /\ since[i] = 0 /\ offer[i] <= Lease(i)
        BY <2>0, <2>c, <3>2, PendingTyped DEF LeaseInv
      <4> QED
        BY <2>0, <4>1 DEF TypeOK, Moment
    <3> QED
      BY <2>0, <2>c, <3>1, <3>2, AbandonEffect
  <2>d. ASSUME NEW i \in Inst, NEW b, Send(i, b) \/ (\E t : Leave(i, b, t)),
               UNCHANGED since, since[i] = 0
        PROVE  (\A j \in Inst : Up(j) => since[j] = 0 /\ offer[j] <= Lease(j))'
    BY <2>0, <2>d DEF Send, Leave, LeaseInv, TypeOK, Lease
  <2>1. CASE Restart
    BY <2>1 DEF Restart, LeaseInv, LeaseBound, task, Lease
  <2>2. ASSUME NEW n \in AgentName, Evict(n) PROVE LeaseInv'
    BY <2>0, <2>2 DEF Evict, LeaseInv, LeaseBound, TypeOK, task, Lease
  <2>3. ASSUME NEW i \in Inst, Boot(i) PROVE LeaseInv'
    <3>1. /\ since'[i] = 0 /\ \A j \in Inst : since'[j] <= since[j]
          /\ \A j \in Inst : since[j] \in Nat /\ since'[j] \in Nat
      BY <2>0, <2>3, TimeAssumption DEF Boot, TypeOK
    <3>2. (\A j \in Inst : Up(j) => since[j] = 0 /\ offer[j] <= Lease(j))'
      BY <2>0, <2>3, <3>1 DEF Boot, Send, LeaseInv, TypeOK, Lease
    <3>3. UNCHANGED <<stored, left, stray>>
      BY <2>3 DEF Boot, store
    <3>4. \A r \in stray : r.inst \in Inst /\ r.left \in Int
      BY <2>0 DEF TypeOK, Request, Moment
    <3>5. \A n \in AgentName : left[n] \in Int
      BY <2>0 DEF TypeOK, Moment
    <3>6. (\A r \in stray : r.left >= 0
                => r.left + since[r.inst] <= Lease(r.inst))'
      BY <3>1, <3>3, <3>4 DEF LeaseInv, Lease
    <3>7. LeaseBound'
      <4> SUFFICES ASSUME NEW n \in AgentName, stored[n] # Absent, left[n] >= 0
                   PROVE  \E j \in Inst : Name[j] = n /\ left[n] + since'[j] <= Lease(j)
        BY <3>3 DEF LeaseBound, Lease
      <4>1. PICK j \in Inst : Name[j] = n /\ left[n] + since[j] <= Lease(j)
        BY <2>0 DEF LeaseBound
      <4> QED
        BY <3>1, <3>5, <4>1
    <3> QED
      BY <3>2, <3>6, <3>7 DEF LeaseInv
  <2>4. ASSUME NEW i \in Inst, Serve(i) PROVE LeaseInv'
    <3>1. Calling(i) /\ Endpoint(Pending(i)) /\ UNCHANGED <<beat, offer, stray, since>>
      BY <2>4 DEF Serve
    <3>2. LeaseBound'
      <4>1. /\ Pending(i) \in Request /\ Pending(i).inst = i
            /\ Pending(i).left + since[i] <= Lease(i)
        <5>1. since[i] = 0 /\ offer[i] <= Lease(i) /\ offer[i] \in Int
          BY <2>0, <3>1 DEF LeaseInv, Calling, TypeOK, Moment
        <5> QED
          BY <2>0, <5>1, PendingTyped
      <4> QED
        BY <2>0, <3>1, <4>1, EndpointBound
    <3> QED
      BY <2>b, <3>1, <3>2 DEF LeaseInv, Lease
  <2>5. ASSUME NEW i \in Inst, Return(i) \/ Wake(i) PROVE LeaseInv'
    <3>1. UNCHANGED <<stored, left, stray, since>> /\ since[i] = 0
      BY <2>5 DEF Return, Wake, store, history, LeaseInv, Calling
    <3> QED
      BY <2>5, <2>a, <2>b, <2>d, <3>1 DEF Return, Wake, LeaseInv
  <2>6. ASSUME NEW i \in Inst, Raise(i) \/ Stop(i) PROVE LeaseInv'
    <3>1. /\ UNCHANGED <<stored, left, since>> /\ since[i] = 0
          /\ Up(i) /\ Abandon(i)
      BY <2>6 DEF Raise, Stop, store, LeaseInv, Calling
    <3> QED
      BY <2>6, <2>a, <2>c, <2>d, <3>1 DEF Raise, Stop, LeaseInv
  <2>7. CASE ServeStray
    <3>1. PICK r \in stray : Endpoint(r) /\ stray' = stray \ {r}
                             /\ UNCHANGED <<task, since>>
      BY <2>7 DEF ServeStray
    <3>2. r \in Request /\ UNCHANGED <<beat, offer, since>>
      BY <2>0, <3>1 DEF TypeOK, task
    <3>3. LeaseBound'
      BY <2>0, <3>1, <3>2, EndpointBound DEF LeaseInv
    <3> QED
      BY <3>1, <3>2, <3>3 DEF LeaseInv, Lease
  <2>8. CASE Tick
    <3>1. \A i \in Inst : /\ since[i] \in 0 .. Horizon /\ since'[i] \in 0 .. Horizon
                          /\ since'[i] <= since[i] + 1
                          /\ Up(i) => since'[i] = 0
      BY <2>0, <2>8, TimeAssumption DEF Tick, TypeOK, Counted, Min
    <3>2. (\A i \in Inst : Up(i) => since[i] = 0 /\ offer[i] <= Lease(i))'
      <4> SUFFICES ASSUME NEW i \in Inst, Up(i)
                   PROVE  since'[i] = 0 /\ offer'[i] <= Lease(i)
        BY <2>8 DEF Tick, Lease
      <4> QED
        BY <2>0, <2>8, <3>1, TickedTyped DEF Tick, LeaseInv, TypeOK, Moment
    <3>3. (\A r \in stray : r.left >= 0
                => r.left + since[r.inst] <= Lease(r.inst))'
      <4> SUFFICES ASSUME NEW r \in stray,
                          NEW q, q = [r EXCEPT !.left = Ticked(@)], q.left >= 0
                   PROVE  q.left + since'[q.inst] <= Lease(q.inst)
        BY <2>8 DEF Tick, Lease
      <4>1. r \in Request /\ r.inst \in Inst /\ r.left \in Moment
        BY <2>0 DEF TypeOK, Request
      <4>2. q.inst = r.inst /\ q.left = Ticked(r.left)
        BY <4>1, AgedRequest
      <4> QED
        BY <3>1, <4>1, <4>2, TickBound DEF LeaseInv
    <3>4. LeaseBound'
      <4> SUFFICES ASSUME NEW n \in AgentName, stored[n] # Absent,
                          Ticked(left[n]) >= 0
                   PROVE  \E i \in Inst : /\ Name[i] = n
                                          /\ Ticked(left[n]) + since'[i] <= Lease(i)
        BY <2>8 DEF Tick, LeaseBound, Lease
      <4>1. left[n] \in Moment /\ left[n] >= 0
        <5>1. left[n] \in Moment
          BY <2>0 DEF TypeOK
        <5> QED
          BY <5>1, TickedTyped DEF Moment
      <4>2. PICK i \in Inst : Name[i] = n /\ left[n] + since[i] <= Lease(i)
        BY <2>0, <4>1 DEF LeaseBound
      <4> QED
        BY <3>1, <4>1, <4>2, TickBound
    <3> QED
      BY <3>2, <3>3, <3>4 DEF LeaseInv
  <2>9. CASE UNCHANGED vars
    <3>1. UNCHANGED <<stored, left, beat, offer, stray, since>>
      BY <2>9 DEF vars, store, task, history
    <3> QED
      BY <2>a, <2>b, <3>1 DEF LeaseInv, Lease
  <2> QED
    BY <2>1, <2>2, <2>3, <2>4, <2>5, <2>6, <2>7, <2>8, <2>9 DEF Next
<1> QED
  BY <1>1, <1>2, TypeInduction, PTL DEF Spec

\* LeaseBound: an item that has not expired is owed to a process of its name
\* that was up within its lease, for every clock skew, time-out and order in
\* which requests are served (server.py:25, registry.py:32-49).
THEOREM LeaseIsBounded == Spec => []LeaseBound
<1>1. LeaseInv => LeaseBound
  BY DEF LeaseInv
<1> QED
  BY <1>1, LeaseInduction, PTL

-----------------------------------------------------------------------------
(* A running agent stays found                                             *)

\* How much of the lease of process i the present sleep, or the one before
\* its present request, has taken.
Slept(i) == CASE served[i]                       -> 0
              [] ~ served[i] /\ beat[i] = "sleep" -> Interval - timer[i]
              [] OTHER                           -> Interval

\* What a request leaves behind if it is served now is its sender's lease but
\* for the time it has waited.
SentAt(i) ==
    /\ Calling(i) => offer[i] + (CallTimeout - timer[i]) >= Lease(i)
    /\ served[i] => Calling(i)

\* The keeper of n is up, has a card there, and what is left of its lease is
\* accounted for.
KeptAt(n, i) ==
    /\ Name[i] = n
    /\ Up(i)
    /\ stored[n] \in Inst
    /\ spent[n] < Horizon => left[n] + spent[n] + Slept(i) >= Lease(i)

LiveInv ==
    /\ \A i \in Inst : SentAt(i)
    /\ \A n \in AgentName : \A i \in Inst : keeper[n] = i => KeptAt(n, i)

\* The numbers of a process and a name.
LEMMA Numbers ==
    ASSUME TypeInv, NEW i \in Inst, NEW n \in AgentName
    PROVE  /\ timer[i] \in Nat /\ offer[i] \in Int /\ left[n] \in Int
           /\ spent[n] \in 0 .. Horizon /\ Lease(i) \in Nat /\ Lease(i) < Horizon
           /\ CallTimeout \in Nat /\ Interval \in Nat /\ Horizon \in Nat
           /\ Calling(i) => timer[i] <= CallTimeout
           /\ beat[i] = "sleep" => timer[i] <= Interval
  BY TimeAssumption, LeaseTyped DEF TypeInv, TypeOK, Moment, Max

LEMMA CountedTyped ==
    \A t \in Nat : /\ Counted(t) \in 0 .. Horizon
                   /\ Counted(t) < Horizon => Counted(t) = t
  BY TimeAssumption DEF Counted, Min

\* A step that touches neither the item of n, its history nor process i
\* leaves what holds of them.
LEMMA OthersKept ==
    ASSUME LiveInv, NEW n \in AgentName, NEW i \in Inst, keeper[n] = i,
           stored'[n] = stored[n], left'[n] = left[n], spent'[n] = spent[n],
           beat'[i] = beat[i], timer'[i] = timer[i], served'[i] = served[i]
    PROVE  KeptAt(n, i)'
  BY DEF LiveInv, KeptAt, Slept, Up, Lease

LEMMA SendEffect ==
    ASSUME TypeInv, NEW i \in Inst, NEW b \in {"put", "patch", "reput"}, Send(i, b)
    PROVE  /\ beat'[i] = b /\ timer'[i] = CallTimeout /\ offer'[i] = Lease(i)
           /\ ~ served'[i]
           /\ \A j \in Inst \ {i} :
                /\ beat'[j] = beat[j] /\ timer'[j] = timer[j]
                /\ offer'[j] = offer[j] /\ served'[j] = served[j]
  BY DEF Send, TypeInv, TypeOK

LEMMA LeaveEffect ==
    ASSUME TypeInv, NEW i \in Inst, NEW b \in {"sleep", "down"}, NEW t \in Nat,
           Leave(i, b, t)
    PROVE  /\ beat'[i] = b /\ timer'[i] = t /\ ~ served'[i]
           /\ \A j \in Inst \ {i} :
                /\ beat'[j] = beat[j] /\ timer'[j] = timer[j]
                /\ offer'[j] = offer[j] /\ served'[j] = served[j]
  BY DEF Leave, TypeInv, TypeOK

\* A process that sends a request or goes to sleep has sent it just now.
LEMMA SentStep ==
    ASSUME TypeInv, LiveInv, NEW i \in Inst,
           \/ \E b \in {"put", "patch", "reput"} : Send(i, b)
           \/ Leave(i, "sleep", Interval) \/ Leave(i, "down", 0)
    PROVE  \A j \in Inst : SentAt(j)'
<1>1. \A j \in Inst \ {i} : SentAt(j)'
  BY SendEffect, LeaveEffect, TimeAssumption DEF LiveInv, SentAt, Calling, Lease
<1>2. CASE \E b \in {"put", "patch", "reput"} : Send(i, b)
  BY <1>1, <1>2, SendEffect, LeaseTyped, TimeAssumption DEF SentAt, Calling, Lease
<1>3. CASE Leave(i, "sleep", Interval) \/ Leave(i, "down", 0)
  BY <1>1, <1>3, LeaveEffect, TimeAssumption DEF SentAt, Calling
<1> QED
  BY <1>2, <1>3

\* What is forgotten is not claimed; the rest is as it was.
LEMMA ForgetEffect ==
    ASSUME TypeInv, NEW gone, Forget(gone)
    PROVE  \A n \in AgentName :
               /\ n \in gone => keeper'[n] \notin Inst
               /\ n \notin gone => keeper'[n] = keeper[n] /\ spent'[n] = spent[n]
  BY InstAssumption DEF Forget

\* An endpoint that serves a request of another, or of nobody any more.
LEMMA ServeLive ==
    ASSUME TypeInv, LiveInv, NEW i \in Inst, Serve(i)
    PROVE  LiveInv'
<1>1. /\ Calling(i) /\ Endpoint(Pending(i)) /\ served'[i] = TRUE
      /\ \A j \in Inst \ {i} : served'[j] = served[j]
      /\ UNCHANGED <<beat, timer, offer>> /\ Name[i] \in AgentName
      /\ Keep(Name[i], i, CallTimeout - timer[i])
  BY InstAssumption DEF Serve, TypeInv, TypeOK
<1>2. /\ \A n \in AgentName \ {Name[i]} : stored'[n] = stored[n] /\ left'[n] = left[n]
      /\ stored'[Name[i]] # Absent => left'[Name[i]] = offer[i]
  BY <1>1, PendingTyped, EndpointEffect DEF TypeInv
<1>3. \A j \in Inst : SentAt(j)'
  BY <1>1 DEF LiveInv, SentAt, Calling, Lease
<1>4. /\ \A n \in AgentName \ {Name[i]} : keeper'[n] = keeper[n] /\ spent'[n] = spent[n]
      /\ \/ /\ stored'[Name[i]] \in Inst /\ keeper'[Name[i]] = i
            /\ spent'[Name[i]] = Counted(CallTimeout - timer[i])
         \/ keeper'[Name[i]] \notin Inst
  BY <1>1, InstAssumption DEF Keep, Forget, TypeInv, TypeOK
<1>5. ASSUME NEW n \in AgentName, NEW j \in Inst, keeper'[n] = j
      PROVE  KeptAt(n, j)'
  <2>1. CASE n # Name[i]
    <3>1. keeper[n] = j /\ j # i
      BY <1>4, <1>5, <2>1 DEF LiveInv, KeptAt
    <3> QED
      BY <1>1, <1>2, <1>4, <2>1, <3>1, OthersKept
  <2>2. CASE n = Name[i]
    <3>1. j = i /\ stored'[n] \in Inst /\ spent'[n] = Counted(CallTimeout - timer[i])
      BY <1>4, <1>5, <2>2
    <3>2. left'[n] = offer[i] /\ Slept(i)' = 0
      BY <1>1, <1>2, <2>2, <3>1, InstAssumption DEF Slept
    <3>3. offer[i] + (CallTimeout - timer[i]) >= Lease(i)
      BY <1>1 DEF LiveInv, SentAt
    <3>4. spent'[n] < Horizon => spent'[n] = CallTimeout - timer[i]
      <4>1. CallTimeout - timer[i] \in Nat
        BY <1>1, Numbers
      <4> QED
        BY <3>1, <4>1, CountedTyped
    <3>5. spent'[n] < Horizon => left'[n] + spent'[n] + Slept(i)' >= Lease(i)
      BY <3>2, <3>3, <3>4, Numbers
    <3> QED
      BY <1>1, <2>2, <3>1, <3>5 DEF KeptAt, Up, Calling, Lease
  <2> QED
    BY <2>1, <2>2
<1> QED
  BY <1>3, <1>5 DEF LiveInv

LEMMA TickLive ==
    ASSUME TypeInv, LiveInv, Tick
    PROVE  LiveInv'
<1>1. /\ UNCHANGED <<stored, beat, served, keeper>>
      /\ \A i \in Inst : /\ Up(i) => timer[i] > 0 /\ timer'[i] = timer[i] - 1
                         /\ offer'[i] >= offer[i] - 1 /\ offer'[i] \in Int
      /\ \A n \in AgentName : left'[n] >= left[n] - 1 /\ left'[n] \in Int
  BY TickedTyped, TimeAssumption DEF Tick, TypeInv, TypeOK, Ticked, Max, Moment
<1>2. ASSUME NEW i \in Inst PROVE SentAt(i)'
  <2>1. offer[i] \in Int /\ timer[i] \in Nat /\ Lease(i) \in Nat
    BY TimeAssumption, LeaseTyped DEF TypeInv, TypeOK, Moment, Max
  <2> QED
    BY <1>1, <2>1, TimeAssumption DEF LiveInv, SentAt, Calling, Up, Lease
<1>3. ASSUME NEW n \in AgentName, NEW i \in Inst, keeper'[n] = i
      PROVE  KeptAt(n, i)'
  <2>1. keeper[n] = i /\ KeptAt(n, i)
    BY <1>1, <1>3 DEF LiveInv
  <2>2. timer[i] > 0 /\ timer'[i] = timer[i] - 1
    BY <1>1, <2>1 DEF KeptAt
  <2>3. CASE Calling(i)
    <3>1. spent'[n] = Counted(spent[n] + 1)
      BY <2>1, <2>3 DEF Tick
    <3>2. spent'[n] < Horizon => spent'[n] = spent[n] + 1
      BY <3>1, CountedTyped, Numbers
    <3>3. Slept(i)' = Slept(i) /\ Slept(i) \in Int
      BY <1>1, <2>3, Numbers DEF Slept, Calling
    <3>4. spent'[n] < Horizon => left'[n] + spent'[n] + Slept(i)' >= Lease(i)
      BY <1>1, <2>1, <3>2, <3>3, Numbers DEF KeptAt
    <3> QED
      BY <1>1, <2>1, <3>4 DEF KeptAt, Up, Lease
  <2>4. CASE ~ Calling(i)
    <3>1. beat[i] = "sleep" /\ ~ served[i]
      BY <2>1, <2>4 DEF KeptAt, LiveInv, SentAt, Up, Calling, TypeInv, TypeOK
    <3>2. spent'[n] = spent[n]
      BY <2>1, <2>4 DEF Tick
    <3>3. Slept(i) = Interval - timer[i] /\ Slept(i)' = Interval - timer'[i]
      BY <1>1, <3>1 DEF Slept
    <3>4. spent'[n] < Horizon => left'[n] + spent'[n] + Slept(i)' >= Lease(i)
      BY <1>1, <2>1, <2>2, <3>2, <3>3, Numbers DEF KeptAt
    <3> QED
      BY <1>1, <2>1, <3>4 DEF KeptAt, Up, Lease
  <2> QED
    BY <2>3, <2>4
<1> QED
  BY <1>2, <1>3 DEF LiveInv

\* A request that returns, or the end of a sleep, costs no more of the lease.
LEMMA ReturnLive ==
    ASSUME TypeInv, LiveInv, NEW i \in Inst, Return(i) \/ Wake(i)
    PROVE  LiveInv'
<1>1. /\ UNCHANGED <<stored, left, keeper, spent>>
      /\ \/ Send(i, "patch") /\ (served[i] \/ (beat[i] = "sleep" /\ timer[i] = 0))
         \/ Leave(i, "sleep", Interval) /\ served[i]
      /\ Up(i)
  BY DEF Return, Wake, store, history, kept, Calling, Up
<1>2. \A j \in Inst : SentAt(j)'
  BY <1>1, SentStep
<1>3. ASSUME NEW n \in AgentName, NEW j \in Inst, keeper'[n] = j
      PROVE  KeptAt(n, j)'
  <2>1. CASE j # i
    BY <1>1, <1>3, <2>1, OthersKept, SendEffect, LeaveEffect, TimeAssumption
  <2>2. CASE j = i
    <3>1. KeptAt(n, i)
      BY <1>1, <1>3, <2>2 DEF LiveInv
    <3>2. Slept(i)' >= Slept(i) /\ Slept(i)' \in Int /\ Slept(i) \in Int /\ Up(i)'
      <4>1. CASE Send(i, "patch")
        <5>1. Slept(i)' = Interval /\ Up(i)'
          BY <4>1, SendEffect DEF Slept, Up
        <5>2. Slept(i) = 0 \/ Slept(i) = Interval - timer[i] \/ Slept(i) = Interval
          BY DEF Slept
        <5> QED
          BY <5>1, <5>2, Numbers
      <4>2. CASE Leave(i, "sleep", Interval) /\ served[i]
        <5>1. Slept(i)' = Interval - Interval /\ Slept(i) = 0 /\ Up(i)'
          BY <4>2, LeaveEffect, TimeAssumption DEF Slept, Up
        <5> QED
          BY <5>1, Numbers
      <4> QED
        BY <1>1, <4>1, <4>2
    <3>3. spent[n] < Horizon => left[n] + spent[n] + Slept(i)' >= Lease(i)
      BY <3>1, <3>2, Numbers DEF KeptAt
    <3> QED
      BY <1>1, <2>2, <3>1, <3>2, <3>3 DEF KeptAt, Lease
  <2> QED
    BY <2>1, <2>2
<1> QED
  BY <1>2, <1>3 DEF LiveInv

\* A request that raises costs nothing yet; a round that has failed costs
\* the sleep that follows it.
LEMMA RaiseLive ==
    ASSUME TypeInv, LiveInv, NEW i \in Inst, Raise(i)
    PROVE  LiveInv'
<1>1. /\ UNCHANGED <<stored, left, keeper>> /\ Calling(i)
      /\ \/ (\E b \in {"patch", "reput"} : Send(i, b)) /\ UNCHANGED spent
         \/ /\ Leave(i, "sleep", Interval)
            /\ \A n \in AgentName : spent'[n] =
                  IF keeper[n] = i THEN Counted(spent[n] + Interval) ELSE spent[n]
  BY DEF Raise, store, Calling
<1>2. \A j \in Inst : SentAt(j)'
  BY <1>1, SentStep
<1>3. ASSUME NEW n \in AgentName, NEW j \in Inst, keeper'[n] = j
      PROVE  KeptAt(n, j)'
  <2>1. CASE j # i
    <3>1. keeper[n] = j /\ spent'[n] = spent[n]
      BY <1>1, <1>3, <2>1
    <3> QED
      BY <1>1, <2>1, <3>1, OthersKept, SendEffect, LeaveEffect, TimeAssumption
  <2>2. CASE j = i
    <3>1. KeptAt(n, i) /\ keeper[n] = i
      BY <1>1, <1>3, <2>2 DEF LiveInv
    <3>2. Slept(i) \in Int /\ Slept(i) <= Interval
      BY <1>1, Numbers DEF Slept, Calling
    <3>3. CASE (\E b \in {"patch", "reput"} : Send(i, b)) /\ UNCHANGED spent
      <4>1. Slept(i)' = Interval /\ Up(i)'
        BY <3>3, SendEffect DEF Slept, Up
      <4>2. spent[n] < Horizon => left[n] + spent[n] + Interval >= Lease(i)
        BY <3>1, <3>2, Numbers DEF KeptAt
      <4> QED
        BY <1>1, <2>2, <3>1, <3>3, <4>1, <4>2 DEF KeptAt, Lease
    <3>4. CASE /\ Leave(i, "sleep", Interval)
               /\ spent'[n] = Counted(spent[n] + Interval)
      <4>1. Slept(i)' = Interval - Interval /\ Up(i)'
        BY <3>4, LeaveEffect, TimeAssumption DEF Slept, Up
      <4>2. spent'[n] < Horizon => spent'[n] = spent[n] + Interval /\ spent[n] < Horizon
        <5>1. spent[n] + Interval \in Nat /\ spent[n] \in Nat
          BY Numbers
        <5> QED
          BY <3>4, <5>1, CountedTyped, Numbers
      <4>3. spent'[n] < Horizon => left[n] + spent'[n] + Slept(i)' >= Lease(i)
        BY <3>1, <3>2, <4>1, <4>2, Numbers DEF KeptAt
      <4> QED
        BY <1>1, <2>2, <3>1, <4>1, <4>3 DEF KeptAt, Lease
    <3> QED
      BY <1>1, <3>1, <3>3, <3>4
  <2> QED
    BY <2>1, <2>2
<1> QED
  BY <1>2, <1>3 DEF LiveInv

LEMMA LiveInduction == Spec => []LiveInv
<1>1. Init => LiveInv
  BY InstAssumption DEF Init, LiveInv, SentAt, Calling
<1>2. TypeInv /\ LiveInv /\ [Next]_vars => LiveInv'
  <2> SUFFICES ASSUME TypeInv, LiveInv, [Next]_vars PROVE LiveInv'
    OBVIOUS
  <2>a. ASSUME UNCHANGED task PROVE \A i \in Inst : SentAt(i)'
    BY <2>a DEF task, LiveInv, SentAt, Calling, Lease
  <2>1. CASE Restart
    BY <2>1, <2>a, ForgetEffect DEF Restart, LiveInv
  <2>2. ASSUME NEW m \in AgentName, Evict(m) PROVE LiveInv'
    <3>1. UNCHANGED <<left, task>> /\ Forget({m})
          /\ \A n \in AgentName : n # m => stored'[n] = stored[n]
      BY <2>2 DEF Evict, TypeInv, TypeOK
    <3>2. ASSUME NEW n \in AgentName, NEW i \in Inst, keeper'[n] = i
          PROVE  KeptAt(n, i)'
      <4>1. n # m /\ keeper[n] = i /\ spent'[n] = spent[n]
        BY <3>1, <3>2, ForgetEffect
      <4> QED
        BY <3>1, <4>1, OthersKept DEF task
    <3> QED
      BY <2>a, <3>1, <3>2 DEF LiveInv
  <2>3. ASSUME NEW i \in Inst, Boot(i) PROVE LiveInv'
    <3>1. UNCHANGED <<stored, left, keeper, spent>> /\ ~ Up(i) /\ Send(i, "put")
      BY <2>3 DEF Boot, store, kept
    <3>2. ASSUME NEW n \in AgentName, NEW j \in Inst, keeper'[n] = j
          PROVE  KeptAt(n, j)'
      <4>1. keeper[n] = j /\ j # i
        BY <3>1, <3>2 DEF LiveInv, KeptAt
      <4> QED
        BY <3>1, <4>1, OthersKept, SendEffect
    <3> QED
      BY <3>1, <3>2, SentStep DEF LiveInv
  <2>4. ASSUME NEW i \in Inst, Serve(i) PROVE LiveInv'
    BY <2>4, ServeLive
  <2>5. ASSUME NEW i \in Inst, Return(i) \/ Wake(i) PROVE LiveInv'
    BY <2>5, ReturnLive
  <2>6. ASSUME NEW i \in Inst, Raise(i) PROVE LiveInv'
    BY <2>6, RaiseLive
  <2>7. ASSUME NEW i \in Inst, Stop(i) PROVE LiveInv'
    <3>1. /\ UNCHANGED <<stored, left>> /\ Leave(i, "down", 0)
          /\ Forget({n \in AgentName : keeper[n] = i})
      BY <2>7 DEF Stop, store
    <3>2. ASSUME NEW n \in AgentName, NEW j \in Inst, keeper'[n] = j
          PROVE  KeptAt(n, j)'
      <4>1. keeper[n] = j /\ j # i /\ spent'[n] = spent[n]
        BY <3>1, <3>2, ForgetEffect
      <4> QED
        BY <3>1, <4>1, OthersKept, LeaveEffect
    <3> QED
      BY <3>1, <3>2, SentStep DEF LiveInv
  <2>8. CASE ServeStray
    <3>1. PICK r \in stray : Endpoint(r) /\ Forget({Name[r.inst]}) /\ UNCHANGED task
      BY <2>8 DEF ServeStray
    <3>2. r \in Request
      BY <3>1 DEF TypeInv, TypeOK
    <3>3. ASSUME NEW n \in AgentName, NEW i \in Inst, keeper'[n] = i
          PROVE  KeptAt(n, i)'
      <4>1. n # Name[r.inst] /\ keeper[n] = i /\ spent'[n] = spent[n]
        BY <3>1, <3>3, ForgetEffect
      <4> QED
        BY <3>1, <3>2, <4>1, EndpointEffect, OthersKept DEF task, TypeInv
    <3> QED
      BY <2>a, <3>1, <3>3 DEF LiveInv
  <2>9. CASE Tick
    BY <2>9, TickLive
  <2>10. CASE UNCHANGED vars
    <3>1. UNCHANGED <<stored, left, beat, timer, offer, served, keeper, spent>>
      BY <2>10 DEF vars, store, task, history, kept
    <3> QED
      BY <3>1 DEF LiveInv, SentAt, KeptAt, Slept, Calling, Up, Lease
  <2> QED
    BY <2>1, <2>2, <2>3, <2>4, <2>5, <2>6, <2>7, <2>8, <2>9, <2>10 DEF Next
<1> QED
  BY <1>1, <1>2, TypeInduction, PTL DEF Spec

\* LiveFound: with every store, for every lease, interval and time-out, the
\* code's included, an agent whose last request to be served left a card
\* there is found until failed rounds and waiting have used up the lease,
\* however restarts, other processes of its name, late requests, evictions
\* and the passing of time interleave (registry.py:38-49, server.py:21-26).
THEOREM LiveAgentsAreFound == Spec => []LiveFound
<1>1. TypeInv /\ LiveInv => LiveFound
  <2> SUFFICES ASSUME TypeInv, LiveInv, NEW n \in AgentName, NEW i \in Inst,
                      keeper[n] = i, spent[n] + Interval <= Lease(i)
               PROVE  Found(n)
    BY DEF LiveFound
  <2>1. KeptAt(n, i)
    BY DEF LiveInv
  <2>2. Slept(i) \in Int /\ Slept(i) <= Interval /\ spent[n] < Horizon
    <3>1. spent[n] < Horizon
      BY Numbers, TimeAssumption
    <3> QED
      BY <3>1, Numbers DEF Slept
  <2>3. left[n] >= 0
    BY <2>1, <2>2, Numbers DEF KeptAt
  <2> QED
    BY <2>1, <2>3 DEF Found, KeptAt
<1> QED
  BY <1>1, TypeInduction, LiveInduction, PTL

-----------------------------------------------------------------------------
(* The listing                                                             *)

\* A request adds no item without a card to a store that is not DynamoDB.
LEMMA EndpointLists ==
    ASSUME ~ Dynamo, TypeOK, Listable, NEW r \in Request, Endpoint(r)
    PROVE  Listable'
<1>1. r.inst \in Inst /\ Name[r.inst] \in AgentName
  BY InstAssumption DEF Request
<1>2. CASE r.op = "put" /\ PutCard(Name[r.inst], r.inst, r.left)
  <2>1. \A n \in AgentName : stored'[n] = IF n = Name[r.inst] THEN r.inst ELSE stored[n]
    BY <1>1, <1>2 DEF PutCard, TypeOK
  <2> QED
    BY <1>1, <2>1, InstAssumption DEF Listable
<1>3. CASE r.op = "patch" /\ UpdateExpiry(Name[r.inst], r.left)
  <2>1. UNCHANGED stored
    BY <1>3 DEF UpdateExpiry, store
  <2> QED
    BY <2>1 DEF Listable
<1> QED
  BY <1>2, <1>3 DEF Endpoint

\* With the in-memory store the listing always works, also after late PATCH
\* requests, restarts of the registry and PATCHes for agents it has not heard
\* of; items without cards are DynamoDB's alone
\* (in_memory_registry_storage.py:96-99 against dynamo_db.py:65-76).
THEOREM MemoryLists == Spec => [](~ Dynamo => Listable)
<1>1. Init => (~ Dynamo => Listable)
  BY InstAssumption DEF Init, Listable
<1>2. TypeOK /\ (~ Dynamo => Listable) /\ [Next]_vars => (~ Dynamo => Listable)'
  <2> SUFFICES ASSUME TypeOK, ~ Dynamo => Listable, [Next]_vars, ~ Dynamo'
               PROVE  Listable'
    OBVIOUS
  <2>0. ~ Dynamo /\ Listable
    <3>1. UNCHANGED driver
      BY DEF Next, Restart, Evict, Boot, Serve, Return, Raise, Wake, Stop,
             ServeStray, Tick, vars
    <3> QED
      BY <3>1 DEF Dynamo
  <2>1. ASSUME NEW r \in Request, Endpoint(r) PROVE Listable'
    BY <2>0, <2>1, EndpointLists
  <2>2. ASSUME NEW i \in Inst, Serve(i) PROVE Listable'
    BY <2>1, <2>2, PendingTyped DEF Serve
  <2>3. CASE ServeStray
    BY <2>1, <2>3 DEF ServeStray, TypeOK
  <2>4. CASE Restart
    BY <2>4, InstAssumption DEF Restart, Listable
  <2>5. ASSUME UNCHANGED stored PROVE Listable'
    BY <2>0, <2>5 DEF Listable
  <2>6. ASSUME NEW i \in Inst,
               Boot(i) \/ Return(i) \/ Raise(i) \/ Wake(i) \/ Stop(i)
        PROVE  UNCHANGED stored
    BY <2>6 DEF Boot, Return, Raise, Wake, Stop, store
  <2>7. CASE Tick \/ UNCHANGED vars
    BY <2>5, <2>7 DEF Tick, vars, store
  <2>8. ~ \E n \in AgentName : Evict(n)
    BY <2>0 DEF Evict
  <2> QED
    BY <2>2, <2>3, <2>4, <2>5, <2>6, <2>7, <2>8 DEF Next
<1>3. TypeInv => TypeOK
  BY DEF TypeInv
<1> QED
  BY <1>1, <1>2, <1>3, TypeInduction, PTL DEF Spec
=============================================================================
