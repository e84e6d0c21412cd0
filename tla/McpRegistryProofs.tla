------------------------- MODULE McpRegistryProofs -------------------------
(* Proofs about the MCP registry.                                          *)
EXTENDS McpRegistry, TLAPS

-----------------------------------------------------------------------------
(* Types                                                                   *)

LEMMA CallTyped ==
    ASSUME NEW r \in Request \cup {Idle}
    PROVE  /\ r.op \in {"put", "enable", "disable", "lookup", "none"}
           /\ r.op \in {"put", "enable", "disable"} => r \in Put \cup Change
           /\ r \in Put \cup Change => r.server \in Server
           /\ r \in Change => r.agent \in Agent
           /\ r.op \in {"enable", "disable"} <=> r \in Change
           /\ r.op = "put" <=> r \in Put
           /\ r.op = "lookup" <=> r \in Lookup
           /\ r \in Lookup => r.agent \in Agent /\ r.server = None
           /\ r.op = "none" <=> r = Idle
  BY DEF Request, Put, Change, Lookup, Idle

\* Where in a call of each kind a thread can be.
Located(w) ==
    /\ at[w] = "idle" <=> call[w] = Idle
    /\ at[w] = "defined" => call[w] \in Put /\ Memory
    /\ at[w] = "create" => (call[w] \in Put \/ call[w].op = "enable") /\ Memory
    /\ at[w] = "add" => call[w].op = "enable" /\ Memory
    /\ at[w] = "item" => call[w] \in Change /\ ~ Memory
    /\ at[w] = "scan" => call[w] \in Lookup

TypeInv == TypeOK /\ \A w \in Worker : Located(w)

LEMMA WatchTyped ==
    ASSUME TypeOK, defined' \subseteq Server, Watch
    PROVE  /\ met' \in [Worker -> SUBSET {"contrary", "stale"}]
           /\ ever' \in [Worker -> SUBSET Server]
           /\ always' \in [Worker -> SUBSET Server]
  BY DEF TypeInv, TypeOK, Watch, ServersFor

LEMMA DoubtTyped ==
    ASSUME TypeOK, NEW r \in Request, Doubt(r)
    PROVE  /\ enabled' \subseteq Grant
           /\ disabled' \subseteq revoked' /\ revoked' \subseteq Grant
  BY DEF TypeInv, TypeOK, Doubt, told

LEMMA ConfirmTyped ==
    ASSUME TypeOK, NEW w \in Worker, Confirm(w)
    PROVE  /\ enabled' \subseteq Grant
           /\ disabled' \subseteq revoked' /\ revoked' \subseteq Grant
<1>1. call[w] \in Request \cup {Idle}
  BY DEF TypeOK
<1>2. call[w].op \in {"enable", "disable"} => <<call[w].server, call[w].agent>> \in Grant
  BY <1>1, CallTyped DEF Grant
<1> QED
  BY <1>2 DEF TypeOK, Confirm

LEMMA LeaveTyped ==
    ASSUME TypeOK, NEW w \in Worker, Leave(w)
    PROVE  /\ call' \in [Worker -> Request \cup {Idle}] /\ at' \in [Worker -> Place]
           /\ item' \in [Worker -> SUBSET Agent]
           /\ span' \in [Worker -> SUBSET Server] /\ todo' \in [Worker -> SUBSET Server]
           /\ answer' \in [Worker -> SUBSET Server]
           /\ driver' \in Drivers
  BY DEF TypeOK, Leave, Go, Place

LEMMA AnsweredTyped ==
    ASSUME TypeOK, NEW w \in Worker, Answered(w)
    PROVE  /\ call' \in [Worker -> Request \cup {Idle}] /\ at' \in [Worker -> Place]
           /\ item' \in [Worker -> SUBSET Agent]
           /\ span' \in [Worker -> SUBSET Server] /\ todo' \in [Worker -> SUBSET Server]
           /\ answer' \in [Worker -> SUBSET Server]
           /\ driver' \in Drivers /\ UNCHANGED told
<1>1. CASE Leave(w) /\ UNCHANGED told
  BY <1>1, LeaveTyped
<1>2. CASE ~ Leave(w)
  BY <1>2 DEF TypeOK, Answered, Go, Place
<1> QED
  BY <1>1, <1>2 DEF Answered

LEMMA TypeStep == TypeInv /\ [Next]_vars => TypeOK'
<1> SUFFICES ASSUME TypeInv, [Next]_vars
             PROVE  TypeOK'
  OBVIOUS
<1> USE DEF Go, Serves, stored, frame, told
<1>1. CASE UNCHANGED vars
  BY <1>1 DEF vars, TypeInv, TypeOK
<1>2. ASSUME NEW w \in Worker, NEW r \in Request, Arrive(w, r), Watch
      PROVE  TypeOK'
  <2>1. enabled' \subseteq Grant /\ disabled' \subseteq revoked' /\ revoked' \subseteq Grant
    BY <1>2, DoubtTyped DEF TypeInv, Arrive
  <2> QED
    BY <1>2, <2>1, WatchTyped DEF TypeInv, TypeOK, Arrive, Place
<1>3. ASSUME NEW w \in Worker, Step(w), Watch
      PROVE  TypeOK'
  <2>0. call[w] \in Request \cup {Idle} /\ Located(w)
    BY DEF TypeInv, TypeOK
  <2>1. CASE Define(w)
    BY <1>3, <2>0, <2>1, CallTyped, WatchTyped DEF TypeInv, TypeOK, Define, Place
  <2>2. CASE TestSet(w)
    BY <1>3, <2>2, WatchTyped DEF TypeInv, TypeOK, TestSet, Place
  <2>3. CASE CreateSet(w)
    BY <1>3, <2>0, <2>3, CallTyped, WatchTyped DEF TypeInv, TypeOK, CreateSet, Place, Located
  <2>4. CASE Add(w)
    BY <1>3, <2>0, <2>4, CallTyped, WatchTyped DEF TypeInv, TypeOK, Add, Place, Located
  <2>5. CASE Discard(w)
    BY <1>3, <2>0, <2>5, CallTyped, WatchTyped DEF TypeInv, TypeOK, Discard, Place
  <2>6. CASE PutItem(w)
    BY <1>3, <2>0, <2>6, CallTyped, WatchTyped, AnsweredTyped DEF TypeInv, TypeOK, PutItem
  <2>7. CASE Fail(w)
    BY <1>3, <2>7, WatchTyped DEF TypeInv, TypeOK, Fail, Leave, Place
  <2>8. CASE GetItem(w)
    BY <1>3, <2>0, <2>7, <2>8, CallTyped, WatchTyped DEF TypeInv, TypeOK, GetItem, Place
  <2>9. CASE PutBack(w)
    BY <1>3, <2>0, <2>9, CallTyped, WatchTyped, AnsweredTyped
       DEF TypeInv, TypeOK, PutBack, Changed, Located
  <2>10. CASE StartScan(w)
    BY <1>3, <2>10, WatchTyped DEF TypeInv, TypeOK, StartScan, Place
  <2>11. ASSUME NEW s \in Server, Visit(w, s)
         PROVE  TypeOK'
    BY <1>3, <2>11, WatchTyped DEF TypeInv, TypeOK, Visit, Place
  <2>12. CASE EndScan(w)
    BY <1>3, <2>7, <2>12, WatchTyped DEF TypeInv, TypeOK, EndScan, Place
  <2>13. CASE Return(w)
    <3>1. enabled' \subseteq Grant /\ disabled' \subseteq revoked' /\ revoked' \subseteq Grant
      BY <2>13, ConfirmTyped DEF TypeInv, Return
    <3> QED
      BY <1>3, <2>13, <3>1, WatchTyped DEF TypeInv, TypeOK, Return, Leave, Place
  <2> QED
    BY <1>3, <2>1, <2>2, <2>3, <2>4, <2>5, <2>6, <2>7, <2>8, <2>9, <2>10, <2>11, <2>12, <2>13
       DEF Step, Raise
<1> QED
  BY <1>1, <1>2, <1>3 DEF Next

\* A step of one thread leaves the others where they are.
LEMMA OthersStay ==
    ASSUME TypeInv, NEW u \in Worker, Step(u) \/ \E r \in Request : Arrive(u, r),
           NEW w \in Worker, w # u
    PROVE  UNCHANGED <<driver, call[w], at[w], item[w], span[w], todo[w], answer[w]>>
  BY DEF TypeInv, TypeOK, Arrive, Step, Define, TestSet, CreateSet, Add, Discard,
     PutItem, GetItem, PutBack, Answered, StartScan, Visit, EndScan, Return, Raise, Fail, Leave, Go, frame

LEMMA LocatedStep == TypeInv /\ [Next]_vars => \A w \in Worker : Located(w)'
<1> SUFFICES ASSUME TypeInv, [Next]_vars, NEW w \in Worker
             PROVE  Located(w)'
  OBVIOUS
<1> USE DEF Go, Serves, stored, frame, told
<1>0. call[w] \in Request \cup {Idle} /\ Located(w)
      /\ call \in [Worker -> Request \cup {Idle}] /\ at \in [Worker -> Place]
  BY DEF TypeInv, TypeOK
<1>1. CASE UNCHANGED vars
  BY <1>0, <1>1 DEF vars, Located, Memory
<1>2. ASSUME NEW r \in Request, Arrive(w, r)
      PROVE  Located(w)'
  <2>1. r # Idle
    BY CallTyped DEF Request, Put, Change, Lookup, Idle
  <2> QED
    BY <1>0, <1>2, <2>1 DEF Arrive, Located, Memory
<1>3. ASSUME NEW u \in Worker, u # w, Step(u) \/ \E r \in Request : Arrive(u, r)
      PROVE  Located(w)'
  BY <1>0, <1>3, OthersStay DEF Located, Memory
<1>4. ASSUME Step(w)
      PROVE  Located(w)'
  <2>1. CASE Define(w)
    BY <1>0, <2>1, CallTyped DEF Define, Located, Memory, Put, Change
  <2>2. CASE TestSet(w)
    BY <1>0, <2>2, CallTyped DEF TestSet, Located, Memory, Put, Change
  <2>3. CASE CreateSet(w) \/ Add(w) \/ Discard(w) \/ PutItem(w) \/ PutBack(w)
    BY <1>0, <2>3, CallTyped
       DEF CreateSet, Add, Discard, PutItem, PutBack, Answered, Leave, Located, Memory, Idle, Put
  <2>4. CASE Leave(w)
    BY <1>0, <2>4 DEF Leave, Located
  <2>5. CASE GetItem(w)
    BY <1>0, <2>4, <2>5, CallTyped DEF GetItem, Fail, Located, Memory, Idle
  <2>6. CASE StartScan(w) \/ EndScan(w) \/ \E s \in Server : Visit(w, s)
    BY <1>0, <2>4, <2>6, CallTyped DEF StartScan, EndScan, Fail, Visit, Located, Memory, Idle
  <2> QED
    BY <1>4, <2>1, <2>2, <2>3, <2>4, <2>5, <2>6 DEF Step, Return, Raise, Fail
<1> QED
  BY <1>1, <1>2, <1>3, <1>4 DEF Next

LEMMA TypeInit == Init => TypeInv
  BY ServerAssumption, DriverAssumption DEF Init, TypeInv, TypeOK, Place, Located

LEMMA TypeInduction == Spec => []TypeInv
<1>1. TypeInv /\ [Next]_vars => TypeInv'
  BY TypeStep, LocatedStep DEF TypeInv
<1> QED
  BY TypeInit, <1>1, PTL DEF Spec

(* The type invariant of the registry holds for any servers, agents,       *)
(* threads and stores.                                                     *)
THEOREM TypeCorrect == Spec => []TypeOK
<1>1. TypeInv => TypeOK
  BY DEF TypeInv
<1> QED
  BY <1>1, TypeInduction, PTL

-----------------------------------------------------------------------------
(* The store                                                               *)

\* In memory, a server with agents is one the iteration can find.
KeyInv ==
    /\ Memory => \A s \in Server : allowed[s] # {} => s \in keys
    /\ \A w \in Worker : at[w] = "add" => call[w].server \in keys

\* Definitions are there for good, and what a lookup holds is its own.
Settled(w) ==
    /\ at[w] \in {"defined", "item"} \/ (at[w] = "create" /\ call[w].op = "put")
            => call[w].server \in defined
    /\ at[w] = "served" /\ call[w] \in Lookup => todo[w] = {}
    /\ at[w] = "called" \/ call[w] \notin Lookup => answer[w] = {}

StoreInv == TypeInv /\ KeyInv /\ \A w \in Worker : Settled(w)

LEMMA KeyStep == TypeInv /\ KeyInv /\ [Next]_vars => KeyInv' /\ keys \subseteq keys'
<1> SUFFICES ASSUME TypeInv, KeyInv, [Next]_vars
             PROVE  KeyInv' /\ keys \subseteq keys'
  OBVIOUS
<1> USE DEF Go, Serves, stored, frame, told, KeyInv, Memory
<1>0. /\ call \in [Worker -> Request \cup {Idle}] /\ at \in [Worker -> Place]
      /\ allowed \in [Server -> SUBSET Agent] /\ keys \subseteq Server
      /\ \A w \in Worker : Located(w)
  BY DEF TypeInv, TypeOK
<1>1. CASE UNCHANGED vars
  BY <1>1 DEF vars
<1>2. ASSUME NEW u \in Worker, NEW r \in Request, Arrive(u, r)
      PROVE  KeyInv' /\ keys \subseteq keys'
  BY <1>0, <1>2 DEF Arrive
<1>3. ASSUME NEW u \in Worker, Step(u)
      PROVE  KeyInv' /\ keys \subseteq keys'
  <2>1. CASE Define(u) \/ Discard(u)
    BY <1>0, <2>1 DEF Define, Discard
  <2>2. CASE TestSet(u)
    BY <1>0, <2>2 DEF TestSet
  <2>3. CASE CreateSet(u)
    BY <1>0, <2>3 DEF CreateSet
  <2>4. CASE Add(u)
    BY <1>0, <2>4 DEF Add
  <2>5. CASE PutItem(u)
    BY <1>0, <2>5 DEF PutItem, Answered, Leave
  <2>6. CASE PutBack(u)
    BY <1>0, <2>6 DEF PutBack, Answered, Leave, Located
  <2>7. CASE Fail(u) \/ Return(u)
    BY <1>0, <2>7 DEF Fail, Return, Leave
  <2>8. CASE GetItem(u) \/ StartScan(u) \/ EndScan(u) \/ \E s \in Server : Visit(u, s)
    BY <1>0, <2>7, <2>8 DEF GetItem, StartScan, EndScan, Visit
  <2> QED
    BY <1>3, <2>1, <2>2, <2>3, <2>4, <2>5, <2>6, <2>7, <2>8 DEF Step, Raise
<1> QED
  BY <1>1, <1>2, <1>3 DEF Next

LEMMA StoreInit == Init => StoreInv
<1> SUFFICES ASSUME Init
             PROVE  StoreInv
  OBVIOUS
<1> QED
  BY TypeInit DEF Init, StoreInv, KeyInv, Settled, Idle, Lookup

LEMMA StoreStep == StoreInv /\ [Next]_vars => StoreInv'
<1> SUFFICES ASSUME StoreInv, [Next]_vars
             PROVE  StoreInv'
  OBVIOUS
<1> USE DEF Go, Serves, stored, frame, told
<1>1. TypeInv' /\ KeyInv'
  BY TypeStep, LocatedStep, KeyStep DEF StoreInv, TypeInv
<1>2. defined \subseteq defined'
  BY DEF Next, vars, Arrive, Step, Define, TestSet, CreateSet, Add, Discard, PutItem, GetItem,
     PutBack, Answered, StartScan, Visit, EndScan, Return, Raise, Fail, Leave
<1>3. ASSUME NEW w \in Worker
      PROVE  Settled(w)'
  <2>0. /\ call[w] \in Request \cup {Idle} /\ Located(w) /\ Settled(w)
        /\ call \in [Worker -> Request \cup {Idle}] /\ at \in [Worker -> Place]
        /\ todo \in [Worker -> SUBSET Server] /\ answer \in [Worker -> SUBSET Server]
        /\ TypeInv
    BY DEF StoreInv, TypeInv, TypeOK
  <2>1. CASE UNCHANGED vars
    BY <2>0, <2>1 DEF vars, Settled
  <2>2. ASSUME NEW r \in Request, Arrive(w, r)
        PROVE  Settled(w)'
    <3>1. answer[w] = {}
      BY <2>0, <2>2, CallTyped DEF Arrive, Located, Settled
    <3>2. at'[w] = "called" /\ answer'[w] = {}
      BY <2>0, <2>2, <3>1 DEF Arrive
    <3> QED
      BY <3>2 DEF Settled
  <2>3. ASSUME NEW u \in Worker, u # w, Step(u) \/ \E r \in Request : Arrive(u, r)
        PROVE  Settled(w)'
    BY <2>0, <2>3, <1>2, OthersStay DEF Settled
  <2>4. ASSUME Step(w)
        PROVE  Settled(w)'
    <3>1. CASE Define(w) \/ Add(w) \/ Discard(w) \/ CreateSet(w)
      BY <2>0, <3>1, CallTyped DEF Define, Add, Discard, CreateSet, Settled, Located
    <3>2. CASE TestSet(w)
      BY <2>0, <3>2, CallTyped DEF TestSet, Settled, Located
    <3>3. CASE PutItem(w) \/ PutBack(w)
      BY <2>0, <3>3, CallTyped DEF PutItem, PutBack, Answered, Leave, Settled, Located, Idle
    <3>4. CASE Leave(w)
      BY <2>0, <3>4 DEF Leave, Settled, Idle
    <3>5. CASE GetItem(w)
      BY <2>0, <3>4, <3>5, CallTyped DEF GetItem, Fail, Settled, Located
    <3>6. CASE StartScan(w)
      BY <2>0, <3>6, CallTyped DEF StartScan, Settled, Located
    <3>7. CASE EndScan(w)
      BY <2>0, <3>4, <3>7, CallTyped DEF EndScan, Fail, Settled, Located
    <3>8. ASSUME NEW s \in Server, Visit(w, s)
          PROVE  Settled(w)'
      BY <2>0, <3>8, CallTyped DEF Visit, Settled, Located
    <3> QED
      BY <2>4, <3>1, <3>2, <3>3, <3>4, <3>5, <3>6, <3>7, <3>8 DEF Step, Return, Raise, Fail
  <2> QED
    BY <2>1, <2>2, <2>3, <2>4 DEF Next
<1> QED
  BY <1>1, <1>3 DEF StoreInv

LEMMA StoreInduction == Spec => []StoreInv
  BY StoreInit, StoreStep, PTL DEF Spec

-----------------------------------------------------------------------------
(* What callers are told                                                   *)

\* Thread u serves a call that may take grant g away, or bring it back: one
\* that asks for it, or that is about to write what it saw earlier.
Takes(u, g) ==
    /\ call[u].server = g[1]
    /\ \/ call[u].op = "disable" /\ call[u].agent = g[2]
       \/ call[u].op = "put" /\ ~ Memory
       \/ at[u] = "create"
       \/ at[u] = "item" /\ g[2] \notin item[u]

Gives(u, g) ==
    /\ call[u].server = g[1]
    /\ \/ call[u].op = "enable" /\ call[u].agent = g[2]
       \/ at[u] = "item" /\ g[2] \in item[u]

\* A change under way has met every other that might undo it.
MetInv ==
    \A w \in Worker : \A u \in Worker \ {w} :
        call[w].op \in {"enable", "disable"} /\ call[u].server = call[w].server =>
            /\ Contrary(call[u], call[w]) => "contrary" \in met[w]
            /\ Stale(at[u], call[w]) => "stale" \in met[w]

\* A call that has been served, and met none that might undo it, is in effect.
ServedInv ==
    \A w \in Worker : at[w] = "served" /\ met[w] = {} =>
        /\ call[w].op = "enable" => call[w].agent \in allowed[call[w].server]
        /\ call[w].op = "disable" => call[w].agent \notin allowed[call[w].server]

\* No call under way can undo what callers were told.
ToldInv ==
    \A u \in Worker :
        /\ \A g \in enabled : ~ Takes(u, g)
        /\ \A g \in disabled : ~ Gives(u, g)

WordInv == StoreInv /\ MetInv /\ ServedInv /\ ToldInv /\ EnabledStays /\ DisabledStays

\* Only such a call changes whether a grant is in effect.
LEMMA WhoChanges ==
    ASSUME TypeInv, NEW u \in Worker, Step(u), NEW g \in Grant
    PROVE  /\ g[2] \in allowed[g[1]] /\ g[2] \notin allowed'[g[1]] => Takes(u, g)
           /\ g[2] \notin allowed[g[1]] /\ g[2] \in allowed'[g[1]] => Gives(u, g)
<1> USE DEF Serves, stored
<1>0. /\ call[u] \in Request \cup {Idle} /\ Located(u)
      /\ allowed \in [Server -> SUBSET Agent]
      /\ g[1] \in Server /\ g[2] \in Agent
  BY DEF TypeInv, TypeOK, Grant
<1>1. CASE CreateSet(u)
  BY <1>0, <1>1, CallTyped DEF CreateSet, Takes
<1>2. CASE Add(u)
  BY <1>0, <1>2, CallTyped DEF Add, Located, Gives
<1>3. CASE Discard(u)
  BY <1>0, <1>3, CallTyped DEF Discard, Takes
<1>4. CASE PutItem(u)
  BY <1>0, <1>4, CallTyped DEF PutItem, Answered, Takes
<1>5. CASE PutBack(u)
  <2>1. call[u] \in Change /\ at[u] = "item"
    BY <1>0, <1>5 DEF PutBack, Answered, Located
  <2>2. call[u].op \in {"enable", "disable"} /\ call[u].server \in Server
    BY <2>1 DEF Change
  <2> QED
    BY <1>0, <1>5, <2>1, <2>2 DEF PutBack, Answered, Changed, Takes, Gives
<1>6. CASE UNCHANGED allowed
  BY <1>6
<1> QED
  BY <1>1, <1>2, <1>3, <1>4, <1>5, <1>6
     DEF Step, Define, TestSet, GetItem, StartScan, Visit, EndScan, Return, Raise, Fail, Leave

LEMMA DriverStays == [Next]_vars => UNCHANGED driver
  BY DEF Next, vars, Arrive, Step, Define, TestSet, CreateSet, Add, Discard, PutItem, GetItem,
     PutBack, Answered, StartScan, Visit, EndScan, Return, Raise, Fail, Leave

LEMMA MetStep == StoreInv /\ MetInv /\ [Next]_vars => MetInv'
<1> SUFFICES ASSUME StoreInv, MetInv, [Next]_vars
             PROVE  MetInv'
  OBVIOUS
<1>1. CASE UNCHANGED vars
  BY <1>1 DEF vars, MetInv, Contrary, Stale, Memory
<1>2. CASE Watch
  <2> SUFFICES ASSUME NEW w \in Worker, NEW u \in Worker \ {w},
                      call'[w].op \in {"enable", "disable"},
                      call'[u].server = call'[w].server
               PROVE  /\ Contrary(call[u], call[w])' => "contrary" \in met'[w]
                      /\ Stale(at[u], call[w])' => "stale" \in met'[w]
    BY DEF MetInv
  <2> QED
    BY <1>2, DriverStays DEF Watch, Contrary, Stale, Memory
<1> QED
  BY <1>1, <1>2 DEF Next

\* A change goes on meeting what it has met.
LEMMA MetStays ==
    ASSUME Watch, NEW w \in Worker, call'[w].op \in {"enable", "disable"}
    PROVE  met[w] \subseteq met'[w]
  BY DEF Watch

LEMMA ServedStep == StoreInv /\ MetInv /\ ServedInv /\ [Next]_vars => ServedInv'
<1> SUFFICES ASSUME StoreInv, MetInv, ServedInv, [Next]_vars, NEW w \in Worker,
                    at'[w] = "served", met'[w] = {},
                    call'[w].op \in {"enable", "disable"}
             PROVE  /\ call'[w].op = "enable" => call'[w].agent \in allowed'[call'[w].server]
                    /\ call'[w].op = "disable" => call'[w].agent \notin allowed'[call'[w].server]
  BY DEF ServedInv
<1>0. /\ call \in [Worker -> Request \cup {Idle}] /\ at \in [Worker -> Place]
      /\ allowed \in [Server -> SUBSET Agent] /\ TypeInv
      /\ call[w] \in Request \cup {Idle} /\ Located(w) /\ Settled(w)
  BY DEF StoreInv, TypeInv, TypeOK
<1>1. CASE UNCHANGED vars
  BY <1>1 DEF vars, stored, ServedInv
<1>2. ASSUME NEW r \in Request, Arrive(w, r)
      PROVE  FALSE
  BY <1>0, <1>2 DEF Arrive, Go
<1>3. ASSUME NEW u \in Worker, u # w, NEW r \in Request, Arrive(u, r), Watch
      PROVE  /\ call'[w].op = "enable" => call'[w].agent \in allowed'[call'[w].server]
             /\ call'[w].op = "disable" => call'[w].agent \notin allowed'[call'[w].server]
  <2>1. call'[w] = call[w] /\ at'[w] = at[w] /\ UNCHANGED allowed /\ met[w] = {}
    BY <1>0, <1>3, OthersStay, MetStays DEF Arrive, stored
  <2> QED
    BY <2>1 DEF ServedInv
<1>4. ASSUME NEW u \in Worker, u # w, Step(u), Watch
      PROVE  /\ call'[w].op = "enable" => call'[w].agent \in allowed'[call'[w].server]
             /\ call'[w].op = "disable" => call'[w].agent \notin allowed'[call'[w].server]
  <2>1. call'[w] = call[w] /\ at[w] = "served" /\ met[w] = {}
    BY <1>0, <1>4, OthersStay, MetStays
  <2> DEFINE g == <<call[w].server, call[w].agent>>
  <2>2. g \in Grant /\ g[1] = call[w].server /\ g[2] = call[w].agent
    BY <1>0, <2>1, CallTyped DEF Grant
  <2>3. call[u].server = call[w].server =>
            ~ Contrary(call[u], call[w]) /\ ~ Stale(at[u], call[w])
    BY <1>4, <2>1 DEF MetInv
  <2>4. /\ call[w].op = "enable" => g[2] \in allowed[g[1]] /\ ~ Takes(u, g)
        /\ call[w].op = "disable" => g[2] \notin allowed[g[1]] /\ ~ Gives(u, g)
    BY <2>1, <2>2, <2>3 DEF ServedInv, Takes, Gives, Contrary, Stale
  <2> HIDE DEF g
  <2> QED
    BY <1>0, <1>4, <2>1, <2>2, <2>4, WhoChanges
<1>5. ASSUME Step(w)
      PROVE  /\ call'[w].op = "enable" => call'[w].agent \in allowed'[call'[w].server]
             /\ call'[w].op = "disable" => call'[w].agent \notin allowed'[call'[w].server]
  <2> USE <1>0, CallTyped DEF Go, Serves, stored, Located
  <2>1. CASE Add(w) \/ Discard(w)
    BY <2>1 DEF Add, Discard
  <2>2. ~ Leave(w)
    BY DEF Leave
  <2>3. CASE GetItem(w)
    BY <2>2, <2>3 DEF GetItem, Fail
  <2>4. CASE PutBack(w)
    BY <2>2, <2>4 DEF PutBack, Answered, Changed
  <2>5. CASE Define(w) \/ TestSet(w) \/ CreateSet(w) \/ PutItem(w)
    <3>1. call'[w].op \notin {"enable", "disable"} \/ at'[w] # "served"
      BY <2>2, <2>5 DEF Define, TestSet, CreateSet, PutItem, Answered
    <3> QED
      BY <3>1
  <2>6. CASE StartScan(w) \/ EndScan(w) \/ \E s \in Server : Visit(w, s)
    BY <2>2, <2>6 DEF StartScan, EndScan, Fail, Visit
  <2> QED
    BY <1>5, <2>1, <2>2, <2>3, <2>4, <2>5, <2>6 DEF Step, Return, Raise, Fail
<1> QED
  BY <1>1, <1>2, <1>3, <1>4, <1>5 DEF Next

LEMMA ToldStep ==
    StoreInv /\ MetInv /\ ToldInv /\ EnabledStays /\ DisabledStays /\ [Next]_vars => ToldInv'
<1> SUFFICES ASSUME StoreInv, MetInv, ToldInv, EnabledStays, DisabledStays, [Next]_vars,
                    NEW w \in Worker
             PROVE  /\ \A g \in enabled' : ~ Takes(w, g)'
                    /\ \A g \in disabled' : ~ Gives(w, g)'
  BY DEF ToldInv
<1> USE DEF Go, Serves, stored, frame, told
<1>0. /\ call \in [Worker -> Request \cup {Idle}] /\ at \in [Worker -> Place]
      /\ item \in [Worker -> SUBSET Agent] /\ TypeInv
      /\ enabled \subseteq Grant /\ disabled \subseteq Grant
      /\ \A g \in Grant : g[1] \in Server /\ g[2] \in Agent
      /\ call[w] \in Request \cup {Idle} /\ Located(w)
      /\ Memory' = Memory
  BY DriverStays DEF StoreInv, TypeInv, TypeOK, Grant, Memory
<1>1. CASE UNCHANGED vars
  BY <1>1 DEF vars, ToldInv, Takes, Gives, Memory
<1>2. ASSUME NEW r \in Request, Arrive(w, r)
      PROVE  /\ \A g \in enabled' : ~ Takes(w, g)'
             /\ \A g \in disabled' : ~ Gives(w, g)'
  <2>1. call'[w] = r /\ at'[w] = "called"
    BY <1>0, <1>2 DEF Arrive
  <2>2. \A g \in enabled' : /\ ~ (r.op = "disable" /\ g = <<r.server, r.agent>>)
                             /\ ~ (r.op = "put" /\ g[1] = r.server /\ ~ Memory)
                             /\ g \in Grant
    BY <1>0, <1>2 DEF Arrive, Doubt
  <2>3. \A g \in disabled' : ~ (r.op = "enable" /\ g = <<r.server, r.agent>>) /\ g \in Grant
    BY <1>0, <1>2 DEF Arrive, Doubt
  <2>4. \A g \in Grant : r.server = g[1] /\ r.agent = g[2] => g = <<r.server, r.agent>>
    BY DEF Grant
  <2> QED
    BY <1>0, <2>1, <2>2, <2>3, <2>4 DEF Takes, Gives
<1>3. ASSUME NEW u \in Worker, u # w, Step(u) \/ \E r \in Request : Arrive(u, r)
      PROVE  \A g : Takes(w, g)' = Takes(w, g) /\ Gives(w, g)' = Gives(w, g)
  BY <1>0, <1>3, OthersStay DEF Takes, Gives
<1>4. ASSUME NEW u \in Worker, u # w, NEW r \in Request, Arrive(u, r)
      PROVE  enabled' \subseteq enabled /\ disabled' \subseteq disabled
  BY <1>4 DEF Arrive, Doubt
<1>5. ASSUME NEW u \in Worker, Step(u), ~ Return(u)
      PROVE  UNCHANGED told
  BY <1>5 DEF Step, Define, TestSet, CreateSet, Add, Discard, PutItem, GetItem,
     PutBack, Answered, StartScan, Visit, EndScan, Raise, Fail
<1>6. ASSUME NEW u \in Worker, u # w, Return(u)
      PROVE  /\ \A g \in enabled' : ~ Takes(w, g)
             /\ \A g \in disabled' : ~ Gives(w, g)
  <2>1. call[u].op \in {"enable", "disable"} /\ met[u] = {} /\ call[w].server = call[u].server
            => ~ Contrary(call[w], call[u]) /\ ~ Stale(at[w], call[u])
    BY <1>6 DEF MetInv
  <2>2. ASSUME NEW g \in enabled' \ enabled
        PROVE  ~ Takes(w, g)
    <3>1. /\ g[1] = call[u].server /\ g[2] = call[u].agent
          /\ call[u].op = "enable" /\ met[u] = {}
      BY <1>6, <2>2 DEF Return, Confirm
    <3> QED
      BY <2>1, <3>1 DEF Takes, Contrary, Stale
  <2>3. ASSUME NEW g \in disabled' \ disabled
        PROVE  ~ Gives(w, g)
    <3>1. /\ g[1] = call[u].server /\ g[2] = call[u].agent
          /\ call[u].op = "disable" /\ met[u] = {}
      BY <1>6, <2>3 DEF Return, Confirm
    <3> QED
      BY <2>1, <3>1 DEF Gives, Contrary, Stale
  <2> QED
    BY <2>2, <2>3 DEF ToldInv
<1>7. ASSUME Return(w)
      PROVE  \A g \in Grant : ~ Takes(w, g)' /\ ~ Gives(w, g)'
  <2>1. call'[w] = Idle
    BY <1>0, <1>7 DEF Return, Leave
  <2> QED
    BY <1>0, <2>1, ServerAssumption DEF Takes, Gives, Idle
<1>8. ASSUME Step(w), ~ Return(w)
      PROVE  \A g \in Grant :
                /\ Takes(w, g)' => Takes(w, g) \/ g[2] \notin allowed[g[1]]
                /\ Gives(w, g)' => Gives(w, g) \/ g[2] \in allowed[g[1]]
  <2>1. CASE Leave(w)
    <3>1. call'[w] = Idle
      BY <1>0, <2>1 DEF Leave
    <3> QED
      BY <1>0, <3>1, ServerAssumption DEF Takes, Gives, Idle
  <2>2. CASE call'[w] = call[w] /\ at'[w] \notin {"create", "item"}
    BY <1>0, <2>2 DEF Takes, Gives
  <2>3. CASE TestSet(w)
    <3>1. call'[w] = call[w] /\ item'[w] = item[w]
      BY <2>3 DEF TestSet
    <3>2. at'[w] = "create" => Memory /\ call[w].server \notin keys
      BY <1>0, <2>3 DEF TestSet
    <3>3. at'[w] = "create" => \A g \in Grant : g[1] = call[w].server => allowed[g[1]] = {}
      BY <1>0, <3>2 DEF StoreInv, KeyInv
    <3>4. at'[w] # "item"
      BY <1>0, <2>3 DEF TestSet
    <3> QED
      BY <1>0, <3>1, <3>3, <3>4 DEF Takes, Gives
  <2>4. CASE GetItem(w) /\ at'[w] = "item"
    <3>1. call'[w] = call[w] /\ item'[w] = allowed[call[w].server] /\ at'[w] # "create"
      BY <1>0, <2>4 DEF GetItem, Fail, Leave
    <3> QED
      BY <1>0, <3>1 DEF Takes, Gives
  <2>5. CASE \E s \in Server : Visit(w, s)
    BY <1>0, <2>2, <2>5 DEF Visit
  <2> QED
    BY <1>0, <1>8, <2>1, <2>2, <2>3, <2>4, <2>5
       DEF Step, Define, CreateSet, Add, Discard, PutItem, GetItem, PutBack, Answered, StartScan, EndScan,
           Raise, Fail
<1>9. ASSUME Step(w), ~ Return(w)
      PROVE  /\ \A g \in enabled' : ~ Takes(w, g)'
             /\ \A g \in disabled' : ~ Gives(w, g)'
  BY <1>0, <1>5, <1>8, <1>9 DEF ToldInv, EnabledStays, DisabledStays
<1>10. enabled' \subseteq Grant /\ disabled' \subseteq Grant
  BY TypeStep DEF StoreInv, TypeOK, Grant
<1> QED
  <2>1. CASE \E u \in Worker : u # w /\ Step(u) /\ ~ Return(u)
    BY <1>3, <1>5, <2>1 DEF ToldInv
  <2>2. CASE \E u \in Worker : u # w /\ Return(u)
    BY <1>3, <1>6, <2>2 DEF Step
  <2>3. CASE \E u \in Worker : u # w /\ \E r \in Request : Arrive(u, r)
    BY <1>3, <1>4, <2>3 DEF ToldInv
  <2> QED
    BY <1>1, <1>2, <1>7, <1>9, <1>10, <2>1, <2>2, <2>3 DEF Next

LEMMA WordStep ==
    StoreInv /\ ServedInv /\ ToldInv /\ EnabledStays /\ DisabledStays /\ [Next]_vars
        => EnabledStays' /\ DisabledStays'
<1> SUFFICES ASSUME StoreInv, ServedInv, ToldInv, EnabledStays, DisabledStays, [Next]_vars
             PROVE  EnabledStays' /\ DisabledStays'
  OBVIOUS
<1>0. enabled \subseteq Grant /\ disabled \subseteq Grant /\ TypeInv
  BY DEF StoreInv, TypeInv, TypeOK
<1>1. CASE UNCHANGED vars
  BY <1>1 DEF vars, stored, told, EnabledStays, DisabledStays
<1>2. ASSUME NEW u \in Worker, NEW r \in Request, Arrive(u, r)
      PROVE  EnabledStays' /\ DisabledStays'
  <2>1. enabled' \subseteq enabled /\ disabled' \subseteq disabled /\ UNCHANGED allowed
    BY <1>2 DEF Arrive, Doubt, told, stored
  <2> QED
    BY <2>1 DEF EnabledStays, DisabledStays
<1>3. ASSUME NEW u \in Worker, Step(u), ~ Return(u)
      PROVE  EnabledStays' /\ DisabledStays'
  <2>1. UNCHANGED told
    BY <1>3 DEF Step, Define, TestSet, CreateSet, Add, Discard, PutItem, GetItem,
       PutBack, Answered, StartScan, Visit, EndScan, Raise, Fail
  <2> QED
    BY <1>0, <1>3, <2>1, WhoChanges DEF told, ToldInv, EnabledStays, DisabledStays
<1>4. ASSUME NEW u \in Worker, Return(u)
      PROVE  EnabledStays' /\ DisabledStays'
  <2>1. UNCHANGED allowed /\ at[u] = "served"
    BY <1>4 DEF Return, Leave, stored
  <2>2. \A g \in enabled' \ enabled :
            /\ g[1] = call[u].server /\ g[2] = call[u].agent
            /\ call[u].op = "enable" /\ met[u] = {}
    BY <1>4 DEF Return, Confirm
  <2>3. \A g \in disabled' \ disabled :
            /\ g[1] = call[u].server /\ g[2] = call[u].agent
            /\ call[u].op = "disable" /\ met[u] = {}
    BY <1>4 DEF Return, Confirm
  <2> QED
    BY <2>1, <2>2, <2>3 DEF ServedInv, EnabledStays, DisabledStays
<1> QED
  BY <1>1, <1>2, <1>3, <1>4 DEF Next

LEMMA WordInduction == Spec => []WordInv
<1>1. Init => WordInv
  <2> SUFFICES ASSUME Init
               PROVE  WordInv
    OBVIOUS
  <2>1. \A w \in Worker : call[w] = Idle /\ at[w] = "idle" /\ Idle.op = "none"
    BY DEF Init, Idle
  <2>2. MetInv /\ ServedInv
    BY <2>1 DEF MetInv, ServedInv
  <2>3. ToldInv /\ EnabledStays /\ DisabledStays
    BY DEF Init, ToldInv, EnabledStays, DisabledStays
  <2> QED
    BY <2>2, <2>3, StoreInit DEF WordInv
<1>2. WordInv /\ [Next]_vars => WordInv'
  BY StoreStep, MetStep, ServedStep, ToldStep, WordStep DEF WordInv
<1> QED
  BY <1>1, <1>2, PTL DEF Spec

(* On either store, and for any number of threads, a grant that was        *)
(* confirmed undisturbed stays until a call that takes it away is made.    *)
THEOREM GrantsStay == Spec => []EnabledStays
<1>1. WordInv => EnabledStays
  BY DEF WordInv
<1> QED
  BY <1>1, WordInduction, PTL

(* So does a revocation that was confirmed undisturbed, until the same     *)
(* access is granted again.                                                *)
THEOREM RevocationsStay == Spec => []DisabledStays
<1>1. WordInv => DisabledStays
  BY DEF WordInv
<1> QED
  BY <1>1, WordInduction, PTL

-----------------------------------------------------------------------------
(* Answers                                                                 *)

\* The servers a lookup would list if it saw the store at once.
Now(w) == ServersFor(call[w].agent, defined, allowed)

\* A server granted throughout a lookup is found, or still to be visited, or
\* new to a dict that has grown.
Scanned(w) ==
    /\ call[w] \in Lookup => always[w] \subseteq Now(w) /\ Now(w) \subseteq ever[w]
    /\ at[w] = "scan" =>
            /\ answer[w] \subseteq ever[w]
            /\ always[w] \subseteq answer[w] \cup todo[w] \cup (Server \ span[w])
            /\ IF Memory THEN span[w] \subseteq keys ELSE span[w] = Server
    /\ at[w] = "served" /\ call[w] \in Lookup =>
            always[w] \subseteq answer[w] /\ answer[w] \subseteq ever[w]

AnswerInv == StoreInv /\ \A w \in Worker : Scanned(w)

LEMMA WatchLookup ==
    ASSUME NEW w \in Worker, Watch, call'[w].op = "lookup"
    PROVE  /\ always'[w] \subseteq Now(w)' /\ Now(w)' \subseteq ever'[w]
           /\ call[w].op = "lookup" => always'[w] \subseteq always[w] /\ ever[w] \subseteq ever'[w]
  BY DEF Watch, Now

LEMMA ScannedStep == AnswerInv /\ [Next]_vars => \A w \in Worker : Scanned(w)'
<1> SUFFICES ASSUME AnswerInv, [Next]_vars, NEW w \in Worker
             PROVE  Scanned(w)'
  OBVIOUS
<1> USE DEF Go, Serves, stored, frame, told
<1>0. /\ call \in [Worker -> Request \cup {Idle}] /\ at \in [Worker -> Place]
      /\ call'[w] \in Request \cup {Idle} /\ Located(w)'
      /\ answer \in [Worker -> SUBSET Server] /\ todo \in [Worker -> SUBSET Server]
      /\ span \in [Worker -> SUBSET Server] /\ keys \subseteq Server
      /\ always'[w] \subseteq Server /\ always[w] \subseteq Server
      /\ defined \subseteq Server /\ TypeInv /\ KeyInv
      /\ Located(w) /\ Scanned(w) /\ Settled(w) /\ keys \subseteq keys'
  BY TypeStep, LocatedStep, KeyStep DEF AnswerInv, StoreInv, TypeInv, TypeOK
<1>1. CASE UNCHANGED vars
  BY <1>0, <1>1 DEF vars, Scanned, Now, Memory
<1>2. ASSUME NEW u \in Worker, u # w, Step(u) \/ \E r \in Request : Arrive(u, r), Watch
      PROVE  Scanned(w)'
  <2>0. UNCHANGED <<driver, call[w], at[w], answer[w], todo[w], span[w]>>
    BY <1>0, <1>2, OthersStay
  <2>1. CASE call[w] \in Lookup
    <3>1. call'[w].op = "lookup"
      BY <2>0, <2>1, <1>0, CallTyped
    <3> QED
      BY <1>0, <1>2, <2>0, <2>1, <3>1, WatchLookup DEF Scanned, Lookup, Memory
  <2>2. CASE call[w] \notin Lookup
    BY <1>0, <2>0, <2>2 DEF Scanned, Located
  <2> QED
    BY <2>1, <2>2
<1>3. ASSUME NEW r \in Request, Arrive(w, r), Watch
      PROVE  Scanned(w)'
  BY <1>0, <1>3, WatchLookup, CallTyped DEF Arrive, Scanned
<1>4. ASSUME Leave(w)
      PROVE  Scanned(w)'
  BY <1>0, <1>4 DEF Leave, Scanned, Idle, Lookup
<1>5. ASSUME Step(w), Watch, ~ Leave(w)
      PROVE  Scanned(w)'
  <2>0. call[w] \in Lookup <=> call[w].op = "lookup"
    BY <1>0, CallTyped
  <2>1. CASE call[w] \notin Lookup
    <3>1. ~ StartScan(w) /\ ~ EndScan(w) /\ (\A s \in Server : ~ Visit(w, s))
      BY <1>0, <2>0, <2>1 DEF StartScan, EndScan, Visit, Located
    <3>2. call'[w] = call[w] /\ at'[w] # "scan"
      BY <1>0, <1>5, <3>1 DEF Step, Define, TestSet, CreateSet, Add, Discard,
         PutItem, GetItem, PutBack, Answered, Raise, Fail, Return
    <3> QED
      BY <2>1, <3>2 DEF Scanned
  <2>2. CASE call[w] \in Lookup
    <3>1. CASE StartScan(w)
      BY <1>0, <1>5, <2>0, <2>2, <3>1, WatchLookup DEF StartScan, Scanned, Settled, Lookup, Memory
    <3>2. ASSUME NEW s \in Server, Visit(w, s)
          PROVE  Scanned(w)'
      <4>1. /\ call'[w] = call[w] /\ at'[w] = "scan" /\ at[w] = "scan"
            /\ UNCHANGED <<driver, span, defined, allowed, keys>>
            /\ todo'[w] = todo[w] \ {s}
            /\ answer'[w] = answer[w] \cup ({s} \cap Now(w))
        BY <1>0, <3>2 DEF Visit, Now
      <4>2. /\ always'[w] \subseteq Now(w)' /\ Now(w)' \subseteq ever'[w]
            /\ always'[w] \subseteq always[w] /\ ever[w] \subseteq ever'[w]
        BY <1>5, <2>0, <2>2, <4>1, WatchLookup
      <4>3. Now(w)' = Now(w)
        BY <4>1 DEF Now
      <4> QED
        BY <1>0, <2>2, <4>1, <4>2, <4>3 DEF Scanned, Memory
    <3>3. CASE EndScan(w)
      <4>1. /\ call'[w] = call[w] /\ at[w] = "scan" /\ at'[w] = "served"
            /\ UNCHANGED <<stored, driver, answer, todo, span>>
            /\ ~ Grown(w) /\ todo[w] = {}
        BY <1>0, <1>5, <3>3 DEF EndScan, Fail
      <4>2. /\ always'[w] \subseteq Now(w)' /\ Now(w)' \subseteq ever'[w]
            /\ always'[w] \subseteq always[w] /\ ever[w] \subseteq ever'[w]
        BY <1>5, <2>0, <2>2, <4>1, WatchLookup
      <4>3. Now(w)' = Now(w)
        BY <4>1 DEF Now
      <4>4. Memory => Now(w) \subseteq keys
        BY <1>0 DEF Now, ServersFor, KeyInv
      <4>5. always'[w] \subseteq span[w]
        BY <1>0, <4>1, <4>2, <4>3, <4>4 DEF Grown, Scanned
      <4> QED
        BY <1>0, <2>2, <4>1, <4>2, <4>5 DEF Scanned
    <3> QED
      BY <1>0, <1>5, <2>0, <2>2, <3>1, <3>2, <3>3, CallTyped
         DEF Step, Define, TestSet, CreateSet, Add, Discard, PutItem, GetItem, PutBack, Answered, Located,
             Raise, Fail, Return
  <2> QED
    BY <2>1, <2>2
<1> QED
  BY <1>1, <1>2, <1>3, <1>4, <1>5 DEF Next

(* Whatever the store and however many threads change it, an answer lists  *)
(* what was granted throughout the lookup and nothing that never was.      *)
THEOREM AnswersHonest == Spec => []AnswersAreHonest
<1>1. Init => AnswerInv
  <2> SUFFICES ASSUME Init
               PROVE  AnswerInv
    OBVIOUS
  <2> QED
    BY StoreInit DEF Init, AnswerInv, Scanned, Idle, Lookup
<1>2. AnswerInv /\ [Next]_vars => AnswerInv'
  BY StoreStep, ScannedStep DEF AnswerInv
<1>3. AnswerInv => AnswersAreHonest
  <2> SUFFICES ASSUME AnswerInv, NEW w \in Worker, Serves(w, "lookup", "served")
               PROVE  always[w] \subseteq answer[w] /\ answer[w] \subseteq ever[w]
    BY DEF AnswersAreHonest
  <2>1. call[w] \in Lookup
    BY CallTyped DEF Serves, AnswerInv, StoreInv, TypeInv, TypeOK
  <2> QED
    BY <2>1 DEF Serves, AnswerInv, Scanned
<1> QED
  BY <1>1, <1>2, <1>3, PTL DEF Spec

-----------------------------------------------------------------------------
(* The refinement                                                          *)

\* What thread w stands for does not change.
Same(w) == UNCHANGED <<call[w], Seen(w), Done(w), Looked(w), answer[w]>>

LEMMA OthersSame ==
    ASSUME StoreInv, NEW u \in Worker, Step(u) \/ \E r \in Request : Arrive(u, r),
           NEW w \in Worker, w # u
    PROVE  Same(w)
<1>1. UNCHANGED <<call[w], at[w], item[w], todo[w], answer[w]>>
  BY OthersStay DEF StoreInv
<1> QED
  BY <1>1 DEF Same, Seen, Done, Looked

\* To Grants, a step of thread w changes what concerns w only.
LEMMA OnlyOne ==
    ASSUME StoreInv, NEW w \in Worker, Step(w) \/ \E r \in Request : Arrive(w, r)
    PROVE  /\ [v \in Worker |-> Seen(v)]' = [[v \in Worker |-> Seen(v)] EXCEPT ![w] = Seen(w)']
           /\ [v \in Worker |-> Done(v)]' = [[v \in Worker |-> Done(v)] EXCEPT ![w] = Done(w)']
           /\ [v \in Worker |-> Looked(v)]'
                = [[v \in Worker |-> Looked(v)] EXCEPT ![w] = Looked(w)']
           /\ Seen(w)' = Seen(w) => UNCHANGED [v \in Worker |-> Seen(v)]
           /\ Done(w)' = Done(w) => UNCHANGED [v \in Worker |-> Done(v)]
           /\ Looked(w)' = Looked(w) => UNCHANGED [v \in Worker |-> Looked(v)]
<1>1. \A v \in Worker : v # w => Same(v)
  BY OthersSame
<1>2. /\ [v \in Worker |-> Seen(v)]' = [[v \in Worker |-> Seen(v)] EXCEPT ![w] = Seen(w)']
      /\ Seen(w)' = Seen(w) => UNCHANGED [v \in Worker |-> Seen(v)]
  BY <1>1 DEF Same
<1>3. /\ [v \in Worker |-> Done(v)]' = [[v \in Worker |-> Done(v)] EXCEPT ![w] = Done(w)']
      /\ Done(w)' = Done(w) => UNCHANGED [v \in Worker |-> Done(v)]
  BY <1>1 DEF Same
<1>4. /\ [v \in Worker |-> Looked(v)]' = [[v \in Worker |-> Looked(v)] EXCEPT ![w] = Looked(w)']
      /\ Looked(w)' = Looked(w) => UNCHANGED [v \in Worker |-> Looked(v)]
  BY <1>1 DEF Same
<1> QED
  BY <1>2, <1>3, <1>4

\* A step that only moves a thread is none of Grants.
LEMMA Stutters ==
    ASSUME StoreInv, NEW w \in Worker, Step(w) \/ \E r \in Request : Arrive(w, r),
           UNCHANGED <<defined, allowed, call, answer>>,
           Seen(w)' = Seen(w), Done(w)' = Done(w), Looked(w)' = Looked(w)
    PROVE  UNCHANGED Promise!vars
  BY OnlyOne DEF Promise!vars

\* The calls Grants knows of.
LEMMA AbstractCalls ==
    /\ Promise!Write = Put \cup Change
    /\ Promise!Lookup = Lookup
    /\ Promise!Idle = Idle
  BY DEF Promise!Write, Promise!Lookup, Promise!Idle, Put, Change, Lookup, Idle

\* A write changes what it has seen.
LEMMA Changes ==
    ASSUME StoreInv, NEW w \in Worker, call[w] \in Put \cup Change, at[w] # "served",
           NEW agents,
           IF Seen(w) = {} THEN agents = allowed[call[w].server] ELSE agents \in Seen(w),
           NEW made, allowed' = [allowed EXCEPT ![call[w].server] = made],
           \/ /\ call[w].op = "enable" /\ made = agents \cup {call[w].agent}
              /\ UNCHANGED defined
           \/ /\ call[w].op = "disable" /\ made = agents \ {call[w].agent}
              /\ UNCHANGED defined
           \/ /\ call[w].op = "put" /\ made \in {agents, {}}
              /\ defined' = defined \cup {call[w].server}
    PROVE  Promise!Pending(w) /\ Promise!Change(w)
<1>1. Promise!Pending(w)
  BY AbstractCalls DEF Promise!Pending, Done
<1>2. agents \in Promise!Base(w)
  BY DEF Promise!Base
<1>3. Promise!Enable(w) \/ Promise!Disable(w) \/ Promise!Put(w)
  BY <1>2 DEF Promise!Enable, Promise!Disable, Promise!Put, Promise!Become
<1> QED
  BY <1>1, <1>3 DEF Promise!Change

\* A write that is served takes effect.
LEMMA Effects ==
    ASSUME StoreInv, NEW w \in Worker, Step(w), call[w] \in Put \cup Change,
           UNCHANGED <<call, answer>>, at[w] # "served", at'[w] = "served",
           Promise!Pending(w) /\ Promise!Change(w)
    PROVE  Promise!Effect(w)
<1>1. Done(w)' = TRUE /\ Seen(w)' = {} /\ Looked(w)' = Looked(w)
  BY DEF Done, Seen, Looked, Put, Change
<1> QED
  BY <1>1, OnlyOne DEF Promise!Effect

\* A write looks at the server's agents.
LEMMA Sees ==
    ASSUME StoreInv, NEW w \in Worker, Step(w),
           call[w] \in Put \cup Change, at[w] # "served", at'[w] # "served",
           UNCHANGED <<defined, allowed, call, answer>>,
           Seen(w)' = {allowed[call[w].server]}
    PROVE  Promise!See(w)
<1>1. call[w] \in Promise!Write /\ call[w].op \in {"put", "enable", "disable"}
  BY AbstractCalls DEF Put, Change
<1>2. ~ Done(w) /\ Done(w)' = Done(w) /\ Looked(w)' = Looked(w)
  BY <1>1 DEF Done, Looked
<1> QED
  BY <1>1, <1>2, OnlyOne DEF Promise!See, Promise!Pending

\* A call ends.
LEMMA Leaves ==
    ASSUME StoreInv, NEW w \in Worker, Step(w), Leave(w)
    PROVE  Promise!Leave(w)
<1>1. call'[w] = Idle /\ at'[w] = "idle"
  BY DEF Leave, Go, StoreInv, TypeInv, TypeOK
<1>2. Seen(w)' = {} /\ Done(w)' = FALSE /\ Looked(w)' = {}
  BY <1>1 DEF Seen, Done, Looked, Idle
<1> QED
  BY <1>2, OnlyOne, AbstractCalls DEF Promise!Leave, Leave

LEMMA Begins ==
    ASSUME StoreInv, NEW w \in Worker, NEW r \in Request, Arrive(w, r)
    PROVE  Promise!Begin(w)
<1>1. /\ call[w] = Idle /\ call'[w] = r /\ at[w] = "idle" /\ at'[w] = "called"
      /\ UNCHANGED <<defined, allowed, answer>>
  BY DEF Arrive, Go, StoreInv, TypeInv, TypeOK, Located, stored, frame
<1>2. Seen(w)' = Seen(w) /\ Done(w)' = Done(w) /\ Looked(w)' = Looked(w)
  BY <1>1 DEF Seen, Done, Looked
<1>3. r \in Promise!Write \cup Promise!Lookup
  BY AbstractCalls DEF Request
<1> QED
  BY <1>1, <1>2, <1>3, OnlyOne, AbstractCalls DEF Promise!Begin, Arrive

LEMMA Fails ==
    ASSUME StoreInv, NEW w \in Worker, Step(w), Fail(w), at[w] \notin {"idle", "served"}
    PROVE  Promise!Fail(w)
<1>1. call[w] # Promise!Idle /\ ~ Done(w)
  BY AbstractCalls DEF StoreInv, TypeInv, Located, Done
<1>2. Promise!Leave(w) /\ UNCHANGED <<defined, allowed>>
  BY Leaves DEF Fail, stored
<1> QED
  BY <1>1, <1>2 DEF Promise!Fail

\* A write whose answer is lost fails and has taken effect.
LEMMA AnswersLost ==
    ASSUME StoreInv, NEW w \in Worker, PutItem(w) \/ PutBack(w), Leave(w)
    PROVE  Promise!Fail(w)
<1>0. /\ Located(w) /\ Settled(w) /\ Step(w) /\ Promise!Leave(w)
      /\ call[w] \in Request \cup {Idle} /\ defined \subseteq Server
  BY Leaves DEF StoreInv, TypeInv, TypeOK, Step
<1>1. CASE PutItem(w)
  <2>1. call[w].op = "put" /\ call[w] \in Put \cup Change /\ at[w] = "called" /\ Seen(w) = {}
    BY <1>0, <1>1, CallTyped DEF PutItem, Serves, Seen
  <2>2. allowed' = [allowed EXCEPT ![call[w].server] = {}]
        /\ defined' = defined \cup {call[w].server}
    BY <1>1 DEF PutItem
  <2>3. Promise!Pending(w) /\ Promise!Change(w)
    BY <2>1, <2>2, Changes
  <2>4. call[w] # Promise!Idle /\ ~ Done(w)
    BY <2>1, AbstractCalls DEF Done, Idle
  <2> QED
    BY <1>0, <2>3, <2>4 DEF Promise!Fail
<1>2. CASE PutBack(w)
  <2>1. /\ call[w].op \in {"enable", "disable"} /\ call[w] \in Put \cup Change
        /\ at[w] = "item" /\ Seen(w) = {item[w]} /\ UNCHANGED defined
        /\ allowed' = [allowed EXCEPT ![call[w].server] = Changed(w)]
    BY <1>0, <1>2 DEF PutBack, Located, Seen, Settled, Change
  <2>2. /\ call[w].op = "enable" => Changed(w) = item[w] \cup {call[w].agent}
        /\ call[w].op = "disable" => Changed(w) = item[w] \ {call[w].agent}
    BY DEF Changed
  <2>3. Promise!Pending(w) /\ Promise!Change(w)
    BY <2>1, <2>2, Changes
  <2>4. call[w] # Promise!Idle /\ ~ Done(w)
    BY <2>1, AbstractCalls DEF Done, Idle
  <2> QED
    BY <1>0, <2>3, <2>4 DEF Promise!Fail
<1> QED
  BY <1>1, <1>2

LEMMA Returns ==
    ASSUME StoreInv, NEW w \in Worker, Return(w)
    PROVE  Promise!End(w)
<1>1. Promise!Leave(w) /\ Done(w) /\ UNCHANGED <<defined, allowed>>
  BY Leaves DEF Return, Step, Done, stored
<1> QED
  BY <1>1 DEF Promise!End

LEMMA Writes ==
    ASSUME StoreInv, NEW w \in Worker, Step(w), call[w] \in Put \cup Change, ~ Leave(w)
    PROVE  \/ Promise!See(w) \/ Promise!Register(w) \/ Promise!Restore(w)
           \/ Promise!Effect(w) \/ UNCHANGED Promise!vars
<1> USE DEF Go, Serves, stored, frame
<1>0. /\ Located(w) /\ Settled(w) /\ KeyInv
      /\ at \in [Worker -> Place] /\ item \in [Worker -> SUBSET Agent]
      /\ allowed \in [Server -> SUBSET Agent] /\ defined \subseteq Server
      /\ call[w].op \in {"put", "enable", "disable"} /\ call[w].server \in Server
      /\ call[w].op # "put" <=> call[w] \in Change
  BY DEF StoreInv, TypeInv, TypeOK, Put, Change
<1>1. ~ StartScan(w) /\ ~ EndScan(w) /\ \A s \in Server : ~ Visit(w, s)
  BY <1>0 DEF StartScan, EndScan, Visit, Located, Put, Change, Lookup
<1>2. UNCHANGED <<call, answer>>
  BY <1>1 DEF Step, Define, TestSet, CreateSet, Add, Discard, PutItem, GetItem, PutBack, Answered,
     Raise, Return, Fail
<1>3. UNCHANGED allowed => allowed' = [allowed EXCEPT ![call[w].server] = allowed[call[w].server]]
  BY <1>0
<1>4. CASE Define(w)
  <2>1. /\ Seen(w)' = Seen(w) /\ Done(w)' = Done(w) /\ Looked(w)' = Looked(w)
        /\ ~ Done(w) /\ call[w].op = "put"
    BY <1>0, <1>2, <1>4 DEF Define, Seen, Done, Looked
  <2>2. defined' = defined \cup {call[w].server} /\ UNCHANGED allowed
    BY <1>4 DEF Define
  <2> QED
    BY <1>2, <2>1, <2>2, OnlyOne, AbstractCalls DEF Promise!Register, Promise!Pending
<1>5. CASE TestSet(w)
  <2>0. Memory /\ UNCHANGED <<defined, allowed>> /\ at[w] \in {"defined", "called"}
        /\ Seen(w) = {}
    BY <1>5 DEF TestSet, Seen
  <2>1. CASE at'[w] = "create"
    <3>1. call[w].server \notin keys
      BY <1>0, <1>5, <2>1 DEF TestSet
    <3>2. allowed[call[w].server] = {}
      BY <1>0, <2>0, <3>1 DEF KeyInv
    <3>3. Seen(w)' = {{}}
      BY <2>1 DEF Seen
    <3> QED
      BY <1>2, <2>0, <2>1, <3>2, <3>3, Sees
  <2>2. CASE at'[w] = "add"
    <3>1. Seen(w)' = Seen(w) /\ Done(w)' = Done(w) /\ Looked(w)' = Looked(w)
      BY <1>2, <1>0, <2>0, <2>2 DEF Seen, Done, Looked
    <3> QED
      BY <1>2, <2>0, <3>1, Stutters
  <2>3. CASE at'[w] = "served"
    <3>1. call[w].op = "put" /\ call[w].server \in defined
      BY <1>0, <1>5, <2>3 DEF TestSet, Settled
    <3>2. defined' = defined \cup {call[w].server}
      BY <2>0, <3>1
    <3> QED
      BY <1>2, <1>3, <2>0, <2>3, <3>1, <3>2, Changes, Effects
  <2> QED
    BY <1>0, <1>5, <2>1, <2>2, <2>3 DEF TestSet
<1>6. CASE CreateSet(w)
  <2>0. at[w] = "create" /\ Seen(w) = {{}} /\ UNCHANGED defined
        /\ allowed' = [allowed EXCEPT ![call[w].server] = {}]
    BY <1>6 DEF CreateSet, Seen
  <2>1. CASE call[w].op = "put"
    <3>1. at'[w] = "served" /\ defined' = defined \cup {call[w].server}
      BY <1>0, <1>6, <2>0, <2>1 DEF CreateSet, Settled
    <3> QED
      BY <1>2, <2>0, <2>1, <3>1, Changes, Effects
  <2>2. CASE call[w].op # "put"
    <3>1. at'[w] = "add"
      BY <1>0, <1>6, <2>2 DEF CreateSet
    <3>2. /\ Seen(w)' = {} /\ Done(w)' = Done(w) /\ Looked(w)' = Looked(w)
          /\ ~ Done(w)
      BY <1>0, <1>2, <2>0, <3>1 DEF Seen, Done, Looked
    <3> QED
      BY <1>2, <2>0, <3>2, OnlyOne, AbstractCalls
         DEF Promise!Restore, Promise!Pending, Promise!Become
  <2> QED
    BY <2>1, <2>2
<1>7. CASE Add(w)
  <2>1. call[w].op = "enable" /\ at[w] = "add" /\ at'[w] = "served" /\ Seen(w) = {}
    BY <1>0, <1>7 DEF Add, Located, Seen
  <2>2. allowed' = [allowed EXCEPT ![call[w].server] =
                        allowed[call[w].server] \cup {call[w].agent}]
    BY <1>7 DEF Add
  <2>3. UNCHANGED defined
    BY <1>7 DEF Add
  <2> QED
    BY <1>2, <2>1, <2>2, <2>3, Changes, Effects
<1>8. CASE Discard(w)
  <2>1. call[w].op = "disable" /\ at[w] = "called" /\ at'[w] = "served" /\ Seen(w) = {}
    BY <1>0, <1>8 DEF Discard, Seen
  <2>2. allowed' = [allowed EXCEPT ![call[w].server] =
                        allowed[call[w].server] \ {call[w].agent}]
    BY <1>8 DEF Discard
  <2>3. UNCHANGED defined
    BY <1>8 DEF Discard
  <2> QED
    BY <1>2, <2>1, <2>2, <2>3, Changes, Effects
<1>9. CASE PutItem(w)
  <2>1. call[w].op = "put" /\ at[w] = "called" /\ at'[w] = "served" /\ Seen(w) = {}
    BY <1>0, <1>9 DEF PutItem, Answered, Seen
  <2>2. allowed' = [allowed EXCEPT ![call[w].server] = {}]
        /\ defined' = defined \cup {call[w].server}
    BY <1>9 DEF PutItem, Answered
  <2> QED
    BY <1>2, <2>1, <2>2, Changes, Effects
<1>10. CASE GetItem(w)
  <2> DEFINE agents == allowed[call[w].server]
  <2>0. /\ call[w].op \in {"enable", "disable"} /\ at[w] = "called" /\ Seen(w) = {}
        /\ UNCHANGED <<defined, allowed>>
    BY <1>10 DEF GetItem, Fail, Seen
  <2>1. CASE (call[w].op = "enable") # (call[w].agent \in agents)
    <3>1. at'[w] = "item" /\ item'[w] = agents
      BY <1>0, <1>10, <2>1 DEF GetItem, Fail
    <3>2. Seen(w)' = {agents}
      BY <3>1 DEF Seen
    <3> QED
      BY <1>2, <2>0, <3>1, <3>2, Sees
  <2>2. CASE ~ ((call[w].op = "enable") # (call[w].agent \in agents))
    <3>1. at'[w] = "served"
      BY <1>0, <1>10, <2>2 DEF GetItem, Fail
    <3>2. CASE call[w].op = "enable"
      <4>1. agents = agents \cup {call[w].agent}
        BY <2>2, <3>2
      <4> QED
        BY <1>2, <1>3, <2>0, <3>1, <3>2, <4>1, Changes, Effects
    <3>3. CASE call[w].op = "disable"
      <4>1. agents = agents \ {call[w].agent}
        BY <2>2, <3>3
      <4> QED
        BY <1>2, <1>3, <2>0, <3>1, <3>3, <4>1, Changes, Effects
    <3> QED
      BY <2>0, <3>2, <3>3
  <2> QED
    BY <2>1, <2>2
<1>11. CASE PutBack(w)
  <2>1. /\ call[w].op \in {"enable", "disable"} /\ at[w] = "item" /\ at'[w] = "served"
        /\ Seen(w) = {item[w]} /\ UNCHANGED defined
        /\ allowed' = [allowed EXCEPT ![call[w].server] = Changed(w)]
    BY <1>0, <1>11 DEF PutBack, Answered, Located, Seen, Settled
  <2>2. CASE call[w].op = "enable"
    <3>1. Changed(w) = item[w] \cup {call[w].agent}
      BY <2>2 DEF Changed
    <3> QED
      BY <1>2, <2>1, <2>2, <3>1, Changes, Effects
  <2>3. CASE call[w].op = "disable"
    <3>1. Changed(w) = item[w] \ {call[w].agent}
      BY <2>3 DEF Changed
    <3> QED
      BY <1>2, <2>1, <2>3, <3>1, Changes, Effects
  <2> QED
    BY <2>1, <2>2, <2>3
<1> QED
  BY <1>1, <1>4, <1>5, <1>6, <1>7, <1>8, <1>9, <1>10, <1>11 DEF Step, Raise, Return, Fail

LEMMA Reads ==
    ASSUME StoreInv, NEW w \in Worker, Step(w), call[w] \in Lookup, ~ Leave(w)
    PROVE  (\E servers \in SUBSET Server : Promise!Look(w, servers)) \/ Promise!Complete(w)
<1> USE DEF Go, Serves, stored, frame
<1>0. /\ Located(w) /\ Settled(w) /\ KeyInv
      /\ at \in [Worker -> Place] /\ todo \in [Worker -> SUBSET Server]
      /\ answer \in [Worker -> SUBSET Server]
      /\ keys \subseteq Server /\ defined \subseteq Server
      /\ call[w].op = "lookup" /\ call[w] \in Promise!Lookup
  BY AbstractCalls DEF StoreInv, TypeInv, TypeOK, Lookup
<1>1. ASSUME UNCHANGED <<defined, allowed, call>>, at'[w] = "scan", at[w] \in {"called", "scan"},
             NEW servers \in SUBSET Server, servers \cap Looked(w) = {},
             Looked(w)' = Looked(w) \cup servers,
             answer' = [answer EXCEPT ![w] =
                @ \cup {s \in servers \cap defined : call[w].agent \in allowed[s]}]
      PROVE  Promise!Look(w, servers)
  <2>1. Seen(w)' = Seen(w) /\ Done(w)' = Done(w) /\ ~ Done(w)
    BY <1>0, <1>1 DEF Seen, Done
  <2>2. [v \in Worker |-> Looked(v)]'
            = [[v \in Worker |-> Looked(v)] EXCEPT ![w] = @ \cup servers]
    BY <1>1, OnlyOne
  <2> QED
    BY <1>0, <1>1, <2>1, <2>2, OnlyOne DEF Promise!Look
<1>2. CASE StartScan(w)
  <2>1. /\ UNCHANGED <<defined, allowed, call, answer>> /\ at[w] = "called" /\ at'[w] = "scan"
        /\ todo'[w] = IF Memory THEN keys ELSE Server
    BY <1>0, <1>2 DEF StartScan
  <2>2. Looked(w) = {} /\ Looked(w)' = Server \ todo'[w]
    BY <1>0, <2>1 DEF Looked
  <2>3. \A s \in Server \ todo'[w] : allowed[s] = {}
    BY <1>0, <2>1 DEF KeyInv
  <2>4. answer' = [answer EXCEPT ![w] = @ \cup
            {s \in (Server \ todo'[w]) \cap defined : call[w].agent \in allowed[s]}]
    BY <1>0, <2>1, <2>3
  <2> DEFINE servers == Server \ todo'[w]
  <2>5. servers \in SUBSET Server /\ servers \cap Looked(w) = {}
        /\ Looked(w)' = Looked(w) \cup servers
    BY <2>2
  <2> HIDE DEF servers
  <2>6. answer' = [answer EXCEPT ![w] = @ \cup
            {s \in servers \cap defined : call[w].agent \in allowed[s]}]
    BY <2>4 DEF servers
  <2> QED
    BY <1>1, <2>1, <2>5, <2>6
<1>3. ASSUME NEW s \in Server, Visit(w, s)
      PROVE  Promise!Look(w, {s})
  <2>1. /\ UNCHANGED <<defined, allowed, call>> /\ at[w] = "scan" /\ at'[w] = "scan"
        /\ s \in todo[w] /\ todo'[w] = todo[w] \ {s}
        /\ answer' = [answer EXCEPT ![w] = @ \cup
                ({s} \cap ServersFor(call[w].agent, defined, allowed))]
    BY <1>0, <1>3 DEF Visit
  <2>2. {s} \cap ServersFor(call[w].agent, defined, allowed)
            = {t \in {s} \cap defined : call[w].agent \in allowed[t]}
    BY DEF ServersFor
  <2>3. {s} \cap Looked(w) = {} /\ Looked(w)' = Looked(w) \cup {s}
    BY <1>0, <2>1 DEF Looked
  <2> QED
    BY <1>1, <2>1, <2>2, <2>3
<1>4. CASE EndScan(w)
  <2>1. /\ UNCHANGED <<defined, allowed, call, answer, todo>> /\ at[w] = "scan" /\ at'[w] = "served"
        /\ todo[w] = {}
    BY <1>0, <1>4 DEF EndScan, Fail
  <2>2. /\ Seen(w)' = Seen(w) /\ Done(w)' = TRUE /\ Looked(w)' = Looked(w)
        /\ Looked(w) = Server
    BY <1>0, <2>1 DEF Seen, Done, Looked
  <2> QED
    BY <1>0, <2>1, <2>2, OnlyOne DEF Promise!Complete
<1>5. ~ Define(w) /\ ~ TestSet(w) /\ ~ CreateSet(w) /\ ~ Add(w) /\ ~ Discard(w)
      /\ ~ PutItem(w) /\ ~ GetItem(w) /\ ~ PutBack(w)
  BY <1>0 DEF Define, TestSet, CreateSet, Add, Discard, PutItem, GetItem, PutBack, Answered, Located,
     Put, Change
<1> QED
  BY <1>2, <1>3, <1>4, <1>5 DEF Step, Raise, Return, Fail

\* A step of the registry is a step of Grants, or none.
LEMMA Simulation == StoreInv /\ [Next]_vars => [Promise!Next]_(Promise!vars)
<1> SUFFICES ASSUME StoreInv, [Next]_vars
             PROVE  Promise!Next \/ UNCHANGED Promise!vars
  OBVIOUS
<1>1. CASE UNCHANGED vars
  BY <1>1 DEF vars, stored, frame, Promise!vars, Seen, Done, Looked
<1>2. ASSUME NEW w \in Worker, NEW r \in Request, Arrive(w, r)
      PROVE  Promise!Next
  BY <1>2, Begins DEF Promise!Next
<1>3. ASSUME NEW w \in Worker, Step(w)
      PROVE  Promise!Next \/ UNCHANGED Promise!vars
  <2>0. call[w] \in Request \cup {Idle} /\ Located(w) /\ at \in [Worker -> Place]
    BY DEF StoreInv, TypeInv, TypeOK
  <2>1. at[w] # "idle" /\ call[w] # Idle
    BY <1>3, <2>0 DEF Step, Define, TestSet, CreateSet, Add, Discard, PutItem, GetItem, PutBack, Answered,
       Raise, StartScan, Visit, EndScan, Return, Serves, Located
  <2>2. CASE Leave(w)
    <3>1. CASE Return(w)
      BY <3>1, Returns DEF Promise!Next
    <3>2. CASE (PutItem(w) \/ PutBack(w)) /\ ~ Return(w)
      BY <2>2, <3>2, AnswersLost DEF Promise!Next
    <3>3. CASE ~ (Return(w) \/ PutItem(w) \/ PutBack(w))
      <4>1. at'[w] = "idle"
        BY <2>0, <2>2 DEF Leave, Go
      <4>2. GetItem(w) \/ EndScan(w) \/ Raise(w)
        BY <1>3, <2>0, <2>1, <3>3, <4>1 DEF Step, Define, TestSet, CreateSet, Add, Discard,
           StartScan, Visit, Go
      <4>3. Fail(w) /\ at[w] # "served"
        BY <2>0, <4>1, <4>2 DEF GetItem, EndScan, Raise, Go
      <4> QED
        BY <1>3, <2>1, <4>3, Fails DEF Promise!Next
    <3> QED
      BY <3>1, <3>2, <3>3
  <2>3. CASE call[w] \in Put \cup Change /\ ~ Leave(w)
    BY <1>3, <2>3, Writes DEF Promise!Next
  <2>4. CASE call[w] \in Lookup /\ ~ Leave(w)
    BY <1>3, <2>4, Reads DEF Promise!Next
  <2> QED
    BY <2>0, <2>1, <2>2, <2>3, <2>4 DEF Request
<1> QED
  BY <1>1, <1>2, <1>3 DEF Next

(* On either store, and for any number of threads, the registry implements *)
(* Grants: what a call writes is made of what it has seen, and nothing     *)
(* else changes who may use a server.                                      *)
THEOREM Refinement == Spec => KeepsPromise
<1> SUFFICES Spec => Promise!Spec
  BY DEF KeepsPromise
<1>1. Init => Promise!Init
  <2> SUFFICES ASSUME Init
               PROVE  Promise!Init
    OBVIOUS
  <2>1. \A w \in Worker : Seen(w) = {} /\ Done(w) = FALSE /\ Looked(w) = {}
    BY DEF Init, Idle, Seen, Done, Looked
  <2>2. /\ [w \in Worker |-> Seen(w)] = [w \in Worker |-> {}]
        /\ [w \in Worker |-> Done(w)] = [w \in Worker |-> FALSE]
        /\ [w \in Worker |-> Looked(w)] = [w \in Worker |-> {}]
    BY <2>1
  <2> QED
    BY <2>2, AbstractCalls, ServerAssumption DEF Init, Promise!Init
<1> QED
  BY <1>1, StoreInduction, Simulation, PTL DEF Spec, Promise!Spec
=============================================================================
