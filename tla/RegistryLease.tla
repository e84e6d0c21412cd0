--------------------------- MODULE RegistryLease ---------------------------
(***************************************************************************)
(* The registration of agents: the heartbeat task each agent server runs   *)
(* (src/distributed_a2a/registry.py, server.py) and the store behind the   *)
(* registry's agent endpoints (src/distributed_a2a/registry_server).       *)
(*                                                                         *)
(* Time is counted in ticks of the registry's clock, and every expire_at   *)
(* is kept as the ticks left until then; -1 stands for any time past.  A   *)
(* request is served in one step; its sender hears of it later, or never.  *)
(***************************************************************************)
EXTENDS Integers, FiniteSets

CONSTANTS
    Inst,        \* processes that serve an agent
    AgentName,   \* names agents register under
    Name,        \* process -> name of its card (two may share one)
    NoCard,      \* an item of the store without a card
    Absent,      \* no item in the store
    Interval,    \* HEART_BEAT_INTERVAL_SEC
    Ttl,         \* MAX_HEART_BEAT_MISSES * HEART_BEAT_INTERVAL_SEC
    Skew,        \* process -> its clock minus the registry's
    CallTimeout, \* the longest a request to the registry is waited for
    Drivers,     \* stores the registry may be started with
    EnforceTtl,  \* enforce_ttl of the in-memory store
    MaxStrays,   \* driver -> requests given up by their sender that may still
                 \* be on their way
    Horizon      \* how far the history variables count

ASSUME InstAssumption ==
    /\ Name \in [Inst -> AgentName]
    /\ NoCard \notin Inst /\ Absent \notin Inst /\ NoCard # Absent

ASSUME TimeAssumption ==
    /\ Interval \in Nat \ {0} /\ Ttl \in Nat /\ CallTimeout \in Nat
    /\ Horizon \in Nat
    /\ Skew \in [Inst -> Int]
    /\ \A i \in Inst : Ttl + Skew[i] \in Nat /\ Horizon > Ttl + Skew[i]

ASSUME StoreAssumption ==
    Drivers \subseteq {"memory", "dynamodb"} /\ EnforceTtl \in BOOLEAN

VARIABLES
    driver,  \* the store: the process's memory, or DynamoDB
    stored,  \* name -> process whose card the store has, NoCard or Absent
    left,    \* name -> ticks until the item's expire_at
    beat,    \* process -> where its heartbeat task is
    timer,   \* process -> ticks its present await can still last
    offer,   \* process -> ticks left of the expire_at it is sending
    served,  \* process -> whether its present request has been served
    stray,   \* requests given up by their sender that may yet be served
    \* History, read by the properties only:
    since,   \* process -> ticks since it was last up, up to Horizon
    keeper,  \* name -> process whose request was the last to be served for
             \* it, if that left a card and the process has not stopped since
    spent    \* name -> what its keeper has lost since it sent that request: a
             \* tick for a tick it waits for the registry, and an Interval for
             \* a round that has failed

store == <<stored, left>>
task == <<beat, timer, offer, served>>
kept == <<keeper, spent>>
history == <<since, kept>>
vars == <<driver, store, task, stray, history>>

-----------------------------------------------------------------------------
Max(a, b) == IF a > b THEN a ELSE b
Min(a, b) == IF a < b THEN a ELSE b

\* A tick brings a moment nearer; what is past stays past
Ticked(ticks) == Max(ticks - 1, -1)

\* The history variables count up to Horizon
Counted(ticks) == Min(ticks, Horizon)

Dynamo == driver = "dynamodb"

Up(i) == beat[i] # "down"
Calling(i) == beat[i] \in {"put", "patch", "reput"}

\* Mutant of Lease: twice the lease
DoubleLease(i) == 2 * (Ttl + Skew[i])

\* get_expire_at(), seen from the registry's clock.  (int() takes off a part
\* of a second, less than a tick.)
Lease(i) == Ttl + Skew[i]

Moment == -1 .. Horizon
Request == [inst: Inst, op: {"put", "patch"}, left: Moment]

\* The request the heartbeat task of i is waiting for
Pending(i) == [inst |-> i, op |-> IF beat[i] = "patch" THEN "patch" ELSE "put",
               left |-> offer[i]]

\* get_agent_card(n) returns a card.  DynamoDB evicts what has expired some
\* time later (Evict); only the in-memory store looks at expire_at, if told.
Found(n) == /\ stored[n] \in Inst
            /\ ~ Dynamo /\ EnforceTtl => left[n] >= 0

-----------------------------------------------------------------------------
Init ==
    /\ driver \in Drivers
    /\ stored = [n \in AgentName |-> Absent]
    /\ left = [n \in AgentName |-> -1]
    /\ beat = [i \in Inst |-> "down"]
    /\ timer = [i \in Inst |-> 0]
    /\ offer = [i \in Inst |-> -1]
    /\ served = [i \in Inst |-> FALSE]
    /\ stray = {}
    /\ since = [i \in Inst |-> Horizon]
    /\ keeper = [n \in AgentName |-> Absent]
    /\ spent = [n \in AgentName |-> 0]

(* The store                                                               *)

\* put_agent_card: the item is replaced
PutCard(n, i, ticks) ==
    /\ stored' = [stored EXCEPT ![n] = i]
    /\ left' = [left EXCEPT ![n] = ticks]

\* Mutants of UpdateExpiry: the ticks are added to what is left ...
ExtendExpiry(n, ticks) ==
    /\ left' = [left EXCEPT ![n] = IF stored[n] = Absent THEN @ ELSE Max(@, 0) + ticks]
    /\ UNCHANGED stored

\* ... an item that has expired is ignored like one that is absent
UpdateLiveExpiry(n, ticks) ==
    /\ left' = [left EXCEPT ![n] = IF @ < 0 THEN @ ELSE ticks]
    /\ UNCHANGED stored

\* update_agent_expiry: an item that is not there is ignored by the
\* in-memory store, and made, without a card, by DynamoDB's update_item
UpdateExpiry(n, ticks) ==
    \/ /\ stored[n] # Absent
       /\ left' = [left EXCEPT ![n] = ticks]
       /\ UNCHANGED stored
    \/ /\ stored[n] = Absent
       /\ Dynamo
       /\ stored' = [stored EXCEPT ![n] = NoCard]
       /\ left' = [left EXCEPT ![n] = ticks]
    \/ /\ stored[n] = Absent
       /\ ~ Dynamo
       /\ UNCHANGED store

\* The endpoint of request r
Endpoint(r) ==
    \/ r.op = "put" /\ PutCard(Name[r.inst], r.inst, r.left)
    \/ r.op = "patch" /\ UpdateExpiry(Name[r.inst], r.left)

\* Names whose item is not, or no longer, kept by a request of an agent
Forget(gone) ==
    /\ keeper' = [n \in AgentName |-> IF n \in gone THEN Absent ELSE keeper[n]]
    /\ spent' = [n \in AgentName |-> IF n \in gone THEN 0 ELSE spent[n]]

\* A request that i sent some ticks ago has been served for n
Keep(n, i, ticks) ==
    \/ /\ stored'[n] \in Inst
       /\ keeper' = [keeper EXCEPT ![n] = i]
       /\ spent' = [spent EXCEPT ![n] = Counted(ticks)]
    \/ stored'[n] \notin Inst /\ Forget({n})

\* The process that keeps the in-memory store restarts
Restart ==
    /\ ~ Dynamo
    /\ stored' = [n \in AgentName |-> Absent]
    /\ left' = [n \in AgentName |-> -1]
    /\ Forget(AgentName)
    /\ UNCHANGED <<driver, task, stray, since>>

\* DynamoDB's TTL process deletes an item whose expireAt has passed
Evict(n) ==
    /\ Dynamo
    /\ stored[n] # Absent
    /\ left[n] < 0
    /\ stored' = [stored EXCEPT ![n] = Absent]
    /\ Forget({n})
    /\ UNCHANGED <<driver, left, task, stray, since>>

(* The heartbeat task                                                      *)

\* A request is sent, with the expire_at of this moment
Send(i, b) ==
    /\ beat' = [beat EXCEPT ![i] = b]
    /\ timer' = [timer EXCEPT ![i] = CallTimeout]
    /\ offer' = [offer EXCEPT ![i] = Lease(i)]
    /\ served' = [served EXCEPT ![i] = FALSE]

Leave(i, b, ticks) ==
    /\ beat' = [beat EXCEPT ![i] = b]
    /\ timer' = [timer EXCEPT ![i] = ticks]
    /\ offer' = [offer EXCEPT ![i] = -1]
    /\ served' = [served EXCEPT ![i] = FALSE]

\* The lifespan of the server starts the task, which registers first
Boot(i) ==
    /\ ~ Up(i)
    /\ Send(i, "put")
    /\ since' = [since EXCEPT ![i] = 0]
    /\ UNCHANGED <<driver, store, stray, kept>>

\* The registry serves the request i is waiting for
Serve(i) ==
    /\ Calling(i)
    /\ ~ served[i]
    /\ Endpoint(Pending(i))
    /\ served' = [served EXCEPT ![i] = TRUE]
    /\ Keep(Name[i], i, CallTimeout - timer[i])
    /\ UNCHANGED <<driver, beat, timer, offer, stray, since>>

\* Mutant of Return: the task sleeps for as long as the lease lasts
ReturnLate(i) ==
    /\ Calling(i)
    /\ served[i]
    /\ \/ beat[i] = "put" /\ Send(i, "patch")
       \/ beat[i] \in {"patch", "reput"} /\ Leave(i, "sleep", Ttl)
    /\ UNCHANGED <<driver, store, stray, history>>

\* The awaited request returns: after the first PUT the loop begins with a
\* PATCH, and after a PATCH or the PUT that makes up for one it sleeps
Return(i) ==
    /\ Calling(i)
    /\ served[i]
    /\ \/ beat[i] = "put" /\ Send(i, "patch")
       \/ beat[i] \in {"patch", "reput"} /\ Leave(i, "sleep", Interval)
    /\ UNCHANGED <<driver, store, stray, history>>

\* A request whose sender no longer waits is lost, or on its way
Abandon(i) ==
    \/ UNCHANGED stray
    \/ /\ Calling(i)
       /\ ~ served[i]
       /\ Cardinality(stray) < MaxStrays[driver]
       /\ stray' = stray \cup {Pending(i)}

\* The awaited request raises (time-out, connection, error status), whether
\* or not it was served: a failed PATCH is made up for by a PUT
Raise(i) ==
    /\ \/ /\ beat[i] = "put"
          /\ Send(i, "patch")
          /\ UNCHANGED spent
       \/ /\ beat[i] = "patch"
          /\ Send(i, "reput")
          /\ UNCHANGED spent
       \/ /\ beat[i] = "reput"
          /\ Leave(i, "sleep", Interval)
          /\ spent' = [n \in AgentName |-> IF keeper[n] = i
                                THEN Counted(spent[n] + Interval) ELSE spent[n]]
    /\ Abandon(i)
    /\ UNCHANGED <<driver, store, since, keeper>>

\* The sleep between two rounds is over
Wake(i) ==
    /\ beat[i] = "sleep"
    /\ timer[i] = 0
    /\ Send(i, "patch")
    /\ UNCHANGED <<driver, store, stray, history>>

\* The server shuts down and cancels the task, or its process dies
Stop(i) ==
    /\ Up(i)
    /\ Leave(i, "down", 0)
    /\ Forget({n \in AgentName : keeper[n] = i})
    /\ Abandon(i)
    /\ UNCHANGED <<driver, store, since>>

\* The registry serves a request its sender has given up
ServeStray ==
    \E r \in stray :
        /\ Endpoint(r)
        /\ stray' = stray \ {r}
        /\ Forget({Name[r.inst]})
        /\ UNCHANGED <<driver, task, since>>

\* Time passes, but not past the end of an await
Tick ==
    /\ \A i \in Inst : Up(i) => timer[i] > 0
    /\ left' = [n \in AgentName |-> Ticked(left[n])]
    /\ timer' = [i \in Inst |-> IF Up(i) THEN timer[i] - 1 ELSE timer[i]]
    /\ offer' = [i \in Inst |-> Ticked(offer[i])]
    /\ stray' = {[r EXCEPT !.left = Ticked(@)] : r \in stray}
    /\ since' = [i \in Inst |-> IF Up(i) THEN 0 ELSE Counted(since[i] + 1)]
    /\ spent' = [n \in AgentName |->
            IF \E i \in Inst : keeper[n] = i /\ Calling(i)
            THEN Counted(spent[n] + 1) ELSE spent[n]]
    /\ UNCHANGED <<driver, stored, beat, served, keeper>>

Next ==
    \/ Restart
    \/ \E n \in AgentName : Evict(n)
    \/ \E i \in Inst : \/ Boot(i) \/ Serve(i) \/ Return(i)
                       \/ Raise(i) \/ Wake(i) \/ Stop(i)
    \/ ServeStray
    \/ Tick

\* The registry serves a PUT, or a PATCH, before its expire_at is past
ServeInTime(i, op) ==
    /\ Pending(i).op = op /\ offer[i] >= 0
    /\ Serve(i)

\* Time goes on, asyncio resumes the task when its await is over, and of the
\* requests of a kind that are sent again and again one is served in time.
Fairness ==
    /\ WF_vars(Tick)
    /\ \A i \in Inst : /\ WF_vars(Return(i) \/ Raise(i))
                       /\ WF_vars(Wake(i))
                       /\ \A op \in {"put", "patch"} :
                            SF_vars(ServeInTime(i, op))

Spec == Init /\ [][Next]_vars /\ Fairness

-----------------------------------------------------------------------------
TypeOK ==
    /\ driver \in Drivers
    /\ stored \in [AgentName -> Inst \cup {NoCard, Absent}]
    /\ left \in [AgentName -> Moment]
    /\ beat \in [Inst -> {"down", "put", "patch", "reput", "sleep"}]
    /\ timer \in [Inst -> 0 .. Max(CallTimeout, Interval)]
    /\ offer \in [Inst -> Moment]
    /\ served \in [Inst -> BOOLEAN]
    /\ stray \subseteq Request
    /\ since \in [Inst -> 0 .. Horizon]
    /\ keeper \in [AgentName -> Inst \cup {Absent}]
    /\ spent \in [AgentName -> 0 .. Horizon]

(* A lease does not outlive its agent: an item that has not expired is     *)
(* owed to a process of that name that was up within its lease, even when  *)
(* requests arrive late, processes share a name and clocks differ          *)
(* (server.py:25, registry.py:32-49).                                      *)
LeaseBound ==
    \A n \in AgentName : stored[n] # Absent /\ left[n] >= 0 =>
        \E i \in Inst : Name[i] = n /\ left[n] + since[i] <= Lease(i)

(* A running agent stays found, from the request that found or made its    *)
(* card until the rounds that fail and the waiting for the registry have   *)
(* used up its lease but for one more sleep.  With the values of the code, *)
(* a lease of 15 s survives two failed rounds of 5 s in a row, or 10 s of  *)
(* waiting, but not the 30 s a single request may hang                     *)
(* (registry.py:38-49, 63, server.py:21-26).                               *)
LiveFound ==
    \A n \in AgentName : \A i \in Inst :
        keeper[n] = i /\ spent[n] + Interval <= Lease(i) => Found(n)

(* In the in-memory store an agent whose lease has lapsed while it was up,  *)
(* or that has restarted, is found again: a PATCH served in time revives   *)
(* its item (registry.py:40, in_memory_registry_storage.py:96-99).         *)
FoundAgain ==
    ~ Dynamo => \A i \in Inst :
        stored[Name[i]] \in Inst /\ Up(i)
            ~> Found(Name[i]) \/ ~ Up(i) \/ stored[Name[i]] = Absent

\* Every item has the card that get_agent_cards reads (dynamo_db.py:42)
Listable == \A n \in AgentName : stored[n] # NoCard

\* get_agent_cards, which routers choose from, returns the card of n
Listed(n) == Listable /\ Found(n)

(* An agent that is up gets into the listing, whatever happened to its     *)
(* first requests: heartbeats keep the registration alive, a failed one    *)
(* registers again, and the listing has all agents (registry.py:22, 42,    *)
(* dynamo_db.py:36).                                                       *)
UpGetsListed == \A i \in Inst : Up(i) ~> Listed(Name[i]) \/ ~ Up(i)

=============================================================================
