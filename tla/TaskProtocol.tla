---------------------------- MODULE TaskProtocol ----------------------------
(***************************************************************************)
(* What the clients of executors may rely on: how a task grows, event by   *)
(* event, as they read it from the task store.  AgentExecutor implements   *)
(* this; the executors of Conversation publish by the same rules.          *)
(***************************************************************************)
EXTENDS TaskEvents

CONSTANTS
    Turn,   \* the calls of execute, each with its task
    Router  \* those of a RoutingExecutor

VARIABLE task  \* turn -> what has been published of its task

Fresh == [state |-> "working", artifact |-> "none", file |-> FALSE]

\* The task k of t after one more event
OneMore(t, k) ==
    (IF MayAddFile(t \in Router, k) THEN {[k EXCEPT !.file = TRUE]} ELSE {})
    \cup {[k EXCEPT !.artifact = a] : a \in {b \in Artifact : MayAddArtifact(k, b)}}
    \cup {[k EXCEPT !.state = s] : s \in {u \in Final : MayAddState(t \in Router, k, u)}}

Grown(t, tasks) == tasks \cup UNION {OneMore(t, k) : k \in tasks}

-----------------------------------------------------------------------------
Init == task = [t \in Turn |-> Fresh]

\* Some events; more than three change nothing else, as files are not counted
Publish(t) ==
    \E new \in Grown(t, Grown(t, Grown(t, {task[t]}))) :
        task' = [task EXCEPT ![t] = new]

Next == \E t \in Turn : Publish(t)

Spec == Init /\ [][Next]_task
=============================================================================
