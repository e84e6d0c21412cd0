----------------------------- MODULE TaskEvents -----------------------------
(* What executors publish about a task (src/distributed_a2a/executors.py). *)

\* The artifact that carries the result; files come as artifacts of their own
Artifact == {"current_result", "routing_error", "target_agent"}

\* The final states of an executor's tasks
Final == {"completed", "failed", "input_required"}

Event == {"working", "file"} \cup Artifact \cup Final

\* The results with the states they go with: an agent's answer has the state
\* the agent gives it
Ending == ({"current_result"} \X Final)
            \cup {<<"target_agent", "completed">>, <<"routing_error", "failed">>}

-----------------------------------------------------------------------------
(* What may be published next of a task that has a state, perhaps a        *)
(* control artifact and a file.                                            *)

\* execute publishes files before the text of an agent's answer
MayAddFile(router, task) ==
    ~ router /\ task.state = "working" /\ task.artifact = "none"

\* The answer, or what became of routing, which has no files
MayAddArtifact(task, artifact) ==
    /\ task.state = "working" /\ task.artifact = "none"
    /\ task.file => artifact = "current_result"

\* The final state, last.  A router's own answer is always complete.
MayAddState(router, task, state) ==
    /\ task.state = "working"
    /\ <<task.artifact, state>> \in Ending
    /\ router /\ task.artifact = "current_result" => state = "completed"
=============================================================================
