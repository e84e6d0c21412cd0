------------------------ MODULE AgentExecutorProofs ------------------------
(* Proofs about the turns of an executor.                                  *)
EXTENDS AgentExecutor, SequenceTheorems, TLAPS

-----------------------------------------------------------------------------
(* Types                                                                   *)

\* The saver of an agent is one of those there are.
LEMMA SaverTyped == \A a \in Agent : Saver(a) \in Turn \cup {None}
  BY DEF Saver, Agent

LEMMA PublishTyped ==
    ASSUME TypeOK, NEW t \in Turn, NEW events \in Seq(Event), Publish(t, events)
    PROVE  log' \in [Turn -> Seq(Event)]
<1>1. log[t] \o events \in Seq(Event)
  BY DEF TypeOK
<1> QED
  BY <1>1 DEF TypeOK, Publish

\* What execute publishes are events.
LEMMA EventsTyped ==
    /\ <<>> \in Seq(Event) /\ <<"working">> \in Seq(Event)
    /\ \A a \in Artifact, s \in Final : <<a, s>> \in Seq(Event)
    /\ \A s \in Final : /\ <<>> \o <<"current_result", s>> \in Seq(Event)
                        /\ <<"file">> \o <<"current_result", s>> \in Seq(Event)
<1>1. <<"working">> \in Seq(Event) /\ <<"file">> \in Seq(Event) /\ <<>> \in Seq(Event)
  BY DEF Event
<1>2. \A a \in Artifact, s \in Final : <<a, s>> \in Seq(Event)
  BY DEF Event
<1>3. "current_result" \in Artifact
  BY DEF Artifact
<1> QED
  BY <1>1, <1>2, <1>3

LEMMA FailTyped ==
    ASSUME TypeOK, NEW t \in Turn, NEW artifact \in Artifact, Fail(t, artifact),
           saved' \in [Turn \cup {None} -> [Conversation -> Checkpoint]],
           kept' \in SUBSET Turn
    PROVE  TypeOK'
<1>1. <<artifact, "failed">> \in Seq(Event)
  BY EventsTyped DEF Final
<1>2. log' \in [Turn -> Seq(Event)]
  BY <1>1, PublishTyped DEF Fail
<1> QED
  BY <1>2 DEF TypeOK, Fail, Goto

LEMMA BrokenTyped == \A t \in Turn : Broken(t) \in Artifact
  BY DEF Broken, Artifact

LEMMA InvokeTyped ==
    ASSUME TypeOK, NEW t \in Turn, NEW a \in Agent, Invoke(t, a)
    PROVE  /\ runs' \in [Turn -> Agent]
           /\ loaded' \in [Turn -> Checkpoint]
<1>1. saved[Saver(a)][Of[t]] \in Checkpoint
  BY SaverTyped, TurnAssumption DEF TypeOK
<1> QED
  BY <1>1 DEF TypeOK, Invoke

LEMMA SaveTyped ==
    ASSUME TypeOK, NEW t \in Turn, NEW new \in SUBSET Turn, Save(t, new)
    PROVE  /\ saved' \in [Turn \cup {None} -> [Conversation -> Checkpoint]]
           /\ kept' \in SUBSET Turn
<1> DEFINE s == Saver(runs[t])
           c == [loaded[t] EXCEPT !.files = @ \cup new]
<1>1. s \in Turn \cup {None} /\ Of[t] \in Conversation
  BY SaverTyped, TurnAssumption DEF TypeOK
<1>2. c \in Checkpoint
  <2>1. loaded[t] \in Checkpoint
    BY DEF TypeOK
  <2> QED
    BY <2>1 DEF Checkpoint
<1>3. saved' = [saved EXCEPT ![s][Of[t]] = c] /\ kept' = kept \cup new
  BY DEF Save
<1> QED
  BY <1>1, <1>2, <1>3 DEF TypeOK

LEMMA FilesTyped == \A t \in Turn : Files(t) \subseteq SUBSET Turn
  BY DEF Files

LEMMA TypeInduction == Spec => []TypeOK
<1>1. Init => TypeOK
  BY TurnAssumption, ModeAssumption
     DEF Init, TypeOK, Agent, FirstAgent, Checkpoint, Empty
<1>2. TypeOK /\ [Next]_vars => TypeOK'
  <2> SUFFICES ASSUME TypeOK, [Next]_vars
               PROVE  TypeOK'
    OBVIOUS
  <2>1. CASE UNCHANGED vars
    BY <2>1 DEF vars, execution, history, TypeOK
  <2>2. ASSUME NEW now \in SUBSET Server, Regrant(now)
        PROVE  TypeOK'
    BY <2>2, ModeAssumption DEF Regrant, TypeOK, execution
  <2>3. ASSUME NEW t \in Turn, Start(t)
        PROVE  TypeOK'
    <3>1. log' \in [Turn -> Seq(Event)]
      BY <2>3, PublishTyped, EventsTyped DEF Start
    <3>2. disturbed' \in SUBSET Conversation
      <4>1. disturbed' \in {disturbed, disturbed \cup {Of[t]}}
        BY <2>3 DEF Start, Disturb
      <4>2. disturbed \subseteq Conversation /\ Of[t] \in Conversation
        BY TurnAssumption DEF TypeOK
      <4> QED
        BY <4>1, <4>2
    <3> QED
      BY <2>3, <3>1, <3>2 DEF Start, Goto, TypeOK
  <2>4. ASSUME NEW t \in Turn, ServersNamed(t)
        PROVE  TypeOK'
    <3>1. PICK named \in SUBSET Server :
              \/ Invoke(t, agent) /\ UNCHANGED servers
              \/ /\ Goto(t, "tools")
                 /\ servers' = [servers EXCEPT ![t] = named]
                 /\ UNCHANGED <<runs, loaded>>
      BY <2>4 DEF ServersNamed, TypeOK
    <3>2. CASE Invoke(t, agent) /\ UNCHANGED servers
      <4>1. Invoke(t, agent) /\ agent \in Agent
        BY <3>2 DEF TypeOK
      <4> QED
        BY <2>4, <3>2, <4>1, InvokeTyped DEF ServersNamed, Invoke, Goto, TypeOK, history
    <3>3. CASE /\ Goto(t, "tools")
               /\ servers' = [servers EXCEPT ![t] = named]
               /\ UNCHANGED <<runs, loaded>>
      BY <2>4, <3>3 DEF ServersNamed, Goto, TypeOK, history
    <3> QED
      BY <3>1, <3>2, <3>3
  <2>5. ASSUME NEW t \in Turn, ToolsListed(t)
        PROVE  TypeOK'
    <3> DEFINE made == [maker |-> t, tools |-> servers[t]]
    <3>1. made \in Agent
      BY DEF TypeOK, Agent
    <3>2. agent' = made /\ Invoke(t, made)
      BY <2>5 DEF ToolsListed
    <3> HIDE DEF made
    <3> QED
      BY <2>5, <3>1, <3>2, InvokeTyped DEF ToolsListed, Invoke, Goto, TypeOK, history
  <2>6. ASSUME NEW t \in Turn, CallRaises(t)
        PROVE  TypeOK'
    BY <2>6, FailTyped, BrokenTyped DEF CallRaises, TypeOK
  <2>7. ASSUME NEW t \in Turn, NEW new \in Files(t), NEW status \in Final,
               AgentAnswers(t, status, new)
        PROVE  TypeOK'
    <3> DEFINE files == Undelivered(t, new)
    <3>1. new \in SUBSET Turn
      BY FilesTyped
    <3>2. files \in SUBSET Turn
      BY <3>1 DEF Undelivered, TypeOK, Checkpoint
    <3>3. Publish(t, (IF files = {} THEN <<>> ELSE <<"file">>)
                        \o <<"current_result", status>>)
      BY <2>7 DEF AgentAnswers
    <3>4. log' \in [Turn -> Seq(Event)]
      <4>1. CASE files = {}
        BY <3>3, <4>1, PublishTyped, EventsTyped
      <4>2. CASE files # {}
        BY <3>3, <4>2, PublishTyped, EventsTyped
      <4> QED
        BY <4>1, <4>2
    <3>5. /\ saved' \in [Turn \cup {None} -> [Conversation -> Checkpoint]]
          /\ kept' \in SUBSET Turn
      BY <2>7, <3>1, SaveTyped DEF AgentAnswers
    <3>6. /\ carriers' = [f \in Turn |-> IF f \in files THEN carriers[f] \cup {t}
                                                       ELSE carriers[f]]
          /\ pending' = [pending EXCEPT ![t] = files]
          /\ Goto(t, IF files = {} THEN "done" ELSE "flagging")
          /\ UNCHANGED <<granted, changes, agent, servers, runs, loaded, seen,
                         disturbed>>
      BY <2>7 DEF AgentAnswers
    <3> HIDE DEF files
    <3> QED
      BY <3>2, <3>4, <3>5, <3>6 DEF Goto, TypeOK
  <2>8. ASSUME NEW t \in Turn, NEW new \in Files(t), AgentRejects(t, new)
        PROVE  TypeOK'
    <3>1. /\ saved' \in [Turn \cup {None} -> [Conversation -> Checkpoint]]
          /\ kept' \in SUBSET Turn
      BY <2>8, FilesTyped, SaveTyped DEF AgentRejects
    <3> QED
      BY <2>8, <3>1 DEF AgentRejects, Goto, TypeOK
  <2>9. ASSUME NEW t \in Turn, NEW new \in Files(t), AgentRaises(t, new)
        PROVE  TypeOK'
    <3>1. /\ saved' \in [Turn \cup {None} -> [Conversation -> Checkpoint]]
          /\ kept' \in SUBSET Turn
      BY <2>9, FilesTyped, SaveTyped DEF AgentRaises
    <3> QED
      BY <2>9, <3>1, FailTyped, BrokenTyped DEF AgentRaises
  <2>10. ASSUME NEW t \in Turn, RoutingFails(t)
         PROVE  TypeOK'
    BY <2>10, FailTyped DEF RoutingFails, TypeOK, Artifact
  <2>11. ASSUME NEW t \in Turn, RoutingNamesAgent(t)
         PROVE  TypeOK'
    BY <2>11 DEF RoutingNamesAgent, Goto, TypeOK, history
  <2>12. ASSUME NEW t \in Turn, NEW artifact \in Artifact, Routed(t, artifact)
         PROVE  TypeOK'
    <3>1. log' \in [Turn -> Seq(Event)]
      BY <2>12, PublishTyped, EventsTyped DEF Routed, Final
    <3> QED
      BY <2>12, <3>1 DEF Routed, Goto, TypeOK, history
  <2>13. ASSUME NEW t \in Turn, FlagsPersisted(t)
         PROVE  TypeOK'
    <3> DEFINE s == Saver(agent)
               c == saved[s][Of[t]]
               d == [files |-> c.files \cup pending[t],
                     flagged |-> c.flagged \cup pending[t]]
    <3>1. s \in Turn \cup {None} /\ Of[t] \in Conversation
      BY SaverTyped, TurnAssumption DEF TypeOK
    <3>2. c \in Checkpoint
      BY <3>1 DEF TypeOK
    <3>3. d \in Checkpoint
      BY <3>2 DEF TypeOK, Checkpoint
    <3>4. saved' = [saved EXCEPT ![s][Of[t]] = d]
      BY <2>13 DEF FlagsPersisted
    <3>5. saved' \in [Turn \cup {None} -> [Conversation -> Checkpoint]]
      <4> HIDE DEF s, d
      <4> QED
        BY <3>1, <3>3, <3>4 DEF TypeOK
    <3> QED
      BY <2>13, <3>5 DEF FlagsPersisted, Goto, TypeOK, history
  <2>14. ASSUME NEW t \in Turn, FlagsLost(t)
         PROVE  TypeOK'
    BY <2>14, TurnAssumption DEF FlagsLost, Disturb, Goto, TypeOK
  <2>15. ASSUME NEW t \in Turn, RoutingTells(t) \/ CardFound(t)
         PROVE  TypeOK'
    BY <2>12, <2>15 DEF RoutingTells, CardFound, Artifact
  <2> QED
    BY <2>1, <2>2, <2>3, <2>4, <2>5, <2>6, <2>7, <2>8, <2>9, <2>10, <2>11,
       <2>13, <2>14, <2>15 DEF Next, Step, Idle
<1> QED
  BY <1>1, <1>2, PTL DEF Spec

\* Every variable keeps its type, for any turns, conversations and servers
\* (executors.py:114-153, 219-237).
THEOREM TypeCorrect == Spec => []TypeOK
  BY TypeInduction

-----------------------------------------------------------------------------
(* Tools                                                                   *)

\* The lasting grants are in every answer, and what a turn was told is what it
\* was granted at some time since it began.
GrantInv ==
    /\ Lasting \subseteq granted
    /\ \A t \in Turn : pc[t] # "idle" => granted \subseteq seen[t]
    /\ \A t \in Turn : pc[t] = "servers" => Lasting \subseteq held[t]
    /\ \A t \in Turn : pc[t] = "tools" => servers[t] \subseteq seen[t]
    /\ ToolsWereGranted

\* A step of t that leaves the grants alone and t at no await that uses them.
LEMMA GrantKept ==
    ASSUME TypeOK, GrantInv, NEW t \in Turn, NEW place, Goto(t, place),
           place \notin {"idle", "servers", "tools", "running"}, pc[t] # "idle",
           UNCHANGED <<granted, servers, runs, seen>>
    PROVE  GrantInv'
  BY DEF TypeOK, GrantInv, ToolsWereGranted, Goto

LEMMA GrantInduction == ASSUME Lasting # {} PROVE Spec => []GrantInv
<1>1. Init => GrantInv
  BY DEF Init, GrantInv, ToolsWereGranted
<1>2. TypeOK /\ GrantInv /\ [Next]_vars => GrantInv'
  <2> SUFFICES ASSUME TypeOK, GrantInv, [Next]_vars
               PROVE  GrantInv'
    OBVIOUS
  <2>1. CASE UNCHANGED vars
    BY <2>1 DEF vars, execution, history, GrantInv, ToolsWereGranted
  <2>2. ASSUME NEW now \in SUBSET Server, Regrant(now)
        PROVE  GrantInv'
    BY <2>2 DEF Regrant, TypeOK, GrantInv, ToolsWereGranted, execution
  <2>3. ASSUME NEW t \in Turn, Start(t)
        PROVE  GrantInv'
    BY <2>3 DEF Start, Goto, TypeOK, GrantInv, ToolsWereGranted
  <2>4. ASSUME NEW t \in Turn, ServersNamed(t)
        PROVE  GrantInv'
    <3>1. PICK named \in SUBSET seen[t] :
              /\ pc[t] = "servers" /\ Goto(t, "tools")
              /\ servers' = [servers EXCEPT ![t] = named]
              /\ UNCHANGED <<granted, runs, seen>>
      BY <2>4 DEF ServersNamed, GrantInv, history
    <3> QED
      BY <3>1 DEF Goto, TypeOK, GrantInv, ToolsWereGranted
  <2>5. ASSUME NEW t \in Turn, ToolsListed(t)
        PROVE  GrantInv'
    BY <2>5 DEF ToolsListed, Invoke, Goto, TypeOK, GrantInv, ToolsWereGranted,
                history
  <2>6. ASSUME NEW t \in Turn, NEW artifact, Fail(t, artifact), pc[t] # "idle"
        PROVE  GrantInv'
    BY <2>6, GrantKept DEF Fail
  <2>7. ASSUME NEW t \in Turn, CallRaises(t) \/ RoutingFails(t)
        PROVE  GrantInv'
    BY <2>6, <2>7 DEF CallRaises, RoutingFails
  <2>8. ASSUME NEW t \in Turn, NEW new, NEW status, AgentAnswers(t, status, new)
        PROVE  GrantInv'
    BY <2>8, GrantKept DEF AgentAnswers
  <2>9. ASSUME NEW t \in Turn, NEW new, AgentRejects(t, new)
        PROVE  GrantInv'
    BY <2>9, GrantKept DEF AgentRejects
  <2>10. ASSUME NEW t \in Turn, NEW new, AgentRaises(t, new)
         PROVE  GrantInv'
    BY <2>6, <2>10 DEF AgentRaises
  <2>11. ASSUME NEW t \in Turn,
                \/ RoutingNamesAgent(t) \/ RoutingTells(t) \/ CardFound(t)
                \/ FlagsPersisted(t) \/ FlagsLost(t)
         PROVE  GrantInv'
    BY <2>11, GrantKept DEF RoutingNamesAgent, RoutingTells, CardFound, Routed,
                            FlagsPersisted, FlagsLost, history
  <2> QED
    BY <2>1, <2>2, <2>3, <2>4, <2>5, <2>7, <2>8, <2>9, <2>10, <2>11
    DEF Next, Step, Idle
<1> QED
  BY <1>1, <1>2, TypeInduction, PTL DEF Spec

\* If some server stays granted, so that no lookup comes back empty, no turn
\* runs with tools that were not granted since it began, although all turns
\* share self.agent and lookups overlap changes (executors.py:120-124).
THEOREM ToolsAreGranted == ASSUME Lasting # {} PROVE Spec => []ToolsWereGranted
<1>1. GrantInv => ToolsWereGranted
  BY DEF GrantInv
<1> QED
  BY <1>1, GrantInduction, PTL

-----------------------------------------------------------------------------
(* Events                                                                  *)

\* What a turn has published when it is over
Ended == {<<"working">> \o e : e \in Ending}
            \cup {<<"working">> \o (<<>> \o e) : e \in Ending}
            \cup {<<"working">> \o (<<"file">> \o e) : e \in {"current_result"} \X Final}

\* What a turn has published at each await
LogInv ==
    \A t \in Turn :
        /\ pc[t] = "idle" => log[t] = <<>>
        /\ pc[t] \in {"servers", "tools", "running", "routing", "lookup"}
                => log[t] = <<"working">>
        /\ pc[t] \in {"flagging", "done"} => log[t] \in Ended

LEMMA EndedByAnswer ==
    \A status \in Final :
        /\ <<"working">> \o (<<>> \o <<"current_result", status>>) \in Ended
        /\ <<"working">> \o (<<"file">> \o <<"current_result", status>>) \in Ended
<1>1. \A status \in Final : /\ <<"current_result", status>> \in Ending
                            /\ <<"current_result", status>> \in {"current_result"} \X Final
  BY DEF Ending
<1> QED
  BY <1>1 DEF Ended

LEMMA EndingTyped ==
    ASSUME NEW e \in Ending
    PROVE  /\ e[1] \in Artifact /\ e[2] \in Final /\ <<e[1], e[2]>> \in Ending
           /\ e \in Seq(Event) /\ Len(e) = 2
<1>1. PICK a \in Artifact, s \in Final : e = <<a, s>>
  <2>1. CASE e \in {"current_result"} \X Final
    BY <2>1 DEF Artifact
  <2>2. CASE e \in {<<"target_agent", "completed">>, <<"routing_error", "failed">>}
    BY <2>2 DEF Artifact, Final
  <2> QED
    BY <2>1, <2>2 DEF Ending
<1> QED
  BY <1>1, EventsTyped

\* One event before others
LEMMA Prepended ==
    ASSUME NEW h \in Seq(Event), Len(h) = 1, NEW s \in Seq(Event)
    PROVE  /\ h \o s \in Seq(Event) /\ Len(h \o s) = Len(s) + 1
           /\ (h \o s)[1] = h[1]
           /\ \A i \in 1 .. Len(s) : (h \o s)[i + 1] = s[i]
<1>1. /\ h \o s \in Seq(Event) /\ Len(h \o s) = Len(h) + Len(s)
      /\ \A i \in 1 .. Len(h) + Len(s) :
            (h \o s)[i] = IF i <= Len(h) THEN h[i] ELSE s[i - Len(h)]
  BY ConcatProperties, Zenon
<1>2. Len(s) \in Nat
  OBVIOUS
<1> QED
  BY <1>1, <1>2

\* The shape of a log that has ended is what EndsOnce asks for.
LEMMA EndedOnce ==
    ASSUME NEW l \in Ended
    PROVE  /\ Len(l) > 2 /\ <<l[Len(l) - 1], l[Len(l)]>> \in Ending
           /\ \A k \in 1 .. Len(l) : /\ l[k] \in Final => k = Len(l)
                                     /\ l[k] \in Artifact => k = Len(l) - 1
                                     /\ l[k] = "file" => l[Len(l) - 1] = "current_result"
           /\ l[Len(l)] \in Final
<1> DEFINE w == <<"working">>
           f == <<"file">>
<1>1. PICK e \in Ending : \/ l = w \o e \/ l = w \o (<<>> \o e)
                          \/ l = w \o (f \o e) /\ e[1] = "current_result"
  BY DEF Ended, Ending
<1>2. /\ e[1] \in Artifact /\ e[2] \in Final /\ <<e[1], e[2]>> \in Ending
      /\ e \in Seq(Event) /\ Len(e) = 2
  BY EndingTyped
<1>3. /\ "working" \notin Artifact \cup Final /\ "file" \notin Artifact \cup Final
      /\ Artifact \cap Final = {}
  BY DEF Artifact, Final
<1>4. /\ w \in Seq(Event) /\ Len(w) = 1 /\ w[1] = "working"
      /\ f \in Seq(Event) /\ Len(f) = 1 /\ f[1] = "file"
  BY DEF Event
<1> HIDE DEF w, f
<1>5. <<>> \o e = e
  BY <1>2, ConcatEmptySeq
<1>6. CASE l = w \o e
  <2>1. Len(l) = 3 /\ l[1] = "working" /\ l[2] = e[1] /\ l[3] = e[2]
    <3>1. /\ Len(l) = Len(e) + 1 /\ l[1] = w[1]
          /\ \A i \in 1 .. Len(e) : l[i + 1] = e[i]
      BY <1>2, <1>4, <1>6, Prepended, Zenon
    <3>2. l[1 + 1] = e[1] /\ l[2 + 1] = e[2]
      BY <1>2, <3>1
    <3> QED
      BY <1>2, <1>4, <3>1, <3>2
  <2> QED
    BY <1>2, <1>3, <2>1
<1>7. CASE l = w \o (f \o e) /\ e[1] = "current_result"
  <2> DEFINE fe == f \o e
  <2>1. /\ fe \in Seq(Event) /\ Len(fe) = Len(e) + 1 /\ fe[1] = f[1]
        /\ \A i \in 1 .. Len(e) : fe[i + 1] = e[i]
    BY <1>2, <1>4, Prepended, Zenon
  <2>2. l = w \o fe
    BY <1>7
  <2> HIDE DEF fe
  <2>3. /\ Len(l) = Len(fe) + 1 /\ l[1] = w[1]
        /\ \A i \in 1 .. Len(fe) : l[i + 1] = fe[i]
    BY <1>4, <2>1, <2>2, Prepended, Zenon
  <2>4. fe[1 + 1] = e[1] /\ fe[2 + 1] = e[2]
    BY <1>2, <2>1
  <2>5. l[1 + 1] = fe[1] /\ l[2 + 1] = fe[2] /\ l[3 + 1] = fe[3]
    BY <1>2, <2>1, <2>3
  <2>6. /\ Len(l) = 4 /\ l[1] = "working" /\ l[2] = "file"
        /\ l[3] = e[1] /\ l[4] = e[2]
    BY <1>2, <1>4, <2>1, <2>3, <2>4, <2>5
  <2> QED
    BY <1>2, <1>3, <1>7, <2>6
<1> QED
  BY <1>1, <1>5, <1>6, <1>7

\* A step of t that publishes nothing and is not its last.
LEMMA LogKept ==
    ASSUME TypeOK, LogInv, NEW t \in Turn, NEW place, Goto(t, place),
           \/ /\ pc[t] \in {"servers", "tools", "running", "routing", "lookup"}
              /\ place \in {"servers", "tools", "running", "routing", "lookup"}
           \/ pc[t] = "flagging" /\ place = "done",
           UNCHANGED log
    PROVE  LogInv'
  BY DEF TypeOK, LogInv, Goto

\* A step of t that publishes the last of its events.
LEMMA LogEnded ==
    ASSUME TypeOK, LogInv, NEW t \in Turn, NEW place \in {"flagging", "done"},
           NEW events, Goto(t, place), Publish(t, events),
           pc[t] \in {"servers", "tools", "running", "routing", "lookup"},
           <<"working">> \o events \in Ended
    PROVE  LogInv'
  BY DEF TypeOK, LogInv, Goto, Publish

LEMMA LogInduction == Spec => []LogInv
<1>1. Init => LogInv
  BY DEF Init, LogInv
<1>2. TypeOK /\ LogInv /\ [Next]_vars => LogInv'
  <2> SUFFICES ASSUME TypeOK, LogInv, [Next]_vars
               PROVE  LogInv'
    OBVIOUS
  <2>1. CASE UNCHANGED vars
    BY <2>1 DEF vars, execution, LogInv
  <2>2. ASSUME NEW now \in SUBSET Server, Regrant(now)
        PROVE  LogInv'
    BY <2>2 DEF Regrant, LogInv, execution
  <2>3. ASSUME NEW t \in Turn, Start(t)
        PROVE  LogInv'
    <3>1. <<>> \o <<"working">> = <<"working">>
      OBVIOUS
    <3> QED
      BY <2>3, <3>1 DEF Start, Goto, Publish, TypeOK, LogInv
  <2>4. ASSUME NEW t \in Turn, ServersNamed(t) \/ ToolsListed(t)
        PROVE  LogInv'
    BY <2>4, LogKept DEF ServersNamed, ToolsListed, Invoke
  <2>5. ASSUME NEW t \in Turn, NEW artifact \in {"current_result", "routing_error"},
               Fail(t, artifact),
               pc[t] \in {"servers", "tools", "running", "routing", "lookup"}
        PROVE  LogInv'
    <3>1. <<artifact, "failed">> \in Ending
      BY DEF Ending, Final
    <3>2. <<"working">> \o <<artifact, "failed">> \in Ended
      BY <3>1 DEF Ended
    <3> QED
      BY <2>5, <3>2, LogEnded DEF Fail
  <2>6. ASSUME NEW t \in Turn, NEW new,
               CallRaises(t) \/ RoutingFails(t) \/ AgentRaises(t, new)
        PROVE  LogInv'
    BY <2>5, <2>6 DEF CallRaises, RoutingFails, AgentRaises, Broken
  <2>7. ASSUME NEW t \in Turn, NEW new, NEW status \in Final,
               AgentAnswers(t, status, new)
        PROVE  LogInv'
    <3> DEFINE files == Undelivered(t, new)
               events == (IF files = {} THEN <<>> ELSE <<"file">>)
                            \o <<"current_result", status>>
    <3>1. <<"working">> \o events \in Ended
      BY EndedByAnswer
    <3>2. Publish(t, events) /\ pc[t] = "running"
      BY <2>7 DEF AgentAnswers
    <3>3. Goto(t, IF files = {} THEN "done" ELSE "flagging")
      BY <2>7 DEF AgentAnswers
    <3> HIDE DEF events, files
    <3> QED
      BY <3>1, <3>2, <3>3, LogEnded
  <2>8. ASSUME NEW t \in Turn, NEW new,
               AgentRejects(t, new) \/ RoutingNamesAgent(t)
        PROVE  LogInv'
    BY <2>8, LogKept DEF AgentRejects, RoutingNamesAgent
  <2>9. ASSUME NEW t \in Turn, NEW artifact \in {"current_result", "target_agent"},
               Routed(t, artifact), pc[t] \in {"routing", "lookup"}
        PROVE  LogInv'
    <3>1. <<artifact, "completed">> \in Ending
      BY DEF Ending, Final
    <3>2. <<"working">> \o <<artifact, "completed">> \in Ended
      BY <3>1 DEF Ended
    <3> QED
      BY <2>9, <3>2, LogEnded DEF Routed
  <2>10. ASSUME NEW t \in Turn, RoutingTells(t) \/ CardFound(t)
         PROVE  LogInv'
    BY <2>9, <2>10 DEF RoutingTells, CardFound
  <2>11. ASSUME NEW t \in Turn, FlagsPersisted(t) \/ FlagsLost(t)
         PROVE  LogInv'
    BY <2>11, LogKept DEF FlagsPersisted, FlagsLost
  <2> QED
    BY <2>1, <2>2, <2>3, <2>4, <2>6, <2>7, <2>8, <2>10, <2>11
    DEF Next, Step, Idle
<1> QED
  BY <1>1, <1>2, TypeInduction, PTL DEF Spec

\* Where the turns of a router can be, and what they publish
RouterInv ==
    \A t \in Router :
        /\ pc[t] \in {"idle", "routing", "lookup", "done"}
        /\ pc[t] = "done" =>
               \/ log[t] = <<"working">> \o <<"routing_error", "failed">>
               \/ \E artifact \in {"current_result", "target_agent"} :
                      log[t] = <<"working">> \o <<artifact, "completed">>

LEMMA RouterInduction == Spec => []RouterInv
<1> USE TurnAssumption
<1>1. Init => RouterInv
  BY DEF Init, RouterInv
<1>2. TypeOK /\ LogInv /\ RouterInv /\ [Next]_vars => RouterInv'
  <2> SUFFICES ASSUME TypeOK, LogInv, RouterInv, [Next]_vars, NEW r \in Router
               PROVE  RouterInv!(r)'
    BY DEF RouterInv
  <2>0. /\ pc \in [Turn -> {"idle", "servers", "tools", "running", "routing",
                            "lookup", "flagging", "done"}]
        /\ log \in [Turn -> Seq(Event)]
        /\ r \in Turn /\ RouterInv!(r)
        /\ pc[r] \in {"routing", "lookup"} => log[r] = <<"working">>
    BY DEF TypeOK, LogInv, RouterInv
  <2>1. ASSUME pc'[r] = pc[r], log'[r] = log[r]
        PROVE  RouterInv!(r)'
    BY <2>0, <2>1
  <2>2. CASE UNCHANGED vars \/ \E now \in SUBSET Server : Regrant(now)
    BY <2>1, <2>2 DEF vars, execution, Regrant
  <2>3. ASSUME NEW t \in Turn, Step(t) \/ Start(t), t # r
        PROVE  pc'[r] = pc[r] /\ log'[r] = log[r]
    BY <2>0, <2>3 DEF Step, Start, ServersNamed, ToolsListed, Invoke, AgentAnswers,
       AgentRejects, AgentRaises, CallRaises, RoutingFails, RoutingNamesAgent,
       RoutingTells, CardFound, Routed, Fail, FlagsPersisted, FlagsLost, Goto, Publish
  <2>4. CASE Start(r)
    BY <2>0, <2>4 DEF Start, Goto
  <2>5. CASE RoutingNamesAgent(r)
    BY <2>0, <2>5 DEF RoutingNamesAgent, Goto
  <2>6. CASE CallRaises(r) \/ RoutingFails(r)
    BY <2>0, <2>6 DEF CallRaises, RoutingFails, Broken, Fail, Goto, Publish
  <2>7. CASE RoutingTells(r) \/ CardFound(r)
    BY <2>0, <2>7 DEF RoutingTells, CardFound, Routed, Goto, Publish
  <2>8. Step(r) => RoutingNamesAgent(r) \/ CallRaises(r) \/ RoutingFails(r)
                    \/ RoutingTells(r) \/ CardFound(r)
    BY <2>0 DEF Step, ServersNamed, ToolsListed, AgentAnswers, AgentRejects,
       AgentRaises, FlagsPersisted, FlagsLost
  <2> QED
    BY <2>1, <2>2, <2>3, <2>4, <2>5, <2>6, <2>7, <2>8 DEF Next, Idle
<1> QED
  BY <1>1, <1>2, TypeInduction, LogInduction, PTL DEF Spec

\* A log of a router's turn that is over
LEMMA RouterEnded ==
    ASSUME NEW artifact \in Event, NEW state \in Event,
           NEW l, l = <<"working">> \o <<artifact, state>>
    PROVE  Len(l) = 3 /\ l[1] = "working" /\ l[2] = artifact /\ l[3] = state
  OBVIOUS

\* Every turn publishes one final state, last, right after the control
\* artifact that agrees with it (executors.py:114-153, 219-237, 309-321).
THEOREM EveryTurnEndsOnce == Spec => []EndsOnce
<1>1. TypeOK /\ LogInv /\ RouterInv => EndsOnce
  <2> SUFFICES ASSUME TypeOK, LogInv, RouterInv, NEW t \in Turn
               PROVE  EndsOnce!(t)
    BY DEF EndsOnce
  <2> DEFINE l == log[t]
             n == Len(l)
  <2>1. CASE pc[t] \in {"flagging", "done"} /\ t \notin Router
    BY <2>1, EndedOnce DEF LogInv
  <2>2. CASE t \in Router /\ pc[t] = "done"
    <3>1. PICK artifact \in Artifact, state \in Final :
              /\ l = <<"working">> \o <<artifact, state>>
              /\ artifact = "current_result" => state = "completed"
      BY <2>2 DEF RouterInv, Artifact, Final
    <3>2. Len(l) = 3 /\ l[1] = "working" /\ l[2] = artifact /\ l[3] = state
      BY <3>1, RouterEnded DEF Event
    <3>3. \A k \in 1 .. n : l[k] # "file"
      BY <3>2 DEF Artifact, Final
    <3>4. l \in Ended
      BY <2>2 DEF LogInv
    <3>5. /\ n > 2 /\ <<l[n - 1], l[n]>> \in Ending
          /\ \A k \in 1 .. n : l[k] \in Final => k = n
          /\ \A k \in 1 .. n : l[k] \in Artifact => k = n - 1
      BY <3>4, EndedOnce
    <3>6. l[n - 1] = artifact /\ l[n] = state
      BY <3>2
    <3> QED
      BY <2>2, <3>1, <3>3, <3>5, <3>6
  <2>3. CASE pc[t] = "idle"
    BY <2>3 DEF LogInv
  <2>4. CASE pc[t] \in {"servers", "tools", "running", "routing", "lookup"}
    BY <2>4 DEF LogInv, Final, Artifact
  <2> QED
    BY <2>1, <2>2, <2>3, <2>4 DEF TypeOK, RouterInv
<1> QED
  BY <1>1, TypeInduction, LogInduction, RouterInduction, PTL

-----------------------------------------------------------------------------
(* The refinement of TaskProtocol                                          *)

\* The last of a kind, when one place at most has one of it
LEMMA LastIsOne ==
    ASSUME NEW l \in Seq(Event), NEW kind, NEW default
    PROVE  /\ (\A k \in 1 .. Len(l) : l[k] \notin kind) => LastOf(l, kind, default) = default
           /\ \A p \in 1 .. Len(l) :
                l[p] \in kind /\ (\A k \in 1 .. Len(l) : l[k] \in kind => k = p)
                    => LastOf(l, kind, default) = l[p]
<1> DEFINE places == {k \in DOMAIN l : l[k] \in kind}
<1>1. DOMAIN l = 1 .. Len(l) /\ Len(l) \in Nat
  OBVIOUS
<1>2. LastOf(l, kind, default) =
        IF places = {} THEN default
        ELSE l[CHOOSE k \in places : \A j \in places : j <= k]
  BY DEF LastOf
<1>3. ASSUME \A k \in 1 .. Len(l) : l[k] \notin kind
      PROVE  LastOf(l, kind, default) = default
  BY <1>1, <1>2, <1>3
<1>4. ASSUME NEW p \in 1 .. Len(l), l[p] \in kind,
             \A k \in 1 .. Len(l) : l[k] \in kind => k = p
      PROVE  LastOf(l, kind, default) = l[p]
  <2>1. places = {p}
    BY <1>1, <1>4
  <2>2. (CHOOSE k \in places : \A j \in places : j <= k) = p
    BY <1>1, <2>1
  <2> QED
    BY <1>2, <2>1, <2>2
<1> QED
  BY <1>3, <1>4

\* Before a turn is over, its task is as new.
LEMMA FreshTask ==
    TaskOf(<<>>) = Protocol!Fresh /\ TaskOf(<<"working">>) = Protocol!Fresh
<1>1. ASSUME NEW l \in {<<>>, <<"working">>} PROVE TaskOf(l) = Protocol!Fresh
  <2>1. l \in Seq(Event)
    BY EventsTyped, Zenon
  <2>2. \A k \in 1 .. Len(l) : l[k] = "working"
    OBVIOUS
  <2>3. "working" \notin Status \cup Artifact \cup {"file"}
    BY DEF Status, Final, Artifact
  <2>4. /\ LastOf(l, Status, "working") = "working"
        /\ LastOf(l, Artifact, "none") = "none"
        /\ LastOf(l, {"file"}, "none") = "none"
    BY <2>1, <2>2, <2>3, LastIsOne
  <2> QED
    BY <2>4 DEF TaskOf, Protocol!Fresh
<1> QED
  BY <1>1

\* When it is over, its task is the artifact and the state at the end.
LEMMA EndedTask ==
    ASSUME NEW l \in Ended, l \in Seq(Event)
    PROVE  \E a \in Artifact, s \in Final, f \in BOOLEAN :
              /\ TaskOf(l) = [state |-> s, artifact |-> a, file |-> f]
              /\ <<a, s>> \in Ending
              /\ l[Len(l) - 1] = a /\ l[Len(l)] = s
              /\ f => a = "current_result" /\ \E k \in 1 .. Len(l) : l[k] = "file"
<1> DEFINE n == Len(l)
           a == l[n - 1]
           s == l[n]
           f == LastOf(l, {"file"}, "none") = "file"
<1>1. /\ n \in Nat /\ n > 2 /\ <<a, s>> \in Ending
      /\ \A k \in 1 .. n : /\ l[k] \in Final => k = n
                           /\ l[k] \in Artifact => k = n - 1
                           /\ l[k] = "file" => a = "current_result"
  BY EndedOnce
<1>2. a \in Artifact /\ s \in Final
  BY <1>1 DEF Ending, Artifact, Final
<1>3. \A k \in 1 .. n : l[k] \in Status => k = n
  <2>1. \A k \in 1 .. n : l[k] \in Event
    OBVIOUS
  <2>2. "rejected" \notin Event
    BY DEF Event, Artifact, Final
  <2> QED
    BY <1>1, <2>1, <2>2 DEF Status
<1>4. LastOf(l, Status, "working") = s
  <2>1. n \in 1 .. n /\ s \in Status
    BY <1>1, <1>2 DEF Status
  <2> HIDE DEF a, f
  <2> QED
    BY <1>3, <2>1, LastIsOne
<1>5. LastOf(l, Artifact, "none") = a
  <2>1. n - 1 \in 1 .. n /\ \A k \in 1 .. n : l[k] \in Artifact => k = n - 1
    BY <1>1
  <2> QED
    BY <1>2, <2>1, LastIsOne
<1>6. f => \E k \in 1 .. n : l[k] = "file"
  BY LastIsOne
<1>7. TaskOf(l) = [state |-> s, artifact |-> a, file |-> f]
  BY <1>4, <1>5 DEF TaskOf
<1>8. f => a = "current_result"
  BY <1>1, <1>6
<1> QED
  BY <1>1, <1>2, <1>6, <1>7, <1>8

\* A task grows to its end by the rules of TaskProtocol, event by event.
LEMMA GrowsToEnd ==
    ASSUME NEW t \in Turn, NEW a \in Artifact, NEW s \in Final, NEW f \in BOOLEAN,
           <<a, s>> \in Ending, f => t \notin Router /\ a = "current_result",
           t \in Router /\ a = "current_result" => s = "completed"
    PROVE  [state |-> s, artifact |-> a, file |-> f]
             \in Protocol!Grown(t, Protocol!Grown(t, Protocol!Grown(t, {Protocol!Fresh})))
<1> DEFINE T(x, y, z) == [state |-> x, artifact |-> y, file |-> z]
           Tasks == [state: Final \cup {"working"}, artifact: Artifact \cup {"none"},
                     file: BOOLEAN]
<1>1. ASSUME NEW K, NEW k \in K, NEW n, n = k \/ n \in Protocol!OneMore(t, k)
      PROVE  n \in Protocol!Grown(t, K)
  BY <1>1 DEF Protocol!Grown
<1>2. ASSUME NEW x \in Final \cup {"working"}, NEW y \in Artifact \cup {"none"},
             NEW z \in BOOLEAN
      PROVE  /\ [T(x, y, z) EXCEPT !.state = s] = T(s, y, z)
             /\ [T(x, y, z) EXCEPT !.artifact = a] = T(x, a, z)
             /\ [T(x, y, z) EXCEPT !.file = TRUE] = T(x, y, TRUE)
  <2>1. ASSUME NEW k \in Tasks, k = T(x, y, z)
        PROVE  /\ [k EXCEPT !.state = s] = T(s, y, z)
               /\ [k EXCEPT !.artifact = a] = T(x, a, z)
               /\ [k EXCEPT !.file = TRUE] = T(x, y, TRUE)
    <3>1. k.state = x /\ k.artifact = y /\ k.file = z
      BY <2>1
    <3>2. [k EXCEPT !.state = s] = T(s, k.artifact, k.file)
      OBVIOUS
    <3>3. [k EXCEPT !.artifact = a] = T(k.state, a, k.file)
      OBVIOUS
    <3>4. ASSUME NEW w, w = TRUE
          PROVE  [k EXCEPT !.file = w] = T(k.state, k.artifact, w)
      OBVIOUS
    <3> HIDE DEF T
    <3> QED
      BY <3>1, <3>2, <3>3, <3>4
  <2>2. T(x, y, z) \in Tasks
    OBVIOUS
  <2> HIDE DEF T
  <2> QED
    BY <2>1, <2>2
<1>3. T("working", "none", f) \in Protocol!Grown(t, {Protocol!Fresh})
  <2>1. Protocol!Fresh = T("working", "none", FALSE)
    BY DEF Protocol!Fresh
  <2>2. CASE f
    <3>1. Protocol!MayAddFile(t \in Router, T("working", "none", FALSE))
      BY <2>2 DEF Protocol!MayAddFile
    <3>2. [T("working", "none", FALSE) EXCEPT !.file = TRUE] = T("working", "none", TRUE)
      BY <1>2
    <3> HIDE DEF T
    <3>3. T("working", "none", TRUE) \in Protocol!OneMore(t, Protocol!Fresh)
      BY <2>1, <3>1, <3>2 DEF Protocol!OneMore
    <3> QED
      BY <1>1, <2>2, <3>3
  <2> QED
    BY <1>1, <2>1, <2>2
<1>4. T("working", a, f) \in Protocol!OneMore(t, T("working", "none", f))
  <2>1. Protocol!MayAddArtifact(T("working", "none", f), a) /\ a \in Protocol!Artifact
    BY DEF Protocol!MayAddArtifact, Protocol!Artifact, Artifact
  <2>2. [T("working", "none", f) EXCEPT !.artifact = a] = T("working", a, f)
    BY <1>2
  <2> HIDE DEF T
  <2> QED
    BY <2>1, <2>2 DEF Protocol!OneMore
<1>5. T(s, a, f) \in Protocol!OneMore(t, T("working", a, f))
  <2>1. Protocol!MayAddState(t \in Router, T("working", a, f), s) /\ s \in Protocol!Final
    BY DEF Protocol!MayAddState, Protocol!Ending, Protocol!Final, Ending, Final
  <2>2. [T("working", a, f) EXCEPT !.state = s] = T(s, a, f)
    BY <1>2
  <2> HIDE DEF T
  <2> QED
    BY <2>1, <2>2 DEF Protocol!OneMore
<1> HIDE DEF T
<1>6. T(s, a, f)
        \in Protocol!Grown(t, Protocol!Grown(t, Protocol!Grown(t, {Protocol!Fresh})))
  BY <1>1, <1>3, <1>4, <1>5
<1> QED
  BY <1>6 DEF T

\* A step publishes nothing, or the first event of a turn, or all the others.
LEMMA LogSteps ==
    ASSUME TypeOK, LogInv, LogInv', Next
    PROVE  \/ UNCHANGED log
           \/ \E t \in Turn :
                /\ log' = [log EXCEPT ![t] = log'[t]]
                /\ \/ log[t] = <<>> /\ log'[t] = <<"working">>
                   \/ log[t] = <<"working">> /\ log'[t] \in Ended
<1> DEFINE Grows(t) == /\ log' = [log EXCEPT ![t] = log'[t]]
                       /\ \/ log[t] = <<>> /\ log'[t] = <<"working">>
                          \/ log[t] = <<"working">> /\ log'[t] \in Ended
<1>1. ASSUME NEW t \in Turn, NEW events, NEW place, Publish(t, events), Goto(t, place)
      PROVE  log' = [log EXCEPT ![t] = log'[t]] /\ pc'[t] = place
  BY <1>1 DEF Publish, Goto, TypeOK
<1>2. ASSUME NEW t \in Turn, Start(t) PROVE Grows(t)
  BY <1>1, <1>2 DEF Start, LogInv
<1>3. ASSUME NEW t \in Turn, NEW events, NEW place \in {"flagging", "done"},
             Publish(t, events), Goto(t, place),
             pc[t] \in {"servers", "tools", "running", "routing", "lookup"}
      PROVE  Grows(t)
  BY <1>1, <1>3 DEF LogInv
<1>4. ASSUME NEW t \in Turn, NEW artifact, Fail(t, artifact),
             pc[t] \in {"servers", "tools", "running", "routing", "lookup"}
      PROVE  Grows(t)
  BY <1>3, <1>4 DEF Fail
<1>5. ASSUME NEW t \in Turn, NEW new, NEW status, AgentAnswers(t, status, new)
      PROVE  Grows(t)
  BY <1>3, <1>5 DEF AgentAnswers
<1>6. ASSUME NEW t \in Turn, RoutingTells(t) \/ CardFound(t) PROVE Grows(t)
  BY <1>3, <1>6 DEF RoutingTells, CardFound, Routed
<1>7. ASSUME NEW t \in Turn, NEW new,
             CallRaises(t) \/ RoutingFails(t) \/ AgentRaises(t, new)
      PROVE  Grows(t)
  BY <1>4, <1>7 DEF CallRaises, RoutingFails, AgentRaises
<1>8. ASSUME NEW t \in Turn, NEW new,
             \/ ServersNamed(t) \/ ToolsListed(t) \/ AgentRejects(t, new)
             \/ RoutingNamesAgent(t) \/ FlagsPersisted(t) \/ FlagsLost(t)
      PROVE  UNCHANGED log
  BY <1>8 DEF ServersNamed, ToolsListed, AgentRejects, RoutingNamesAgent,
              FlagsPersisted, FlagsLost
<1>9. ASSUME NEW now, Regrant(now) \/ Idle PROVE UNCHANGED log
  BY <1>9 DEF Regrant, Idle, vars, execution
<1> HIDE DEF Grows
<1>10. UNCHANGED log \/ \E t \in Turn : Grows(t)
  BY <1>2, <1>5, <1>6, <1>7, <1>8, <1>9 DEF Next, Step
<1> QED
  BY <1>10 DEF Grows

\* KeepsProtocol: the tasks of agents and routers start as new and grow by
\* the rules of TaskProtocol, by which the executors of Conversation publish
\* (executors.py:114-153, 172-237).
THEOREM ImplementsProtocol == Spec => KeepsProtocol
<1> DEFINE task == [t \in Turn |-> TaskOf(log[t])]
<1>1. Init => Protocol!Init
  BY FreshTask DEF Init, Protocol!Init
<1>2. TypeOK /\ TypeOK' /\ LogInv /\ LogInv' /\ RouterInv' /\ [Next]_vars
        => [Protocol!Next]_task
  <2> SUFFICES ASSUME TypeOK, TypeOK', LogInv, LogInv', RouterInv', [Next]_vars
               PROVE  Protocol!Next \/ UNCHANGED task
    OBVIOUS
  <2>1. ASSUME UNCHANGED log PROVE UNCHANGED task
    BY <2>1
  <2>2. ASSUME NEW t \in Turn, log' = [log EXCEPT ![t] = log'[t]]
        PROVE  task' = [task EXCEPT ![t] = TaskOf(log'[t])]
    BY <2>2 DEF TypeOK
  <2>3. ASSUME NEW t \in Turn, log' = [log EXCEPT ![t] = log'[t]],
               log[t] = <<>>, log'[t] = <<"working">>
        PROVE  UNCHANGED task
    <3>1. TaskOf(log'[t]) = task[t]
      BY <2>3, FreshTask
    <3> QED
      BY <2>2, <2>3, <3>1
  <2>4. ASSUME NEW t \in Turn, log' = [log EXCEPT ![t] = log'[t]],
               log[t] = <<"working">>, log'[t] \in Ended
        PROVE  Protocol!Next
    <3> DEFINE l == log'[t]
               new == TaskOf(l)
    <3>1. l \in Seq(Event)
      BY DEF TypeOK
    <3>2. PICK a \in Artifact, s \in Final, f \in BOOLEAN :
              /\ new = [state |-> s, artifact |-> a, file |-> f]
              /\ <<a, s>> \in Ending
              /\ l[Len(l) - 1] = a /\ l[Len(l)] = s
              /\ f => a = "current_result" /\ \E k \in 1 .. Len(l) : l[k] = "file"
      BY <2>4, <3>1, EndedTask
    <3>3. ASSUME t \in Router
          PROVE  (\A k \in 1 .. Len(l) : l[k] # "file")
                 /\ (a = "current_result" => s = "completed")
      <4>1. pc'[t] = "done"
        <5>1. /\ pc'[t] = "idle" => l = <<>>
              /\ pc'[t] \in {"routing", "lookup"} => l = <<"working">>
          BY DEF LogInv
        <5>2. Len(l) > 2
          BY <2>4, EndedOnce
        <5>3. l # <<>> /\ l # <<"working">>
          <6>1. Len(<<>>) = 0 /\ Len(<<"working">>) = 1
            OBVIOUS
          <6> HIDE DEF l
          <6> QED
            BY <5>2, <6>1
        <5>4. pc'[t] \in {"idle", "routing", "lookup", "done"}
          BY <3>3 DEF RouterInv
        <5> QED
          BY <5>1, <5>3, <5>4
      <4>2. PICK b \in Artifact, u \in Final :
                /\ l = <<"working">> \o <<b, u>>
                /\ b = "current_result" => u = "completed"
        BY <3>3, <4>1 DEF RouterInv, Artifact, Final
      <4>3. Len(l) = 3 /\ l[1] = "working" /\ l[2] = b /\ l[3] = u
        BY <4>2, RouterEnded DEF Event
      <4> QED
        BY <3>2, <4>2, <4>3 DEF Artifact, Final
    <3>4. new \in Protocol!Grown(t, Protocol!Grown(t, Protocol!Grown(t, {Protocol!Fresh})))
      BY <3>2, <3>3, GrowsToEnd
    <3>5. task[t] = Protocol!Fresh
      BY <2>4, FreshTask
    <3>6. task' = [task EXCEPT ![t] = new]
      BY <2>2, <2>4
    <3> HIDE DEF task, new, l
    <3> QED
      BY <3>4, <3>5, <3>6 DEF Protocol!Next, Protocol!Publish, task
  <2>5. CASE UNCHANGED vars
    BY <2>1, <2>5 DEF vars, execution
  <2>6. CASE Next
    BY <2>1, <2>3, <2>4, <2>6, LogSteps
  <2> QED
    BY <2>5, <2>6
<1> QED
  BY <1>1, <1>2, TypeInduction, LogInduction, RouterInduction, PTL
  DEF Spec, KeepsProtocol, Protocol!Spec

-----------------------------------------------------------------------------
(* Files and conversations, with or without a checkpointer                 *)

\* The files of the turns of conversation x
FilesOf(x) == {f \in Turn : Of[f] = x}

\* What a checkpoint, a run of an agent and a turn hold belongs to their
\* conversation.
InsideInv ==
    /\ \A s \in Turn \cup {None}, x \in Conversation : saved[s][x].files \subseteq FilesOf(x)
    /\ \A t \in Turn : loaded[t].files \cup pending[t] \subseteq FilesOf(Of[t])
    /\ FilesStayInside

\* A run loads the checkpoint of its conversation from any saver there is.
LEMMA InvokeInside ==
    ASSUME TypeOK, InsideInv, NEW t \in Turn, NEW a \in Agent, Invoke(t, a),
           UNCHANGED <<saved, pending, carriers>>
    PROVE  InsideInv'
<1>1. saved[Saver(a)][Of[t]].files \subseteq FilesOf(Of[t])
  BY SaverTyped, TurnAssumption DEF InsideInv
<1>2. loaded' = [loaded EXCEPT ![t] = saved[Saver(a)][Of[t]]]
  BY DEF Invoke
<1> QED
  BY <1>1, <1>2 DEF InsideInv, FilesStayInside, TypeOK, FilesOf

\* A run saves what it has loaded and at most the file of its turn.
LEMMA SaveInside ==
    ASSUME TypeOK, InsideInv, NEW t \in Turn, NEW new \in Files(t), Save(t, new)
    PROVE  /\ \A s \in Turn \cup {None}, x \in Conversation :
                saved'[s][x].files \subseteq FilesOf(x)
           /\ loaded[t].files \cup new \subseteq FilesOf(Of[t])
<1> DEFINE c == [loaded[t] EXCEPT !.files = @ \cup new]
<1>1. loaded[t].files \cup new \subseteq FilesOf(Of[t])
  BY DEF Files, InsideInv, FilesOf
<1>2. c.files = loaded[t].files \cup new
  <2>1. loaded[t] \in Checkpoint
    BY DEF TypeOK
  <2> QED
    BY <2>1 DEF Checkpoint
<1>3. saved' = [saved EXCEPT ![Saver(runs[t])][Of[t]] = c]
  BY DEF Save
<1>4. Saver(runs[t]) \in Turn \cup {None} /\ Of[t] \in Conversation
  BY SaverTyped, TurnAssumption DEF TypeOK
<1> HIDE DEF c
<1> QED
  BY <1>1, <1>2, <1>3, <1>4 DEF InsideInv, TypeOK

LEMMA InsideInduction == Spec => []InsideInv
<1>1. Init => InsideInv
  BY TurnAssumption DEF Init, InsideInv, FilesStayInside, Empty
<1>2. TypeOK /\ InsideInv /\ [Next]_vars => InsideInv'
  <2> SUFFICES ASSUME TypeOK, InsideInv, [Next]_vars
               PROVE  InsideInv'
    OBVIOUS
  <2>0. ASSUME UNCHANGED <<saved, loaded, pending, carriers>> PROVE InsideInv'
    BY <2>0 DEF InsideInv, FilesStayInside, FilesOf
  <2>1. ASSUME NEW t \in Turn, NEW new \in Files(t), Save(t, new),
               UNCHANGED <<loaded, pending, carriers>>
        PROVE  InsideInv'
    BY <2>1, SaveInside DEF InsideInv, FilesStayInside, FilesOf
  <2>2. ASSUME NEW t \in Turn, ServersNamed(t) PROVE InsideInv'
    <3>1. CASE Invoke(t, agent)
      <4>1. agent \in Agent
        BY DEF TypeOK
      <4> QED
        BY <2>2, <3>1, <4>1, InvokeInside DEF ServersNamed, history
    <3>2. CASE UNCHANGED loaded
      BY <2>0, <2>2, <3>2 DEF ServersNamed, history
    <3> QED
      BY <2>2, <3>1, <3>2 DEF ServersNamed
  <2>3. ASSUME NEW t \in Turn, ToolsListed(t) PROVE InsideInv'
    <3>1. [maker |-> t, tools |-> servers[t]] \in Agent
      BY DEF TypeOK, Agent
    <3> QED
      BY <2>3, <3>1, InvokeInside DEF ToolsListed, history
  <2>4. ASSUME NEW t \in Turn, NEW new \in Files(t), NEW status,
               AgentAnswers(t, status, new)
        PROVE  InsideInv'
    <3> DEFINE out == Undelivered(t, new)
    <3>1. /\ \A s \in Turn \cup {None}, x \in Conversation :
                saved'[s][x].files \subseteq FilesOf(x)
          /\ out \subseteq FilesOf(Of[t])
      BY <2>4, SaveInside DEF AgentAnswers, Undelivered
    <3>2. /\ carriers' = [f \in Turn |-> IF f \in out THEN carriers[f] \cup {t}
                                                     ELSE carriers[f]]
          /\ pending' = [pending EXCEPT ![t] = out]
          /\ UNCHANGED loaded
      BY <2>4 DEF AgentAnswers
    <3> HIDE DEF out
    <3>3. FilesStayInside'
      BY <3>1, <3>2 DEF InsideInv, FilesStayInside, FilesOf
    <3>4. \A o \in Turn : loaded'[o].files \cup pending'[o] \subseteq FilesOf(Of[o])
      BY <3>1, <3>2 DEF InsideInv, TypeOK
    <3> QED
      BY <3>1, <3>3, <3>4 DEF InsideInv, FilesOf
  <2>5. ASSUME NEW t \in Turn, FlagsPersisted(t) PROVE InsideInv'
    <3> DEFINE s == Saver(agent)
               c == saved[s][Of[t]]
               d == [files |-> c.files \cup pending[t],
                     flagged |-> c.flagged \cup pending[t]]
    <3>1. s \in Turn \cup {None} /\ Of[t] \in Conversation
      BY SaverTyped, TurnAssumption DEF TypeOK
    <3>2. d.files \subseteq FilesOf(Of[t])
      BY <3>1 DEF InsideInv
    <3>3. saved' = [saved EXCEPT ![s][Of[t]] = d]
          /\ UNCHANGED <<loaded, pending, carriers>>
      BY <2>5 DEF FlagsPersisted, history
    <3> HIDE DEF s, d
    <3>4. \A r \in Turn \cup {None}, x \in Conversation :
              saved'[r][x].files \subseteq FilesOf(x)
      BY <3>1, <3>2, <3>3 DEF InsideInv, TypeOK
    <3> QED
      BY <3>3, <3>4 DEF InsideInv, FilesStayInside, FilesOf
  <2>6. ASSUME NEW t \in Turn, NEW new \in Files(t),
               AgentRejects(t, new) \/ AgentRaises(t, new)
        PROVE  InsideInv'
    BY <2>1, <2>6 DEF AgentRejects, AgentRaises, Fail
  <2>7. ASSUME NEW t \in Turn,
               \/ Start(t) \/ CallRaises(t) \/ RoutingFails(t) \/ RoutingNamesAgent(t)
               \/ RoutingTells(t) \/ CardFound(t) \/ FlagsLost(t)
        PROVE  InsideInv'
    BY <2>0, <2>7 DEF Start, CallRaises, RoutingFails, RoutingNamesAgent,
       RoutingTells, CardFound, Routed, FlagsLost, Fail, history
  <2>8. ASSUME NEW now, Regrant(now) \/ UNCHANGED vars PROVE InsideInv'
    BY <2>0, <2>8 DEF Regrant, vars, execution, history
  <2> QED
    BY <2>2, <2>3, <2>4, <2>5, <2>6, <2>7, <2>8 DEF Next, Step, Idle
<1> QED
  BY <1>1, <1>2, TypeInduction, PTL DEF Spec

\* FilesStayInside: no file crosses from one conversation to another, in
\* whatever order turns run and replace self.agent, and wherever its
\* conversations are kept (agent.py:103-105, 125-127).
THEOREM FilesAreIsolated == Spec => []FilesStayInside
<1>1. InsideInv => FilesStayInside
  BY DEF InsideInv
<1> QED
  BY <1>1, InsideInduction, PTL

-----------------------------------------------------------------------------
(* Files, with a checkpointer that all agents share                        *)

Active(t) == pc[t] \in {"servers", "tools", "running", "routing", "lookup"}

\* The checkpoint of a conversation
Box(x) == saved[None][x]

files == <<saved, loaded, pending, kept, carriers>>

\* What a step of t does to the files: nothing, ...
Quiet(t, place) ==
    /\ Active(t) \/ (pc[t] = "flagging" /\ place = "done" /\ WritesFail)
    /\ place \in {"tools", "lookup", "done"}
    /\ Goto(t, place)
    /\ UNCHANGED files

\* ... t loads its conversation, ...
Loads(t) ==
    /\ Active(t) /\ Goto(t, "running")
    /\ loaded' = [loaded EXCEPT ![t] = Box(Of[t])]
    /\ UNCHANGED <<saved, pending, kept, carriers>>

\* ... saves it with a file of its own, ...
Stores(t, new) ==
    /\ pc[t] = "running"
    /\ new \subseteq {t}
    /\ \A x \in Conversation : Box(x)' =
            IF x = Of[t] THEN [files |-> loaded[t].files \cup new,
                               flagged |-> loaded[t].flagged]
            ELSE Box(x)
    /\ kept' = kept \cup new
    /\ UNCHANGED loaded

\* ... and delivers nothing or what is not flagged in it, ...
Withholds(t, new, place) ==
    /\ Stores(t, new)
    /\ place \in {"routing", "done"} /\ Goto(t, place)
    /\ UNCHANGED <<pending, carriers>>

Delivers(t, new) ==
    LET out == (loaded[t].files \cup new) \ loaded[t].flagged IN
    /\ Stores(t, new)
    /\ \A f \in Turn : carriers'[f] = IF f \in out THEN carriers[f] \cup {t}
                                                  ELSE carriers[f]
    /\ pending' = [pending EXCEPT ![t] = out]
    /\ \/ out = {} /\ Goto(t, "done")
       \/ Goto(t, "flagging")

\* ... or flags what it has delivered.
Flags(t) ==
    /\ pc[t] = "flagging" /\ Goto(t, "done")
    /\ \A x \in Conversation : Box(x)' =
            IF x = Of[t] THEN [files |-> Box(x).files \cup pending[t],
                               flagged |-> Box(x).flagged \cup pending[t]]
            ELSE Box(x)
    /\ UNCHANGED <<loaded, pending, kept, carriers>>

LEMMA SaveStores ==
    ASSUME TypeOK, Shared, NEW t \in Turn, NEW new \in Files(t), Save(t, new),
           pc[t] = "running", UNCHANGED loaded
    PROVE  Stores(t, new)
<1>1. new \subseteq {t}
  BY DEF Files
<1>2. loaded[t] \in Checkpoint /\ Of[t] \in Conversation
  BY TurnAssumption DEF TypeOK
<1>3. [loaded[t] EXCEPT !.files = @ \cup new]
        = [files |-> loaded[t].files \cup new, flagged |-> loaded[t].flagged]
  BY <1>2 DEF Checkpoint
<1>4. saved' = [saved EXCEPT ![None][Of[t]] =
                  [files |-> loaded[t].files \cup new, flagged |-> loaded[t].flagged]]
  BY <1>3 DEF Save, Saver
<1>5. saved \in [Turn \cup {None} -> [Conversation -> Checkpoint]]
  BY DEF TypeOK
<1>6. \A x \in Conversation : Box(x)' =
            IF x = Of[t] THEN [files |-> loaded[t].files \cup new,
                               flagged |-> loaded[t].flagged]
            ELSE Box(x)
  BY <1>2, <1>4, <1>5 DEF Box
<1> QED
  BY <1>1, <1>6 DEF Stores, Save

LEMMA StepKinds ==
    ASSUME TypeOK, Shared, NEW t \in Turn, Step(t)
    PROVE  \/ \E place \in {"tools", "lookup", "done"} : Quiet(t, place)
           \/ Loads(t)
           \/ \E new \in SUBSET Turn, place \in {"routing", "done"} :
                  Withholds(t, new, place)
           \/ \E new \in SUBSET Turn : Delivers(t, new)
           \/ Flags(t)
<1>1. ASSUME NEW artifact, Fail(t, artifact), Active(t), UNCHANGED <<saved, kept>>
      PROVE  Quiet(t, "done")
  BY <1>1 DEF Fail, Active, Quiet, files
<1>2. CASE CallRaises(t) \/ RoutingFails(t)
  BY <1>1, <1>2 DEF CallRaises, RoutingFails, Active
<1>3. CASE RoutingNamesAgent(t) \/ RoutingTells(t) \/ CardFound(t) \/ FlagsLost(t)
  BY <1>3 DEF RoutingNamesAgent, RoutingTells, CardFound, Routed, FlagsLost,
              Active, Quiet, files, history
<1>4. ASSUME NEW a, Invoke(t, a), Active(t), UNCHANGED <<saved, pending, history>>
      PROVE  Loads(t)
  BY <1>4 DEF Invoke, Loads, Box, Saver, history
<1>5. CASE ServersNamed(t)
  BY <1>4, <1>5 DEF ServersNamed, Active, Quiet, files, history
<1>6. CASE ToolsListed(t)
  <2>1. PICK a : Invoke(t, a) /\ Active(t) /\ UNCHANGED <<saved, pending, history>>
    BY <1>6 DEF ToolsListed, Active
  <2> QED
    BY <1>4, <2>1
<1>7. ASSUME NEW new \in Files(t), NEW status \in Final, AgentAnswers(t, status, new)
      PROVE  Delivers(t, new)
  <2>1. Stores(t, new)
    BY <1>7, SaveStores DEF AgentAnswers
  <2> DEFINE out == (loaded[t].files \cup new) \ loaded[t].flagged
  <2>2. /\ carriers' = [f \in Turn |-> IF f \in out THEN carriers[f] \cup {t}
                                                   ELSE carriers[f]]
        /\ pending' = [pending EXCEPT ![t] = out]
        /\ Goto(t, IF out = {} THEN "done" ELSE "flagging")
    BY <1>7 DEF AgentAnswers, Undelivered
  <2> HIDE DEF out
  <2>3. /\ \A f \in Turn : carriers'[f] = IF f \in out THEN carriers[f] \cup {t}
                                                       ELSE carriers[f]
        /\ (out = {} /\ Goto(t, "done")) \/ Goto(t, "flagging")
    BY <2>2
  <2> QED
    BY <2>1, <2>2, <2>3 DEF Delivers, out
<1>8. ASSUME NEW new \in Files(t), AgentRejects(t, new)
      PROVE  Withholds(t, new, "routing")
  BY <1>8, SaveStores DEF AgentRejects, Withholds
<1>9. ASSUME NEW new \in Files(t), AgentRaises(t, new)
      PROVE  Withholds(t, new, "done")
  BY <1>9, SaveStores DEF AgentRaises, Fail, Withholds
<1>10. CASE FlagsPersisted(t)
  <2>1. Of[t] \in Conversation /\ Saver(agent) = None
    BY TurnAssumption DEF Saver
  <2>2. saved' = [saved EXCEPT ![None][Of[t]] =
                    [files |-> @.files \cup pending[t],
                     flagged |-> @.flagged \cup pending[t]]]
    BY <1>10, <2>1 DEF FlagsPersisted
  <2>3. saved \in [Turn \cup {None} -> [Conversation -> Checkpoint]]
    BY DEF TypeOK
  <2>4. \A x \in Conversation : Box(x)' =
            IF x = Of[t] THEN [files |-> Box(x).files \cup pending[t],
                               flagged |-> Box(x).flagged \cup pending[t]]
            ELSE Box(x)
    BY <2>1, <2>2, <2>3 DEF Box
  <2> QED
    BY <1>10, <2>4 DEF FlagsPersisted, Flags, history
<1>11. Files(t) \subseteq SUBSET Turn
  BY FilesTyped
<1> QED
  BY <1>2, <1>3, <1>5, <1>6, <1>7, <1>8, <1>9, <1>10, <1>11 DEF Step

\* Only one turn of a conversation is under way before its final state, and
\* it has loaded all that is not delivered.
FilesInv ==
    /\ \A t, u \in Turn : Of[t] = Of[u] /\ Active(t) /\ Active(u) => t = u
    /\ \A t \in Turn : \A f \in pending[t] : carriers[f] # {}
    /\ \A x \in Conversation : \A f \in Box(x).flagged : carriers[f] # {}
    /\ \A t \in Turn : pc[t] = "running" =>
          /\ \A f \in loaded[t].flagged : carriers[f] # {}
          /\ \A f \in kept : Of[f] = Of[t] /\ carriers[f] = {}
                => f \in loaded[t].files
    /\ \A f \in kept : carriers[f] = {} => f \in Box(Of[f]).files

\* The turns that may be under way when t starts are not before their final
\* state.
LEMMA SentLate ==
    ASSUME LogInv, Waits # "nothing", NEW t \in Turn, MaySend(t),
           NEW o \in Turn \ {t}, Of[o] = Of[t]
    PROVE  ~ Active(o)
<1> SUFFICES ASSUME Active(o) PROVE FALSE
  OBVIOUS
<1>1. Published(o)
  BY DEF Active, MaySend, Over
<1>2. log[o] = <<"working">>
  BY DEF Active, LogInv
<1>3. "working" \notin Final
  BY DEF Final
<1> QED
  BY <1>1, <1>2, <1>3 DEF Published

LEMMA FilesInduction == ASSUME Shared, Waits # "nothing" PROVE Spec => []FilesInv
<1>1. Init => FilesInv
  BY DEF Init, Empty, FilesInv, Box, Active
<1>2. TypeOK /\ LogInv /\ FilesInv /\ [Next]_vars => FilesInv'
  <2> SUFFICES ASSUME TypeOK, LogInv, FilesInv, [Next]_vars
               PROVE  FilesInv'
    OBVIOUS
  <2>1. CASE UNCHANGED <<pc, files>>
    BY <2>1 DEF files, FilesInv, Box, Active
  <2>2. ASSUME NEW t \in Turn, Start(t)
        PROVE  FilesInv'
    <3>1. \A o \in Turn \ {t} : Of[o] = Of[t] => ~ Active(o)
      BY <2>2, SentLate DEF Start
    <3>2. \A o \in Turn \ {t} : Active(o)' = Active(o)
      BY <2>2 DEF Start, Goto, TypeOK, Active
    <3>3. \A o \in Turn : pc'[o] = "running" => pc[o] = "running"
      BY <2>2 DEF Start, Goto, TypeOK
    <3>4. UNCHANGED files
      BY <2>2 DEF Start, files
    <3> QED
      BY <3>1, <3>2, <3>3, <3>4 DEF FilesInv, Box, files
  <2>3. ASSUME NEW t \in Turn, Step(t)
        PROVE  FilesInv'
    <3> DEFINE OnlyOne == \A a, u \in Turn :
                    Of[a] = Of[u] /\ Active(a) /\ Active(u) => a = u
    <3>1. ASSUME NEW place, Goto(t, place), Active(t) \/ place = "done"
          PROVE  OnlyOne'
      BY <3>1 DEF Goto, TypeOK, Active, FilesInv
    <3>2. ASSUME NEW place \in {"tools", "lookup", "done"}, Quiet(t, place)
          PROVE  FilesInv'
      <4>1. OnlyOne'
        BY <3>1, <3>2 DEF Quiet
      <4>2. \A o \in Turn : pc'[o] = "running" => pc[o] = "running"
        BY <3>2 DEF Quiet, Goto, TypeOK
      <4> QED
        BY <3>2, <4>1, <4>2 DEF Quiet, FilesInv, Box, files
    <3>3. CASE Loads(t)
      <4>1. OnlyOne'
        BY <3>1, <3>3 DEF Loads
      <4>2. /\ \A o \in Turn \ {t} : pc'[o] = pc[o] /\ loaded'[o] = loaded[o]
            /\ loaded'[t] = Box(Of[t])
            /\ UNCHANGED <<saved, pending, kept, carriers>>
        BY <3>3 DEF Loads, Goto, TypeOK
      <4>3. kept \subseteq Turn /\ Of[t] \in Conversation
        BY TurnAssumption DEF TypeOK
      <4> QED
        BY <4>1, <4>2, <4>3 DEF FilesInv, Box
    <3>4. ASSUME NEW new \in SUBSET Turn, NEW place \in {"routing", "done"},
                 Withholds(t, new, place)
          PROVE  FilesInv'
      <4>1. OnlyOne'
        BY <3>1, <3>4 DEF Withholds, Stores, Active
      <4>2. \A o \in Turn : pc'[o] = "running" =>
                pc[o] = "running" /\ Of[o] # Of[t]
        BY <3>4 DEF Withholds, Stores, Goto, TypeOK, FilesInv, Active
      <4>3. /\ \A x \in Conversation : x # Of[t] => Box(x)' = Box(x)
            /\ Box(Of[t])' = [files |-> loaded[t].files \cup new,
                              flagged |-> loaded[t].flagged]
            /\ kept' = kept \cup new /\ new \subseteq {t}
            /\ pc[t] = "running"
            /\ UNCHANGED <<loaded, pending, carriers>>
        BY <3>4, TurnAssumption DEF Withholds, Stores
      <4>4. \A f \in Turn : Of[f] \in Conversation
        BY TurnAssumption
      <4>5. kept \subseteq Turn
        BY DEF TypeOK
      <4> QED
        BY <4>1, <4>2, <4>3, <4>4, <4>5 DEF FilesInv
    <3>5. ASSUME NEW new \in SUBSET Turn, Delivers(t, new)
          PROVE  FilesInv'
      <4> DEFINE out == (loaded[t].files \cup new) \ loaded[t].flagged
      <4>1. OnlyOne'
        <5>1. Active(t) /\ \E place : Goto(t, place)
          BY <3>5 DEF Delivers, Stores, Active
        <5> QED
          BY <3>1, <5>1
      <4>2. \A o \in Turn : pc'[o] = "running" =>
                pc[o] = "running" /\ Of[o] # Of[t]
        BY <3>5 DEF Delivers, Stores, Goto, TypeOK, FilesInv, Active
      <4>3. /\ \A x \in Conversation : x # Of[t] => Box(x)' = Box(x)
            /\ Box(Of[t])' = [files |-> loaded[t].files \cup new,
                              flagged |-> loaded[t].flagged]
            /\ kept' = kept \cup new /\ new \subseteq {t}
            /\ pc[t] = "running"
            /\ UNCHANGED loaded
        BY <3>5, TurnAssumption DEF Delivers, Stores
      <4>4. /\ \A f \in Turn : carriers'[f] = IF f \in out THEN carriers[f] \cup {t}
                                                          ELSE carriers[f]
            /\ pending' = [pending EXCEPT ![t] = out]
        BY <3>5 DEF Delivers
      <4>5. /\ \A f \in Turn : Of[f] \in Conversation
            /\ kept \subseteq Turn /\ out \subseteq Turn
            /\ \A o \in Turn : pending[o] \subseteq Turn
            /\ \A o \in Turn : loaded[o].flagged \subseteq Turn
            /\ \A x \in Conversation : Box(x).flagged \subseteq Turn
        BY TurnAssumption DEF TypeOK, Checkpoint, Box
      <4>6. /\ \A f \in Turn : carriers[f] # {} => carriers'[f] # {}
            /\ \A f \in out : carriers'[f] # {}
        BY <4>4, <4>5
      <4>7. \A o \in Turn : pending'[o] = IF o = t THEN out ELSE pending[o]
        BY <4>4 DEF TypeOK
      <4>8. \A o \in Turn : \A f \in pending'[o] : carriers'[f] # {}
        BY <4>5, <4>6, <4>7 DEF FilesInv
      <4>9. \A x \in Conversation : \A f \in Box(x)'.flagged : carriers'[f] # {}
        BY <4>3, <4>5, <4>6 DEF FilesInv
      <4>10. \A f \in kept' : carriers'[f] = {} => f \in Box(Of[f])'.files
        BY <4>3, <4>5, <4>6 DEF FilesInv
      <4>11. \A o \in Turn : pc'[o] = "running" =>
                /\ \A f \in loaded'[o].flagged : carriers'[f] # {}
                /\ \A f \in kept' : Of[f] = Of[o] /\ carriers'[f] = {}
                      => f \in loaded'[o].files
        BY <4>2, <4>3, <4>5, <4>6 DEF FilesInv
      <4> QED
        BY <4>1, <4>8, <4>9, <4>10, <4>11 DEF FilesInv
    <3>6. CASE Flags(t)
      <4>1. OnlyOne'
        BY <3>1, <3>6 DEF Flags
      <4>2. \A o \in Turn : pc'[o] = "running" => pc[o] = "running"
        BY <3>6 DEF Flags, Goto, TypeOK
      <4>3. /\ \A x \in Conversation : x # Of[t] => Box(x)' = Box(x)
            /\ Box(Of[t])' = [files |-> Box(Of[t]).files \cup pending[t],
                              flagged |-> Box(Of[t]).flagged \cup pending[t]]
            /\ UNCHANGED <<loaded, pending, kept, carriers>>
        BY <3>6, TurnAssumption DEF Flags
      <4>4. kept \subseteq Turn /\ \A f \in Turn : Of[f] \in Conversation
        BY TurnAssumption DEF TypeOK
      <4> QED
        BY <4>1, <4>2, <4>3, <4>4 DEF FilesInv
    <3> QED
      BY <2>3, <3>2, <3>3, <3>4, <3>5, <3>6, StepKinds
  <2>4. UNCHANGED vars => UNCHANGED <<pc, files>>
    BY DEF vars, execution, history, files
  <2>5. \A now \in SUBSET Server : Regrant(now) => UNCHANGED <<pc, files>>
    BY DEF Regrant, execution, files
  <2> QED
    BY <2>1, <2>2, <2>3, <2>4, <2>5 DEF Next, Idle
<1> QED
  BY <1>1, <1>2, TypeInduction, LogInduction, PTL DEF Spec

\* With a shared checkpointer and turns that are sent after the final state
\* of the one before, a file that has reached the conversation has been
\* delivered or waits there unflagged, also when turns raise, are rejected, or
\* are still to write their flags, or fail to (executors.py:123-162,
\* agent.py:116-135).
THEOREM NothingIsLost == ASSUME Waits # "nothing" PROVE Spec => []NoFileLost
<1>1. CASE ~ Shared
  BY <1>1, PTL DEF NoFileLost
<1>2. CASE Shared
  <2>1. FilesInv /\ TypeOK => NoFileLost
    BY TurnAssumption DEF FilesInv, NoFileLost, Box, TypeOK
  <2> QED
    BY <1>2, <2>1, FilesInduction, TypeInduction, PTL
<1> QED
  BY <1>1, <1>2

-----------------------------------------------------------------------------
(* Delivery, for every caller, with or without a checkpointer              *)

Busy(t) == pc[t] \notin {"idle", "done"}

\* Before its agent answers
Unanswered(t) == pc[t] \in {"idle", "servers", "tools", "running"}

\* Before it has replaced self.agent
Agentless(t) == pc[t] \in {"idle", "servers", "tools"}

\* Every file that is saved, loaded or delivered is one of kept, and the turn
\* that made it is past its agent's answer.
MadeInv ==
    /\ \A s \in Turn \cup {None}, x \in Conversation : saved[s][x].files \subseteq kept
    /\ \A t \in Turn : loaded[t].files \cup pending[t] \subseteq kept
    /\ \A f \in Turn : carriers[f] # {} => f \in kept
    /\ \A t \in Turn : Unanswered(t) => t \notin kept

\* A turn that has not made an agent has left no saver behind.
MakerInv ==
    /\ agent.maker \in Turn => ~ Agentless(agent.maker)
    /\ \A t \in Turn : pc[t] = "running" /\ runs[t].maker \in Turn
            => ~ Agentless(runs[t].maker)
    /\ ~ Shared => \A t \in Turn : Agentless(t)
            => \A x \in Conversation : saved[t][x] = Empty

\* In a conversation that is not disturbed, one turn is busy; what turns
\* before it have delivered is flagged in what it has loaded, and in what
\* self.agent would load, unless a turn is just about to flag it there.
DeliveryInv ==
    /\ \A t, u \in Turn : Of[t] = Of[u] /\ Of[t] \notin disturbed /\ Busy(t) /\ Busy(u)
            => t = u
    /\ \A t \in Turn : Of[t] \notin disturbed /\ pc[t] = "running" =>
            \A f \in loaded[t].files \ loaded[t].flagged : carriers[f] = {}
    /\ \A x \in Conversation \ disturbed :
            \A f \in saved[Saver(agent)][x].files \ saved[Saver(agent)][x].flagged :
                carriers[f] # {} =>
                    \E t \in Turn : /\ Of[t] = x /\ pc[t] = "flagging"
                                    /\ f \in pending[t]
    /\ DeliveredOnce

-----------------------------------------------------------------------------
(* What the steps of t do to the files, whatever the savers                *)

\* Only t moves
Moves(t) == \A o \in Turn \ {t} : pc'[o] = pc[o]

LEMMA GotoMoves ==
    ASSUME TypeOK, NEW t \in Turn, NEW place, Goto(t, place)
    PROVE  Moves(t) /\ pc'[t] = place
  BY DEF Goto, Moves, TypeOK

\* Nothing of the files changes, and no agent.
Idles(t) ==
    /\ Moves(t) /\ pc'[t] \notin {"idle", "servers", "running", "flagging"}
    /\ pc'[t] = "tools" => pc[t] = "servers"
    /\ pc[t] \notin {"idle", "done"}
    /\ pc[t] # "flagging" \/ Of[t] \in disturbed'
    /\ disturbed \subseteq disturbed'
    /\ UNCHANGED <<agent, saved, runs, loaded, pending, kept, carriers>>

\* t runs self.agent, or makes it and then runs it.
Runs(t) ==
    /\ Moves(t) /\ Agentless(t) /\ pc[t] # "idle" /\ pc'[t] = "running"
    /\ agent' \in Agent
    /\ agent' = agent \/ agent'.maker = t
    /\ runs' = [runs EXCEPT ![t] = agent']
    /\ loaded' = [loaded EXCEPT ![t] = saved[Saver(agent')][Of[t]]]
    /\ UNCHANGED <<saved, pending, kept, carriers, disturbed>>

\* The run of t ends: it saves the conversation and delivers out.
Ends(t, new, out) ==
    /\ Moves(t) /\ pc[t] = "running"
    /\ new \subseteq {t}
    /\ out \subseteq Undelivered(t, new)
    /\ \/ pc'[t] = "flagging" /\ pending'[t] = out
       \/ pc'[t] \in {"routing", "done"} /\ out = {}
    /\ \A s \in Turn \cup {None}, x \in Conversation : saved'[s][x] =
            IF s = Saver(runs[t]) /\ x = Of[t]
            THEN [files |-> loaded[t].files \cup new, flagged |-> loaded[t].flagged]
            ELSE saved[s][x]
    /\ \A o \in Turn \ {t} : pending'[o] = pending[o]
    /\ pending'[t] \in {out, pending[t]}
    /\ kept' = kept \cup new
    /\ \A f \in Turn : carriers'[f] = IF f \in out THEN carriers[f] \cup {t}
                                                  ELSE carriers[f]
    /\ UNCHANGED <<agent, runs, loaded, disturbed>>

\* t flags what it has delivered, where self.agent keeps its conversations.
Persists(t) ==
    /\ Moves(t) /\ pc[t] = "flagging" /\ pc'[t] = "done"
    /\ \A s \in Turn \cup {None}, x \in Conversation : saved'[s][x] =
            IF s = Saver(agent) /\ x = Of[t]
            THEN [files |-> saved[s][x].files \cup pending[t],
                  flagged |-> saved[s][x].flagged \cup pending[t]]
            ELSE saved[s][x]
    /\ UNCHANGED <<agent, runs, loaded, pending, kept, carriers, disturbed>>

LEMMA SaveEnds ==
    ASSUME TypeOK, NEW t \in Turn, NEW new \in Files(t), Save(t, new)
    PROVE  /\ \A s \in Turn \cup {None}, x \in Conversation : saved'[s][x] =
                  IF s = Saver(runs[t]) /\ x = Of[t]
                  THEN [files |-> loaded[t].files \cup new, flagged |-> loaded[t].flagged]
                  ELSE saved[s][x]
           /\ kept' = kept \cup new /\ new \subseteq {t}
<1>1. loaded[t] \in Checkpoint /\ Of[t] \in Conversation
      /\ Saver(runs[t]) \in Turn \cup {None}
  BY SaverTyped, TurnAssumption DEF TypeOK
<1>2. [loaded[t] EXCEPT !.files = @ \cup new]
        = [files |-> loaded[t].files \cup new, flagged |-> loaded[t].flagged]
  BY <1>1 DEF Checkpoint
<1>3. saved' = [saved EXCEPT ![Saver(runs[t])][Of[t]] =
                  [files |-> loaded[t].files \cup new, flagged |-> loaded[t].flagged]]
  BY <1>2 DEF Save
<1>4. saved \in [Turn \cup {None} -> [Conversation -> Checkpoint]]
  BY DEF TypeOK
<1>5. \A s \in Turn \cup {None}, x \in Conversation : saved'[s][x] =
          IF s = Saver(runs[t]) /\ x = Of[t]
          THEN [files |-> loaded[t].files \cup new, flagged |-> loaded[t].flagged]
          ELSE saved[s][x]
  BY <1>1, <1>3, <1>4
<1>6. kept' = kept \cup new /\ new \subseteq {t}
  BY DEF Save, Files
<1> QED
  BY <1>5, <1>6

LEMMA DeliverySteps ==
    ASSUME TypeOK, NEW t \in Turn, Step(t)
    PROVE  \/ Idles(t) \/ Runs(t) \/ Persists(t)
           \/ \E new, out \in SUBSET Turn : Ends(t, new, out)
<1>1. ASSUME NEW place \in {"tools", "lookup", "done"}, Goto(t, place),
             pc[t] \in {"servers", "tools", "routing", "lookup"},
             place = "tools" => pc[t] = "servers",
             UNCHANGED <<agent, saved, runs, loaded, pending, kept, carriers, disturbed>>
      PROVE  Idles(t)
  BY <1>1, GotoMoves DEF Idles
<1>2. CASE CallRaises(t) \/ RoutingFails(t)
  BY <1>1, <1>2 DEF CallRaises, RoutingFails, Fail
<1>3. CASE RoutingNamesAgent(t) \/ RoutingTells(t) \/ CardFound(t)
  BY <1>1, <1>3 DEF RoutingNamesAgent, RoutingTells, CardFound, Routed, history
<1>4. CASE FlagsLost(t)
  <2>1. Moves(t) /\ pc'[t] = "done"
    BY <1>4, GotoMoves DEF FlagsLost
  <2> QED
    BY <1>4, <2>1 DEF FlagsLost, Disturb, Idles
<1>5. ASSUME Invoke(t, agent'), Agentless(t), pc[t] # "idle", agent' \in Agent,
             agent' = agent \/ agent'.maker = t,
             UNCHANGED <<saved, pending, kept, carriers, disturbed>>
      PROVE  Runs(t)
  BY <1>5, GotoMoves DEF Invoke, Runs
<1>6. CASE ServersNamed(t)
  <2>1. CASE Goto(t, "tools") /\ UNCHANGED <<runs, loaded>>
    BY <1>1, <1>6, <2>1 DEF ServersNamed, history
  <2>2. CASE Invoke(t, agent)
    <3>1. agent' = agent /\ agent \in Agent /\ Invoke(t, agent')
      BY <1>6, <2>2 DEF ServersNamed, TypeOK
    <3> QED
      BY <1>5, <1>6, <3>1 DEF ServersNamed, Agentless, history
  <2> QED
    BY <1>6, <2>1, <2>2 DEF ServersNamed
<1>7. CASE ToolsListed(t)
  <2>1. agent' = [maker |-> t, tools |-> servers[t]] /\ Invoke(t, agent')
    BY <1>7 DEF ToolsListed
  <2>2. agent' \in Agent /\ agent'.maker = t
    BY <2>1 DEF TypeOK, Agent
  <2> QED
    BY <1>5, <1>7, <2>1, <2>2 DEF ToolsListed, Agentless, history
<1>8. ASSUME NEW new \in Files(t), NEW status \in Final, AgentAnswers(t, status, new)
      PROVE  \E nw, out \in SUBSET Turn : Ends(t, nw, out)
  <2> DEFINE out == Undelivered(t, new)
  <2>1. /\ carriers' = [f \in Turn |-> IF f \in out THEN carriers[f] \cup {t}
                                                   ELSE carriers[f]]
        /\ pending' = [pending EXCEPT ![t] = out]
        /\ Goto(t, IF out = {} THEN "done" ELSE "flagging")
        /\ pc[t] = "running" /\ Save(t, new)
        /\ UNCHANGED <<agent, runs, loaded, disturbed>>
    BY <1>8 DEF AgentAnswers
  <2>2. out \in SUBSET Turn /\ new \in SUBSET Turn
    BY FilesTyped DEF Undelivered, TypeOK, Checkpoint
  <2>3. out \subseteq Undelivered(t, new)
    OBVIOUS
  <2> HIDE DEF out
  <2>4. Moves(t) /\ pc'[t] = IF out = {} THEN "done" ELSE "flagging"
    BY <2>1, GotoMoves
  <2>5. /\ pending'[t] = out /\ \A o \in Turn \ {t} : pending'[o] = pending[o]
        /\ \A f \in Turn : carriers'[f] = IF f \in out THEN carriers[f] \cup {t}
                                                      ELSE carriers[f]
    BY <2>1 DEF TypeOK
  <2>6. Ends(t, new, out)
    BY <2>1, <2>3, <2>4, <2>5, SaveEnds DEF Ends
  <2> QED
    BY <2>2, <2>6
<1>9. ASSUME NEW new \in Files(t), AgentRejects(t, new) \/ AgentRaises(t, new)
      PROVE  \E nw, out \in SUBSET Turn : Ends(t, nw, out)
  <2>1. /\ pc[t] = "running" /\ Save(t, new)
        /\ Goto(t, "routing") \/ Goto(t, "done")
        /\ UNCHANGED <<agent, runs, loaded, pending, carriers, disturbed>>
    BY <1>9 DEF AgentRejects, AgentRaises, Fail
  <2>2. Moves(t) /\ pc'[t] \in {"routing", "done"}
    BY <2>1, GotoMoves
  <2>3. Ends(t, new, {})
    BY <2>1, <2>2, SaveEnds DEF Ends
  <2>4. new \in SUBSET Turn /\ {} \in SUBSET Turn
    BY FilesTyped
  <2> QED
    BY <2>3, <2>4
<1>10. CASE FlagsPersisted(t)
  <2> DEFINE s == Saver(agent)
             c == saved[s][Of[t]]
             d == [files |-> c.files \cup pending[t],
                   flagged |-> c.flagged \cup pending[t]]
  <2>1. s \in Turn \cup {None} /\ Of[t] \in Conversation
    BY SaverTyped, TurnAssumption DEF TypeOK
  <2>2. saved' = [saved EXCEPT ![s][Of[t]] = d]
    BY <1>10 DEF FlagsPersisted
  <2>3. saved \in [Turn \cup {None} -> [Conversation -> Checkpoint]]
    BY DEF TypeOK
  <2>4. \A r \in Turn \cup {None}, x \in Conversation : saved'[r][x] =
            IF r = s /\ x = Of[t] THEN d ELSE saved[r][x]
    <3> HIDE DEF s, d
    <3> QED
      BY <2>1, <2>2, <2>3
  <2>5. Moves(t) /\ pc'[t] = "done"
    BY <1>10, GotoMoves DEF FlagsPersisted
  <2> QED
    BY <1>10, <2>4, <2>5 DEF FlagsPersisted, Persists, history
<1> QED
  BY <1>2, <1>3, <1>4, <1>6, <1>7, <1>8, <1>9, <1>10 DEF Step

LEMMA StartStep ==
    ASSUME TypeOK, NEW t \in Turn, Start(t)
    PROVE  /\ Moves(t) /\ pc[t] = "idle" /\ pc'[t] \in {"servers", "routing"}
           /\ disturbed \subseteq disturbed'
           /\ Of[t] \in disturbed' \/ \A o \in Turn \ {t} : Of[o] = Of[t] => ~ Busy(o)
           /\ UNCHANGED <<agent, saved, runs, loaded, pending, kept, carriers>>
<1>1. Moves(t) /\ pc'[t] \in {"servers", "routing"}
  BY GotoMoves DEF Start
<1> QED
  BY <1>1 DEF Start, Disturb, Overlaps, Over, Busy

\* The other steps concern none of it.
LEMMA RestSteps ==
    ASSUME UNCHANGED vars \/ \E now \in SUBSET Server : Regrant(now)
    PROVE  UNCHANGED <<pc, agent, saved, runs, loaded, pending, kept, carriers, disturbed>>
  BY DEF vars, execution, history, Regrant

-----------------------------------------------------------------------------
LEMMA MadeInduction == Spec => []MadeInv
<1>1. Init => MadeInv
  BY DEF Init, Empty, MadeInv
<1>2. TypeOK /\ MadeInv /\ [Next]_vars => MadeInv'
  <2> SUFFICES ASSUME TypeOK, MadeInv, [Next]_vars PROVE MadeInv'
    OBVIOUS
  <2>1. CASE UNCHANGED <<pc, agent, saved, runs, loaded, pending, kept, carriers, disturbed>>
    BY <2>1 DEF MadeInv, Unanswered
  <2>2. ASSUME NEW t \in Turn, Start(t) \/ Idles(t) PROVE MadeInv'
    <3>1. /\ \A o \in Turn : Unanswered(o)' => Unanswered(o)
          /\ UNCHANGED <<saved, loaded, pending, kept, carriers>>
      BY <2>2, StartStep DEF Idles, Moves, Unanswered
    <3> QED
      BY <3>1 DEF MadeInv
  <2>3. ASSUME NEW t \in Turn, Runs(t) PROVE MadeInv'
    <3>1. /\ \A o \in Turn : Unanswered(o)' => Unanswered(o)
          /\ UNCHANGED <<saved, pending, kept, carriers>>
      BY <2>3 DEF Runs, Moves, Unanswered, Agentless
    <3>2. saved[Saver(agent')][Of[t]].files \subseteq kept
      BY <2>3, SaverTyped, TurnAssumption DEF Runs, MadeInv
    <3>3. \A o \in Turn : loaded'[o].files \subseteq kept
      BY <2>3, <3>2 DEF Runs, MadeInv, TypeOK
    <3> QED
      BY <3>1, <3>3 DEF MadeInv
  <2>4. ASSUME NEW t \in Turn, NEW new \in SUBSET Turn, NEW out \in SUBSET Turn,
               Ends(t, new, out)
        PROVE  MadeInv'
    <3>1. /\ \A o \in Turn \ {t} : Unanswered(o)' => Unanswered(o)
          /\ ~ Unanswered(t)' /\ kept' = kept \cup new /\ new \subseteq {t}
          /\ loaded' = loaded
      BY <2>4 DEF Ends, Moves, Unanswered
    <3>2. out \subseteq kept' /\ loaded[t].files \subseteq kept
      BY <2>4, <3>1 DEF Ends, Undelivered, MadeInv
    <3>3. \A s \in Turn \cup {None}, x \in Conversation : saved'[s][x].files \subseteq kept'
      BY <2>4, <3>1, <3>2 DEF Ends, MadeInv
    <3>4. \A o \in Turn : loaded'[o].files \cup pending'[o] \subseteq kept'
      BY <2>4, <3>1, <3>2 DEF Ends, MadeInv
    <3>5. \A f \in Turn : carriers'[f] # {} => f \in kept'
      BY <2>4, <3>1, <3>2 DEF Ends, MadeInv
    <3> QED
      BY <3>1, <3>3, <3>4, <3>5 DEF MadeInv
  <2>5. ASSUME NEW t \in Turn, Persists(t) PROVE MadeInv'
    <3>1. /\ \A o \in Turn : Unanswered(o)' => Unanswered(o)
          /\ UNCHANGED <<loaded, pending, kept, carriers>>
      BY <2>5 DEF Persists, Moves, Unanswered
    <3>2. ASSUME NEW s \in Turn \cup {None}, NEW x \in Conversation
          PROVE  saved'[s][x].files \subseteq kept
      <4>1. saved[s][x].files \subseteq kept /\ pending[t] \subseteq kept
        BY DEF MadeInv
      <4>2. saved'[s][x].files \in {saved[s][x].files, saved[s][x].files \cup pending[t]}
        <5>1. CASE s = Saver(agent) /\ x = Of[t]
          <6>1. saved'[s][x] = [files |-> saved[s][x].files \cup pending[t],
                                flagged |-> saved[s][x].flagged \cup pending[t]]
            BY <2>5, <5>1 DEF Persists
          <6> QED
            BY <6>1
        <5>2. CASE ~ (s = Saver(agent) /\ x = Of[t])
          <6>1. saved'[s][x] = saved[s][x]
            BY <2>5, <5>2 DEF Persists
          <6> QED
            BY <6>1
        <5> QED
          BY <5>1, <5>2
      <4> QED
        BY <4>1, <4>2
    <3> QED
      BY <3>1, <3>2 DEF MadeInv
  <2> QED
    BY <2>1, <2>2, <2>3, <2>4, <2>5, DeliverySteps, RestSteps DEF Next, Idle
<1> QED
  BY <1>1, <1>2, TypeInduction, PTL DEF Spec

LEMMA MakerInduction == Spec => []MakerInv
<1>1. Init => MakerInv
  BY TurnAssumption DEF Init, FirstAgent, MakerInv
<1>2. TypeOK /\ MakerInv /\ [Next]_vars => MakerInv'
  <2> SUFFICES ASSUME TypeOK, MakerInv, [Next]_vars PROVE MakerInv'
    OBVIOUS
  <2>1. CASE UNCHANGED <<pc, agent, saved, runs, loaded, pending, kept, carriers, disturbed>>
    BY <2>1 DEF MakerInv, Agentless
  <2>2. ASSUME NEW t \in Turn, Start(t) \/ Idles(t) PROVE MakerInv'
    <3>1. /\ \A o \in Turn : Agentless(o)' => Agentless(o)
          /\ \A o \in Turn : pc'[o] = "running" => pc[o] = "running"
          /\ UNCHANGED <<agent, saved, runs>>
      BY <2>2, StartStep DEF Idles, Moves, Agentless
    <3> QED
      BY <3>1 DEF MakerInv
  <2>3. ASSUME NEW t \in Turn, Runs(t) PROVE MakerInv'
    <3>1. /\ \A o \in Turn : Agentless(o)' => Agentless(o)
          /\ Agentless(t) /\ ~ Agentless(t)' /\ UNCHANGED saved
          /\ \A o \in Turn \ {t} : pc'[o] = pc[o] /\ runs'[o] = runs[o]
          /\ runs'[t] = agent' /\ (agent' = agent \/ agent'.maker = t)
      BY <2>3 DEF Runs, Moves, Agentless, TypeOK
    <3> QED
      BY <3>1 DEF MakerInv
  <2>4. ASSUME NEW t \in Turn, NEW new, NEW out, Ends(t, new, out) PROVE MakerInv'
    <3>1. /\ \A o \in Turn : Agentless(o)' => Agentless(o)
          /\ \A o \in Turn : pc'[o] = "running" => pc[o] = "running"
          /\ UNCHANGED <<agent, runs>>
      BY <2>4 DEF Ends, Moves, Agentless
    <3>2. ~ Shared => \A o \in Turn : Agentless(o) =>
                \A x \in Conversation : saved'[o][x] = saved[o][x]
      BY <2>4 DEF Ends, MakerInv, Saver
    <3> QED
      BY <3>1, <3>2 DEF MakerInv
  <2>5. ASSUME NEW t \in Turn, Persists(t) PROVE MakerInv'
    <3>1. /\ \A o \in Turn : Agentless(o)' => Agentless(o)
          /\ \A o \in Turn : pc'[o] = "running" => pc[o] = "running"
          /\ UNCHANGED <<agent, runs>>
      BY <2>5 DEF Persists, Moves, Agentless
    <3>2. ~ Shared => \A o \in Turn : Agentless(o) =>
                \A x \in Conversation : saved'[o][x] = saved[o][x]
      BY <2>5 DEF Persists, MakerInv, Saver
    <3> QED
      BY <3>1, <3>2 DEF MakerInv
  <2> QED
    BY <2>1, <2>2, <2>3, <2>4, <2>5, DeliverySteps, RestSteps DEF Next, Idle
<1> QED
  BY <1>1, <1>2, TypeInduction, PTL DEF Spec

LEMMA DeliveryInduction == Spec => []DeliveryInv
<1>1. Init => DeliveryInv
  <2> SUFFICES ASSUME Init PROVE DeliveryInv
    OBVIOUS
  <2>1. Saver(agent) = None
    BY DEF Init, FirstAgent, Saver
  <2>2. \A x \in Conversation : saved[Saver(agent)][x].files = {}
    BY <2>1 DEF Init, Empty
  <2>3. /\ \A t \in Turn : pc[t] = "idle"
        /\ \A f \in Turn : carriers[f] = {}
    BY DEF Init
  <2> QED
    BY <2>2, <2>3 DEF DeliveryInv, DeliveredOnce, Busy
<1>2. TypeOK /\ InsideInv /\ MadeInv /\ MakerInv /\ DeliveryInv /\ [Next]_vars
        => DeliveryInv'
  <2> SUFFICES ASSUME TypeOK, InsideInv, MadeInv, MakerInv, DeliveryInv, [Next]_vars
               PROVE  DeliveryInv'
    OBVIOUS
  <2> DEFINE OnlyOne == \A a, u \in Turn :
                Of[a] = Of[u] /\ Of[a] \notin disturbed /\ Busy(a) /\ Busy(u) => a = u
             LoadedFlagged == \A o \in Turn : Of[o] \notin disturbed /\ pc[o] = "running" =>
                \A f \in loaded[o].files \ loaded[o].flagged : carriers[f] = {}
             Flagging(f, x) == \E o \in Turn :
                Of[o] = x /\ pc[o] = "flagging" /\ f \in pending[o]
             SavedFlagged == \A x \in Conversation \ disturbed :
                \A f \in saved[Saver(agent)][x].files \ saved[Saver(agent)][x].flagged :
                    carriers[f] # {} => Flagging(f, x)
  <2>0. /\ \A x \in Conversation : saved[Saver(agent)][x].files \subseteq FilesOf(x)
        /\ \A o \in Turn : loaded[o].files \subseteq FilesOf(Of[o]) /\ Of[o] \in Conversation
        /\ Saver(agent) \in Turn \cup {None}
    BY SaverTyped, TurnAssumption DEF InsideInv, TypeOK
  <2>1. CASE UNCHANGED <<pc, agent, saved, runs, loaded, pending, kept, carriers, disturbed>>
    BY <2>1 DEF DeliveryInv, DeliveredOnce, Busy, Saver
  <2>2. ASSUME NEW t \in Turn, Start(t) PROVE DeliveryInv'
    <3>1. /\ Moves(t) /\ pc[t] = "idle" /\ pc'[t] \in {"servers", "routing"}
          /\ disturbed \subseteq disturbed'
          /\ Of[t] \in disturbed' \/ \A o \in Turn \ {t} : Of[o] = Of[t] => ~ Busy(o)
          /\ UNCHANGED <<agent, saved, runs, loaded, pending, kept, carriers>>
      BY <2>2, StartStep
    <3>2. OnlyOne'
      BY <3>1 DEF Moves, Busy, DeliveryInv
    <3>3. LoadedFlagged'
      BY <3>1 DEF Moves, DeliveryInv
    <3>4. SavedFlagged'
      BY <3>1 DEF Moves, DeliveryInv, Saver
    <3>5. DeliveredOnce'
      BY <3>1 DEF DeliveryInv, DeliveredOnce
    <3> QED
      BY <3>2, <3>3, <3>4, <3>5 DEF DeliveryInv
  <2>3. ASSUME NEW t \in Turn, Idles(t) PROVE DeliveryInv'
    <3>2. OnlyOne'
      BY <2>3 DEF Idles, Moves, Busy, DeliveryInv
    <3>3. LoadedFlagged'
      BY <2>3 DEF Idles, Moves, DeliveryInv
    <3>4. SavedFlagged'
      BY <2>3 DEF Idles, Moves, DeliveryInv, Saver
    <3>5. DeliveredOnce'
      BY <2>3 DEF Idles, DeliveryInv, DeliveredOnce
    <3> QED
      BY <3>2, <3>3, <3>4, <3>5 DEF DeliveryInv
  <2>4. ASSUME NEW t \in Turn, Runs(t) PROVE DeliveryInv'
    <3>1. /\ Moves(t) /\ Agentless(t) /\ pc[t] # "idle" /\ pc'[t] = "running" /\ Busy(t)
          /\ agent' \in Agent
          /\ \A o \in Turn \ {t} : loaded'[o] = loaded[o]
          /\ loaded'[t] = saved[Saver(agent')][Of[t]]
          /\ UNCHANGED <<saved, pending, kept, carriers, disturbed>>
      BY <2>4 DEF Runs, Agentless, Busy, TypeOK
    <3>2. \/ Saver(agent') = Saver(agent)
          \/ \A x \in Conversation : saved[Saver(agent')][x] = Empty
      <4>1. CASE agent' = agent \/ Shared
        BY <4>1 DEF Saver
      <4>2. CASE agent'.maker = t /\ ~ Shared
        BY <3>1, <4>2 DEF Saver, MakerInv
      <4> QED
        BY <2>4, <4>1, <4>2 DEF Runs
    <3>3. \A x \in Conversation \ disturbed :
                \A f \in saved[Saver(agent')][x].files \ saved[Saver(agent')][x].flagged :
                    carriers[f] # {} => Flagging(f, x)
      BY <3>2 DEF DeliveryInv, Empty
    <3>4. OnlyOne'
      BY <3>1 DEF Moves, Busy, DeliveryInv
    <3>5. LoadedFlagged'
      <4> SUFFICES ASSUME NEW o \in Turn, Of[o] \notin disturbed, pc'[o] = "running",
                          NEW f \in loaded'[o].files \ loaded'[o].flagged
                   PROVE  carriers[f] = {}
        BY <3>1
      <4>1. CASE o = t
        <5>1. ~ Flagging(f, Of[t])
          BY <3>1, <4>1 DEF DeliveryInv, Busy, Agentless
        <5> QED
          BY <2>0, <3>1, <3>3, <4>1, <5>1
      <4>2. CASE o # t
        BY <3>1, <4>2 DEF Moves, DeliveryInv
      <4> QED
        BY <4>1, <4>2
    <3>6. SavedFlagged'
      <4>1. \A f, x : Flagging(f, x) => Flagging(f, x)'
        BY <3>1 DEF Moves, Agentless
      <4> HIDE DEF Flagging
      <4> QED
        BY <3>1, <3>3, <4>1 DEF Saver
    <3>7. DeliveredOnce'
      BY <3>1 DEF DeliveryInv, DeliveredOnce
    <3> QED
      BY <3>4, <3>5, <3>6, <3>7 DEF DeliveryInv
  <2>5. ASSUME NEW t \in Turn, NEW new \in SUBSET Turn, NEW out \in SUBSET Turn,
               Ends(t, new, out)
        PROVE  DeliveryInv'
    <3>1. /\ Moves(t) /\ pc[t] = "running" /\ pc'[t] # "running" /\ Busy(t)
          /\ pc'[t] # "idle"
          /\ UNCHANGED <<agent, loaded, disturbed>>
      BY <2>5 DEF Ends, Busy
    <3>2. \A f \in out : Of[f] = Of[t]
      BY <2>0, <2>5 DEF Ends, Undelivered, FilesOf
    <3>3. Of[t] \notin disturbed => \A f \in (loaded[t].files \cup new) \ loaded[t].flagged :
                carriers[f] = {}
      <4>1. new \subseteq {t} /\ carriers[t] = {}
        BY <2>5 DEF Ends, MadeInv, Unanswered
      <4> QED
        BY <3>1, <4>1 DEF DeliveryInv
    <3>4. \A f \in Turn : carriers'[f] = IF f \in out THEN carriers[f] \cup {t}
                                                     ELSE carriers[f]
      BY <2>5 DEF Ends
    <3>5. OnlyOne'
      BY <3>1 DEF Moves, Busy, DeliveryInv
    <3>6. LoadedFlagged'
      <4> SUFFICES ASSUME NEW o \in Turn, Of[o] \notin disturbed, pc'[o] = "running",
                          NEW f \in loaded[o].files \ loaded[o].flagged
                   PROVE  carriers'[f] = {}
        BY <3>1
      <4>1. o # t /\ pc[o] = "running" /\ Of[o] # Of[t]
        BY <3>1 DEF Moves, Busy, DeliveryInv
      <4>2. f \in Turn /\ Of[f] = Of[o] /\ f \notin out
        BY <2>0, <3>2, <4>1 DEF FilesOf
      <4>3. carriers[f] = {}
        BY <4>1 DEF DeliveryInv
      <4> QED
        BY <3>4, <4>2, <4>3
    <3>7. SavedFlagged'
      <4> SUFFICES ASSUME NEW x \in Conversation \ disturbed,
                          NEW f \in saved'[Saver(agent)][x].files,
                          f \notin saved'[Saver(agent)][x].flagged,
                          carriers'[f] # {}
                   PROVE  Flagging(f, x)'
        BY <3>1 DEF Saver
      <4>1. \A o \in Turn : pc[o] = "flagging" =>
                o # t /\ pc'[o] = "flagging" /\ pending'[o] = pending[o]
        BY <2>5, <3>1 DEF Moves, Ends
      <4>2. CASE saved'[Saver(agent)][x] = saved[Saver(agent)][x] /\ f \notin out
        <5>1. f \in Turn /\ carriers[f] # {}
          BY <2>0, <3>4, <4>2 DEF FilesOf
        <5>2. Flagging(f, x)
          BY <4>2, <5>1 DEF DeliveryInv
        <5> QED
          BY <4>1, <5>2
      <4>3. CASE f \in out
        <5>1. pc'[t] = "flagging" /\ pending'[t] = out
          BY <2>5, <4>3 DEF Ends
        <5>2. Of[t] = x
          <6>1. CASE x = Of[t]
            BY <6>1
          <6>2. CASE x # Of[t]
            <7>1. saved'[Saver(agent)][x] = saved[Saver(agent)][x]
              BY <2>0, <2>5, <6>2 DEF Ends
            <7> QED
              BY <2>0, <3>2, <4>3, <7>1 DEF FilesOf
          <6> QED
            BY <6>1, <6>2
        <5> QED
          BY <4>3, <5>1, <5>2
      <4>4. CASE saved'[Saver(agent)][x] # saved[Saver(agent)][x] /\ f \notin out
        <5>1. /\ x = Of[t]
              /\ saved'[Saver(agent)][x] =
                    [files |-> loaded[t].files \cup new, flagged |-> loaded[t].flagged]
          BY <2>0, <2>5, <4>4 DEF Ends
        <5>2. f \in Turn /\ carriers[f] = {}
          BY <2>0, <3>3, <5>1 DEF FilesOf
        <5> QED
          BY <3>4, <4>4, <5>2
      <4> QED
        BY <4>2, <4>3, <4>4
    <3>8. DeliveredOnce'
      <4> SUFFICES ASSUME NEW f \in Turn, Of[f] \notin disturbed,
                          NEW o \in carriers'[f], NEW u \in carriers'[f]
                   PROVE  o = u
        BY <3>1 DEF DeliveredOnce
      <4>1. CASE f \in out
        <5>1. carriers[f] = {}
          BY <2>5, <3>2, <3>3, <4>1 DEF Ends, Undelivered
        <5>2. carriers'[f] = {t}
          BY <3>4, <4>1, <5>1
        <5> QED
          BY <5>2
      <4>2. CASE f \notin out
        <5>1. carriers'[f] = carriers[f]
          BY <3>4, <4>2
        <5> QED
          BY <5>1 DEF DeliveryInv, DeliveredOnce
      <4> QED
        BY <4>1, <4>2
    <3> QED
      BY <3>5, <3>6, <3>7, <3>8 DEF DeliveryInv
  <2>6. ASSUME NEW t \in Turn, Persists(t) PROVE DeliveryInv'
    <3>1. /\ Moves(t) /\ pc[t] = "flagging" /\ pc'[t] = "done"
          /\ UNCHANGED <<agent, loaded, pending, carriers, disturbed>>
      BY <2>6 DEF Persists
    <3>2. OnlyOne'
      BY <3>1 DEF Moves, Busy, DeliveryInv
    <3>3. LoadedFlagged'
      BY <3>1 DEF Moves, DeliveryInv
    <3>4. SavedFlagged'
      <4> SUFFICES ASSUME NEW x \in Conversation \ disturbed,
                          NEW f \in saved'[Saver(agent)][x].files,
                          f \notin saved'[Saver(agent)][x].flagged,
                          carriers[f] # {}
                   PROVE  Flagging(f, x)'
        BY <3>1 DEF Saver
      <4>1. /\ f \in saved[Saver(agent)][x].files /\ f \notin saved[Saver(agent)][x].flagged
            /\ x = Of[t] => f \notin pending[t]
        <5> DEFINE c == saved[Saver(agent)][x]
        <5>1. saved'[Saver(agent)][x] =
                IF x = Of[t] THEN [files |-> c.files \cup pending[t],
                                   flagged |-> c.flagged \cup pending[t]] ELSE c
          BY <2>0, <2>6 DEF Persists
        <5> HIDE DEF c
        <5>2. f \in c.files /\ f \notin c.flagged /\ (x = Of[t] => f \notin pending[t])
          BY <5>1
        <5> QED
          BY <5>2 DEF c
      <4>2. PICK o \in Turn : Of[o] = x /\ pc[o] = "flagging" /\ f \in pending[o]
        BY <4>1 DEF DeliveryInv
      <4>3. o # t
        BY <4>1, <4>2
      <4> QED
        BY <3>1, <4>2, <4>3 DEF Moves
    <3>5. DeliveredOnce'
      BY <3>1 DEF DeliveryInv, DeliveredOnce
    <3> QED
      BY <3>2, <3>3, <3>4, <3>5 DEF DeliveryInv
  <2> QED
    BY <2>1, <2>2, <2>3, <2>4, <2>5, <2>6, DeliverySteps, RestSteps DEF Next, Idle
<1> QED
  BY <1>1, <1>2, TypeInduction, InsideInduction, MadeInduction, MakerInduction, PTL
  DEF Spec

\* DeliveredOnce: the flags do their work for every caller, with or without a
\* checkpointer: a file that a conversation's turns publish twice belongs to
\* one whose turns overlapped, or whose flags could not be written
\* (executors.py:140-143, agent.py:116-135).
THEOREM NothingIsSentTwice == Spec => []DeliveredOnce
<1>1. DeliveryInv => DeliveredOnce
  BY DEF DeliveryInv
<1> QED
  BY <1>1, DeliveryInduction, PTL

=============================================================================
