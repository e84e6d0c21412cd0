---------------------------- MODULE FileDelivery ----------------------------
(***************************************************************************)
(* How what a tool returns reaches the caller: the interceptor takes       *)
(* everything but text out of the model's sight (mcp_interceptors.py); the *)
(* turn that answers walks the tool messages of the conversation, block by *)
(* block, and names the files it finds (file_extractors.py); it publishes  *)
(* each as an artifact of its task (executors.py), and the client reads    *)
(* the artifacts of the finished task, unless the agent's answer was that  *)
(* it failed: then it raises before it comes to them (client.py).          *)
(*                                                                         *)
(* A block is known by its place in the conversation, its contents matter  *)
(* only as present or not, its mime type only as an image's or another's.  *)
(***************************************************************************)
EXTENDS Integers, FiniteSets, Sequences

CONSTANTS
    Given,       \* names that servers and hints give to files
    NoName,      \* no name is given
    ToolBlock,   \* blocks MCP tools return
    PlainBlock,  \* blocks other tools of the agent return
    MaxBlocks,   \* blocks the tools of a conversation return in all
    MaxResults,  \* and results
    MaxTurns     \* turns of the conversation

Kind == {"attachment", "image"}
Mime == {"image", "other"}

\* kind: what the block is, "rest" for audio and resources that are text;
\* name: the tail of its uri, or the filename a text holds as JSON;
\* full: its data, or its uri, is there
Block == [kind: {"text", "blob", "image", "link", "file", "rest"},
          name: Given \cup {NoName}, mime: Mime, full: BOOLEAN]

ASSUME NameAssumption == NoName \notin Given

\* An ImageContent has no uri that could name it.  (A result with isError is
\* raised by the adapter and makes no message with blocks.)
ASSUME BlockAssumption ==
    /\ ToolBlock \subseteq Block /\ PlainBlock \subseteq Block
    /\ \A b \in ToolBlock : b.kind = "image" => b.name = NoName

ASSUME BoundAssumption ==
    MaxBlocks \in Nat /\ MaxResults \in Nat /\ MaxTurns \in Nat \ {0}

VARIABLES
    room,      \* blocks the tools may still return
    results,   \* the tool messages of the conversation, as the tools made them
    flagged,   \* those with DELIVERED_ARTIFACT_KEY
    turn,      \* turns begun so far
    phase,     \* what the present turn does
    answer,    \* the status of its agent's answer, "none" without one
    msg,         \* the message extraction is at
    pos,         \* the block of it extraction comes to next
    counters,  \* kind -> the index of its next synthetic name
    pending,   \* pending_name
    parts,     \* the files found so far: their names and places
    artifacts, \* the artifacts of the turn's task that hold files
    sent,      \* files published so far
    reply,     \* the files of the client's AgentReply
    old        \* history: the messages flagged before this turn

loop == <<msg, pos, counters, pending>>
task == <<artifacts, sent, reply>>
vars == <<room, results, flagged, turn, phase, answer, loop, parts, task, old>>

-----------------------------------------------------------------------------
(* A tool message                                                          *)

Blocks(n) == results[n].blocks

ResultOf(mcp, blocks, m) ==
    UNION {[mcp: {mcp}, blocks: [1 .. n -> blocks]] : n \in 0 .. m}

\* The blocks of message n the model is not shown: hide_binary_content_from_llm
Hidden(n) ==
    IF results[n].mcp
    THEN {k \in DOMAIN Blocks(n) : Blocks(n)[k].kind # "text"} ELSE {}

\* Extraction reads what is hidden, or, if that is nothing, the content
Readable(n) == IF Hidden(n) # {} THEN Hidden(n) ELSE DOMAIN Blocks(n)

\* Hidden blocks that are files: _mcp_block_to_file_part returns one
McpFile(b) == b.kind \in {"blob", "image", "link"} /\ b.full

\* Blocks of a content list that are: "file" and "image", with data
ContentFile(b) == b.kind \in {"file", "image"} /\ b.full

IsFile(n, k) ==
    IF Hidden(n) # {} THEN McpFile(Blocks(n)[k]) ELSE ContentFile(Blocks(n)[k])

\* The kind a file is counted and named under
KindOf(n, k) ==
    LET b == Blocks(n)[k] IN
    IF b.kind = "image" \/ (Hidden(n) # {} /\ b.mime = "image")
    THEN "image" ELSE "attachment"

\* Mutant of Synthetic: the index is one off
SyntheticBefore(kind, index, mime) == <<kind, index - 1, mime>>

\* _synthetic_name: the kind, "-index" unless it is 0, the type's extension
Synthetic(kind, index, mime) == <<kind, index, mime>>

Name == Given \cup (Kind \X Nat \X Mime)

-----------------------------------------------------------------------------
Init ==
    /\ room = MaxBlocks
    /\ results = <<>>
    /\ flagged = {}
    /\ turn = 1
    /\ phase = "tools"
    /\ answer = "none"
    /\ msg = 1
    /\ pos = 1
    /\ counters = [kind \in Kind |-> 0]
    /\ pending = NoName
    /\ parts = <<>>
    /\ artifacts = <<>>
    /\ sent = 0
    /\ reply = <<>>
    /\ old = {}

\* A tool returns, in a turn whose agent is running
ToolReturns ==
    /\ phase = "tools"
    /\ Len(results) < MaxResults
    /\ \E r \in ResultOf(TRUE, ToolBlock, room) \cup
                ResultOf(FALSE, PlainBlock, room) :
            /\ results' = Append(results, r)
            /\ room' = room - Len(r.blocks)
    /\ UNCHANGED <<flagged, turn, phase, answer, loop, parts, task, old>>

\* The agent answers, that it failed even: extract_file_parts walks the
\* messages.  ("completed" stands for input_required too: the client makes
\* no difference.)
Answer ==
    /\ phase = "tools"
    /\ phase' = "extract"
    /\ answer' \in {"completed", "failed"}
    /\ UNCHANGED <<room, results, flagged, turn, loop, parts, task, old>>

\* ... or rejects, or raises: what its tools made stays in the conversation,
\* and the caller hears of another agent or of an error
Withhold ==
    /\ phase = "tools"
    /\ phase' = "read"
    /\ UNCHANGED <<room, results, flagged, turn, answer, loop, parts, task, old>>

(* extract_file_parts                                                      *)

GoOn == pos' = pos + 1 /\ UNCHANGED msg

Found(name) == parts' = Append(parts, [name |-> name, place |-> <<msg, pos>>])

\* Mutant of Count: every file is the first of its kind
DoNotCount(kind) == UNCHANGED counters

Count(kind) == counters' = [counters EXCEPT ![kind] = @ + 1]

\* Mutant of UseUp: a hint names every file after it
DoNotUseUp == UNCHANGED pending

UseUp == pending' = NoName

\* _mcp_block_to_file_part: every file counts, named by its uri or not
TakeHidden(b) ==
    LET kind == KindOf(msg, pos) IN
    /\ \/ /\ McpFile(b)
          /\ Found(IF b.name # NoName THEN b.name
                   ELSE Synthetic(kind, counters[kind], b.mime))
          /\ Count(kind)
       \/ ~ McpFile(b) /\ UNCHANGED <<parts, counters>>
    /\ UNCHANGED pending

\* _extract_from_langchain_content_blocks: a hint names the next file, and
\* a file counts if it has none
TakeContent(b) ==
    LET kind == KindOf(msg, pos) IN
    \/ /\ b.kind = "text"
       /\ pending' = IF b.name # NoName THEN b.name ELSE pending
       /\ UNCHANGED <<parts, counters>>
    \/ /\ ContentFile(b) /\ pending # NoName
       /\ Found(pending)
       /\ UseUp
       /\ UNCHANGED counters
    \/ /\ ContentFile(b) /\ pending = NoName
       /\ Found(Synthetic(kind, counters[kind], b.mime))
       /\ Count(kind)
       /\ UNCHANGED pending
    \/ /\ b.kind # "text" /\ ~ ContentFile(b)
       /\ UNCHANGED <<parts, counters, pending>>

Extracting == phase = "extract" /\ msg \in DOMAIN results

\* Mutant of TakeBlock: a message delivered before is read again
TakeBlockAgain ==
    /\ Extracting
    /\ pos \in DOMAIN Blocks(msg)
    /\ \/ pos \in Hidden(msg) /\ TakeHidden(Blocks(msg)[pos])
       \/ Hidden(msg) = {} /\ TakeContent(Blocks(msg)[pos])
       \/ pos \notin Readable(msg) /\ UNCHANGED <<parts, counters, pending>>
    /\ GoOn
    /\ UNCHANGED <<room, results, flagged, turn, phase, answer, task, old>>

TakeBlock ==
    /\ Extracting
    /\ msg \notin flagged /\ pos \in DOMAIN Blocks(msg)
    /\ \/ pos \in Hidden(msg) /\ TakeHidden(Blocks(msg)[pos])
       \/ Hidden(msg) = {} /\ TakeContent(Blocks(msg)[pos])
       \/ pos \notin Readable(msg) /\ UNCHANGED <<parts, counters, pending>>
    /\ GoOn
    /\ UNCHANGED <<room, results, flagged, turn, phase, answer, task, old>>

\* A message that gave a file is marked; the next starts afresh
EndMessage ==
    /\ Extracting
    /\ msg \in flagged \/ pos \notin DOMAIN Blocks(msg)
    /\ flagged' = flagged \cup
            {n \in {msg} : \E a \in DOMAIN parts : parts[a].place[1] = n}
    /\ msg' = msg + 1
    /\ pos' = 1
    /\ counters' = [kind \in Kind |-> 0]
    /\ pending' = NoName
    /\ UNCHANGED <<room, results, turn, phase, answer, parts, task, old>>

EndExtraction ==
    /\ phase = "extract" /\ msg \notin DOMAIN results
    /\ phase' = "publish"
    /\ UNCHANGED <<room, results, flagged, turn, answer, loop, parts, task, old>>

(* The task and its caller                                                 *)

\* Mutant of PutArtifact: an artifact that is there is left alone
KeepArtifact(file) ==
    artifacts' = IF \E a \in DOMAIN artifacts : artifacts[a].name = file.name
                 THEN artifacts ELSE Append(artifacts, file)

\* An artifact event with append=False: the SDK's task store puts it in the
\* place of the artifact of the same id, if there is one
PutArtifact(file) ==
    \/ /\ \A a \in DOMAIN artifacts : artifacts[a].name # file.name
       /\ artifacts' = Append(artifacts, file)
    \/ \E a \in DOMAIN artifacts :
          /\ artifacts[a].name = file.name
          /\ artifacts' = [artifacts EXCEPT ![a] = file]

\* execute publishes the files one by one, their names as artifact ids ...
Publish ==
    /\ phase = "publish" /\ sent < Len(parts)
    /\ PutArtifact(parts[sent + 1])
    /\ sent' = sent + 1
    /\ UNCHANGED <<room, results, flagged, turn, phase, answer, loop, parts>>
    /\ UNCHANGED <<reply, old>>

\* ... and then the text and the final state, which is the answer's
Finish ==
    /\ phase = "publish" /\ sent = Len(parts)
    /\ phase' = "final"
    /\ UNCHANGED <<room, results, flagged, turn, answer, loop, parts, task, old>>

\* The client polls, sees the final state and collects the FileRefs ...
Collect ==
    /\ phase = "final" /\ answer # "failed"
    /\ reply' = artifacts
    /\ phase' = "read"
    /\ UNCHANGED <<room, results, flagged, turn, answer, loop, parts>>
    /\ UNCHANGED <<artifacts, sent, old>>

\* ... or raises A2ARemoteTaskError: the files, flagged, reach nobody
RaiseRemoteFailure ==
    /\ phase = "final" /\ answer = "failed"
    /\ phase' = "read"
    /\ UNCHANGED <<room, results, flagged, turn, answer, loop, parts, task, old>>

\* The next message of the conversation makes a task of its own.  (That the
\* flags are saved by then is AgentExecutor's matter.)
NextTurn ==
    /\ phase = "read" /\ turn < MaxTurns
    /\ turn' = turn + 1
    /\ phase' = "tools"
    /\ answer' = "none"
    /\ msg' = 1
    /\ parts' = <<>>
    /\ artifacts' = <<>>
    /\ sent' = 0
    /\ reply' = <<>>
    /\ old' = flagged
    /\ UNCHANGED <<room, results, flagged, pos, counters, pending>>

\* The conversation is over
Over == phase = "read" /\ turn = MaxTurns /\ UNCHANGED vars

Next ==
    \/ ToolReturns \/ Answer \/ Withhold
    \/ TakeBlock \/ EndMessage \/ EndExtraction
    \/ Publish \/ Finish \/ Collect \/ RaiseRemoteFailure
    \/ NextTurn \/ Over

Spec == Init /\ [][Next]_vars

-----------------------------------------------------------------------------
(* What the names ought to be, told without counters and pending_name.     *)

FilesBefore(n, k) == {h \in Readable(n) : h < k /\ IsFile(n, h)}

\* Hints between a file of a content list and the file before it
Hints(n, k) ==
    {h \in 1 .. k - 1 :
        /\ Hidden(n) = {}
        /\ Blocks(n)[h].kind = "text" /\ Blocks(n)[h].name # NoName
        /\ \A f \in FilesBefore(n, k) : f < h}

\* Files of a message whose name is not given
Unnamed(n, k) == IF Hidden(n) # {} THEN Blocks(n)[k].name = NoName
                 ELSE Hints(n, k) = {}

\* The files before a block that count for its synthetic name, if it has one
Counted(n, k, kind) ==
    {h \in FilesBefore(n, k) :
        KindOf(n, h) = kind /\ (Hidden(n) # {} \/ Unnamed(n, h))}

Rank(n, k) == Cardinality(Counted(n, k, KindOf(n, k)))

LastOf(H) == CHOOSE h \in H : \A g \in H : g <= h

Declared(n, k) ==
    IF Unnamed(n, k) THEN Synthetic(KindOf(n, k), Rank(n, k), Blocks(n)[k].mime)
    ELSE IF Hidden(n) # {} THEN Blocks(n)[k].name
    ELSE Blocks(n)[LastOf(Hints(n, k))].name

Place == Nat \X Nat
Part == [name: Name, place: Place]
Passed(n, k) == n < msg \/ (n = msg /\ k < pos)
Earlier(p, q) == p[1] < q[1] \/ (p[1] = q[1] /\ p[2] < q[2])

TypeOK ==
    /\ room \in 0 .. MaxBlocks
    /\ results \in Seq([mcp: BOOLEAN, blocks: Seq(Block)])
    /\ flagged \subseteq DOMAIN results /\ old \subseteq flagged
    /\ turn \in 1 .. MaxTurns
    /\ phase \in {"tools", "extract", "publish", "final", "read"}
    /\ answer \in {"none", "completed", "failed"}
    /\ msg \in 1 .. Len(results) + 1
    /\ pos \in Nat
    /\ counters \in [Kind -> Nat]
    /\ pending \in Given \cup {NoName}
    /\ parts \in Seq(Part)
    /\ artifacts \in Seq(Part) /\ reply \in Seq(Part)
    /\ sent \in 0 .. Len(parts)

(* Extraction finds all that it takes for a file, in every message not     *)
(* flagged before, once and in order, and nothing else                     *)
(* (file_extractors.py:217-246).  What a server may send that it does not  *)
(* take for one is HiddenArrives' matter.                                  *)
NoneMissed ==
    /\ {parts[a].place : a \in DOMAIN parts} =
            {p \in (DOMAIN results) \X (1 .. MaxBlocks) :
                /\ phase # "tools" /\ p[1] \notin old /\ Passed(p[1], p[2])
                /\ p[2] \in Readable(p[1]) /\ IsFile(p[1], p[2])}
    /\ \A a, b \in DOMAIN parts : a < b => Earlier(parts[a].place, parts[b].place)

(* A file has the name its server gave it, the last hint between it and    *)
(* the file before it, or its kind and its rank among those that count     *)
(* (file_extractors.py:35-46, 156-188).                                    *)
NamesAsDeclared ==
    \A a \in DOMAIN parts :
        parts[a].name = Declared(parts[a].place[1], parts[a].place[2])

(* Two files of one message share a name only if a server or a hint gave   *)
(* one of them that name (file_extractors.py:51, 159, the counters).       *)
MadeNamesDiffer ==
    \A a, b \in DOMAIN parts :
        LET p == parts[a].place
            q == parts[b].place
        IN a # b /\ p[1] = q[1] /\ parts[a].name = parts[b].name =>
            ~ Unnamed(p[1], p[2]) \/ ~ Unnamed(q[1], q[2])

(* The reply to an answer that did not fail has, of the files of the turn  *)
(* that share a name, the last, and no reply has a file besides            *)
(* (executors.py:125-137, client.py:206-241).                              *)
LastOfNameArrives ==
    phase = "read" =>
        /\ answer = "completed" =>
              \A a \in DOMAIN parts :
                 (\E b \in DOMAIN reply : reply[b] = parts[a]) <=>
                 (\A c \in a + 1 .. Len(parts) : parts[c].name # parts[a].name)
        /\ \A b \in DOMAIN reply : \E a \in DOMAIN parts : reply[b] = parts[a]
        /\ answer # "completed" => reply = <<>>

(* What the interceptor takes out of the model's sight reaches the caller  *)
(* with the answer of its turn (README.md:177-179 of the repository).  The *)
(* code does not keep this: audio, and a resource that is text, is no file *)
(* for extraction (file_extractors.py:89-91, 112).                         *)
HiddenArrives ==
    phase = "read" /\ answer = "completed" =>
        \A n \in DOMAIN results \ old : \A k \in Hidden(n) :
            Blocks(n)[k].full => \E b \in DOMAIN reply : reply[b].place = <<n, k>>
=============================================================================
