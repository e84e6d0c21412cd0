------------------------- MODULE FileDeliveryProofs -------------------------
(* What FileDelivery guarantees for all blocks, names and bounds: every    *)
(* file is found once and in order, under the name that was declared for   *)
(* it, and the last of each name reaches the caller.                       *)
EXTENDS FileDelivery, SequenceTheorems, FiniteSetTheorems, TLAPS

USE NameAssumption, BlockAssumption, BoundAssumption

Message == [mcp: BOOLEAN, blocks: Seq(Block)]

-----------------------------------------------------------------------------
(* Types                                                                   *)

\* What is at the place of a block.
LEMMA BlockTyped ==
    ASSUME TypeOK, NEW n \in DOMAIN results, NEW k \in DOMAIN Blocks(n)
    PROVE  /\ n \in 1 .. Len(results) /\ k \in 1 .. Len(Blocks(n))
           /\ Len(Blocks(n)) \in Nat
           /\ Blocks(n)[k] \in Block
           /\ Blocks(n)[k].kind \in {"text", "blob", "image", "link", "file", "rest"}
           /\ Blocks(n)[k].name \in Given \cup {NoName}
           /\ Blocks(n)[k].mime \in Mime
           /\ Blocks(n)[k].full \in BOOLEAN
<1>1. n \in 1 .. Len(results) /\ results[n] \in Message
  BY ElementOfSeq, LenProperties DEF TypeOK, Message
<1>2. Blocks(n) \in Seq(Block)
  BY <1>1 DEF Message, Blocks
<1>3. k \in 1 .. Len(Blocks(n)) /\ Blocks(n)[k] \in Block /\ Len(Blocks(n)) \in Nat
  BY <1>2, ElementOfSeq, LenProperties
<1> QED
  BY <1>1, <1>3 DEF Block

\* A tool's result is a message, of no more blocks than there is room for.
LEMMA ResultTyped ==
    ASSUME NEW m \in Nat, NEW blocks \in SUBSET Block, NEW mcp \in BOOLEAN,
           NEW r \in ResultOf(mcp, blocks, m)
    PROVE  r \in Message /\ Len(r.blocks) \in 0 .. m
<1>1. PICK n \in 0 .. m : r \in [mcp: {mcp}, blocks: [1 .. n -> blocks]]
  BY DEF ResultOf
<1>2. r.blocks \in [1 .. n -> Block] /\ n \in Nat
  BY <1>1
<1>3. r.blocks \in Seq(Block)
  BY <1>2, SeqDef
<1>4. Len(r.blocks) = n
  BY <1>2, <1>3, LenProperties
<1> QED
  BY <1>1, <1>3, <1>4 DEF Message

LEMMA ToolReturnsTyped ==
    ASSUME TypeOK, ToolReturns
    PROVE  /\ results' \in Seq(Message) /\ room' \in 0 .. MaxBlocks
           /\ Len(results') = Len(results) + 1
           /\ \A n \in DOMAIN results : results'[n] = results[n]
           /\ DOMAIN results' = 1 .. Len(results) + 1
           /\ Len(results'[Len(results) + 1].blocks) \in 0 .. MaxBlocks
<1>1. PICK r \in ResultOf(TRUE, ToolBlock, room) \cup ResultOf(FALSE, PlainBlock, room) :
            results' = Append(results, r) /\ room' = room - Len(r.blocks)
  BY DEF ToolReturns
<1>2. room \in Nat /\ room <= MaxBlocks /\ results \in Seq(Message)
  BY DEF TypeOK, Message
<1>3. r \in Message /\ Len(r.blocks) \in 0 .. room
  BY <1>2, ResultTyped
<1>4. DOMAIN results = 1 .. Len(results) /\ Len(results) \in Nat
  BY <1>2, LenProperties
<1>5. /\ results' \in Seq(Message) /\ Len(results') = Len(results) + 1
      /\ \A n \in 1 .. Len(results) : results'[n] = results[n]
      /\ results'[Len(results) + 1] = r
  BY <1>1, <1>2, <1>3, AppendProperties
<1>6. DOMAIN results' = 1 .. Len(results')
  BY <1>5, LenProperties
<1> QED
  BY <1>1, <1>2, <1>3, <1>4, <1>5, <1>6

LEMMA KindTyped ==
    ASSUME NEW n, NEW k
    PROVE  KindOf(n, k) \in Kind
  BY DEF KindOf, Kind

\* What a step of extraction does: a file is found, at the place it is, or
\* the block is no file.
LEMMA TakeBlockTyped ==
    ASSUME TypeOK, TakeBlock
    PROVE  /\ phase = "extract" /\ msg \in DOMAIN results /\ msg \notin flagged
           /\ pos \in DOMAIN Blocks(msg) /\ pos' = pos + 1
           /\ counters' \in [Kind -> Nat] /\ pending' \in Given \cup {NoName}
           /\ \/ /\ pos \in Readable(msg) /\ IsFile(msg, pos)
                 /\ \E file \in Part :
                        file.place = <<msg, pos>> /\ parts' = Append(parts, file)
              \/ /\ ~ (pos \in Readable(msg) /\ IsFile(msg, pos))
                 /\ parts' = parts
           /\ UNCHANGED <<room, results, flagged, turn, phase, answer, msg, task, old>>
<1> DEFINE b == Blocks(msg)[pos]
           kind == KindOf(msg, pos)
<1>1. /\ phase = "extract" /\ msg \in DOMAIN results /\ msg \notin flagged
      /\ pos \in DOMAIN Blocks(msg) /\ pos' = pos + 1
      /\ UNCHANGED <<room, results, flagged, turn, phase, answer, msg, task, old>>
  BY DEF TakeBlock, Extracting, GoOn
<1>2. /\ b.kind \in {"text", "blob", "image", "link", "file", "rest"}
      /\ b.name \in Given \cup {NoName} /\ b.mime \in Mime /\ b.full \in BOOLEAN
  BY <1>1, BlockTyped
<1>3. counters \in [Kind -> Nat] /\ pending \in Given \cup {NoName} /\ kind \in Kind
  BY KindTyped DEF TypeOK
<1>4. Synthetic(kind, counters[kind], b.mime) \in Name
  BY <1>2, <1>3 DEF Synthetic, Name
<1>a. ASSUME NEW name \in Name, Found(name)
      PROVE  \E file \in Part : file.place = <<msg, pos>> /\ parts' = Append(parts, file)
  <2>1. <<msg, pos>> \in Nat \X Nat
    BY <1>1, LenProperties DEF TypeOK
  <2>2. [name |-> name, place |-> <<msg, pos>>] \in Part
    BY <1>a, <2>1 DEF Part, Place
  <2> QED
    BY <1>a, <2>2 DEF Found
<1>5. ASSUME Count(kind) PROVE counters' \in [Kind -> Nat]
  BY <1>3, <1>5 DEF Count
<1>6. CASE pos \in Hidden(msg) /\ TakeHidden(b)
  <2>1. Readable(msg) = Hidden(msg) /\ IsFile(msg, pos) = McpFile(b)
    BY <1>6 DEF Readable, IsFile
  <2>2. CASE McpFile(b)
    <3>1. PICK name \in Name : Found(name)
      BY <1>2, <1>4, <1>6, <2>2 DEF TakeHidden, Name
    <3> QED
      BY <1>1, <1>3, <1>5, <1>6, <1>a, <2>1, <2>2, <3>1 DEF TakeHidden
  <2>3. CASE ~ McpFile(b)
    BY <1>1, <1>3, <1>6, <2>1, <2>3 DEF TakeHidden
  <2> QED
    BY <2>2, <2>3
<1>7. CASE Hidden(msg) = {} /\ TakeContent(b)
  <2>1. pos \in Readable(msg) /\ IsFile(msg, pos) = ContentFile(b)
    BY <1>1, <1>7 DEF Readable, IsFile
  <2>2. b.kind = "text" => ~ ContentFile(b)
    BY DEF ContentFile
  <2>3. CASE ContentFile(b) /\ pending # NoName
    <3>1. pending \in Name /\ Found(pending)
      BY <1>3, <1>7, <2>2, <2>3 DEF TakeContent, UseUp, Name
    <3> QED
      BY <1>1, <1>3, <1>7, <1>a, <2>1, <2>2, <2>3, <3>1 DEF TakeContent, UseUp
  <2>4. CASE ContentFile(b) /\ pending = NoName
    <3>1. Found(Synthetic(kind, counters[kind], b.mime))
      BY <1>7, <2>2, <2>4 DEF TakeContent, UseUp
    <3> QED
      BY <1>1, <1>3, <1>4, <1>5, <1>7, <1>a, <2>1, <2>2, <2>4, <3>1 DEF TakeContent, UseUp
  <2>5. CASE ~ ContentFile(b)
    BY <1>1, <1>2, <1>3, <1>7, <2>1, <2>5 DEF TakeContent, UseUp
  <2> QED
    BY <2>3, <2>4, <2>5
<1>8. CASE pos \notin Readable(msg) /\ UNCHANGED <<parts, counters, pending>>
  BY <1>1, <1>3, <1>8
<1> QED
  BY <1>1, <1>6, <1>7, <1>8 DEF TakeBlock

\* Publishing keeps the artifacts a sequence of parts.
LEMMA PutTyped ==
    ASSUME TypeOK, NEW file \in Part, PutArtifact(file)
    PROVE  artifacts' \in Seq(Part)
<1>1. artifacts \in Seq(Part) /\ DOMAIN artifacts = 1 .. Len(artifacts)
  BY LenProperties DEF TypeOK
<1> QED
  BY <1>1, AppendProperties, ExceptSeq DEF PutArtifact

\* The phases of a turn: what is there when, and where extraction begins.
Phases ==
    /\ phase = "tools" => parts = <<>> /\ msg = 1 /\ answer = "none"
    /\ phase \in {"extract", "publish", "final"} => answer # "none"
    /\ phase \in {"tools", "extract"} => artifacts = <<>> /\ sent = 0
    /\ phase # "read" => reply = <<>>
    /\ phase = "final" => sent = Len(parts)
    /\ phase = "read" => sent = Len(parts)
    /\ phase = "read" =>
          reply = IF answer = "completed" THEN artifacts ELSE <<>>
    /\ phase # "extract" \/ msg \notin DOMAIN results => pos = 1
    /\ pos = 1 => counters = [kind \in Kind |-> 0] /\ pending = NoName
    /\ pos >= 1
    /\ \A n \in DOMAIN results : Len(Blocks(n)) <= MaxBlocks

TypeInv == TypeOK /\ Phases

LEMMA TypeInduction == Spec => []TypeInv
<1>1. Init => TypeInv
  <2>1. Init => TypeOK
    BY EmptySeq DEF Init, TypeOK
  <2>2. Init => Phases
    BY DEF Init, Phases
  <2> QED
    BY <2>1, <2>2 DEF TypeInv
<1>2. TypeInv /\ [Next]_vars => TypeInv'
  <2> SUFFICES ASSUME TypeInv, [Next]_vars PROVE TypeInv'
    OBVIOUS
  <2>0. TypeOK /\ Phases
    BY DEF TypeInv
  <2>a. /\ DOMAIN results = 1 .. Len(results) /\ Len(results) \in Nat
        /\ DOMAIN parts = 1 .. Len(parts) /\ Len(parts) \in Nat
        /\ msg \in Nat /\ pos \in Nat /\ sent \in Nat
    BY <2>0, LenProperties DEF TypeOK
  <2>1. CASE ToolReturns
    <3>1. /\ results' \in Seq(Message) /\ room' \in 0 .. MaxBlocks
          /\ Len(results') = Len(results) + 1
          /\ \A n \in DOMAIN results : results'[n] = results[n]
          /\ DOMAIN results' = 1 .. Len(results) + 1
          /\ Len(results'[Len(results) + 1].blocks) \in 0 .. MaxBlocks
      BY <2>0, <2>1, ToolReturnsTyped
    <3>2. /\ phase = "tools"
          /\ UNCHANGED <<flagged, turn, phase, answer, loop, parts, task, old>>
      BY <2>1 DEF ToolReturns
    <3>3. TypeOK'
      BY <2>0, <2>a, <3>1, <3>2 DEF TypeOK, Message, loop, task
    <3>4. \A n \in DOMAIN results' : Len(Blocks(n)') <= MaxBlocks
      <4>1. ASSUME NEW n \in DOMAIN results', n \in DOMAIN results
            PROVE  Len(results'[n].blocks) <= MaxBlocks
        <5>1. results'[n] = results[n] /\ Len(results[n].blocks) <= MaxBlocks
          BY <2>0, <3>1, <4>1 DEF Phases, Blocks
        <5> QED
          BY <5>1
      <4>2. ASSUME NEW n \in DOMAIN results', n \notin DOMAIN results
            PROVE  Len(results'[n].blocks) <= MaxBlocks
        <5>1. n = Len(results) + 1
          BY <2>a, <3>1, <4>2
        <5> QED
          BY <3>1, <5>1
      <4> QED
        BY <4>1, <4>2 DEF Blocks
    <3>5. Phases'
      BY <2>0, <3>2, <3>4 DEF Phases, loop, task
    <3> QED
      BY <3>3, <3>5 DEF TypeInv
  <2>2. CASE Answer \/ EndExtraction
    BY <2>0, <2>2 DEF Answer, EndExtraction, TypeInv, TypeOK, Phases, Blocks, loop, task
  <2>3. CASE Withhold
    BY <2>0, <2>3, EmptySeq DEF Withhold, TypeInv, TypeOK, Phases, Blocks, loop, task
  <2>4. CASE TakeBlock
    <3>1. /\ phase = "extract" /\ msg \in DOMAIN results /\ pos' = pos + 1
          /\ counters' \in [Kind -> Nat] /\ pending' \in Given \cup {NoName}
          /\ UNCHANGED <<room, results, flagged, turn, phase, answer, msg, task, old>>
      BY <2>0, <2>4, TakeBlockTyped
    <3>2. parts' \in Seq(Part) /\ Len(parts') >= Len(parts) /\ Len(parts') \in Nat
      <4>1. CASE parts' = parts
        BY <2>0, <2>a, <4>1 DEF TypeOK
      <4>2. ASSUME NEW file \in Part, parts' = Append(parts, file)
            PROVE  parts' \in Seq(Part) /\ Len(parts') = Len(parts) + 1
        BY <2>0, <4>2, AppendProperties DEF TypeOK
      <4> QED
        BY <2>0, <2>a, <2>4, <4>1, <4>2, TakeBlockTyped
    <3>3. TypeOK'
      BY <2>0, <2>a, <3>1, <3>2 DEF TypeOK, task
    <3>4. Phases'
      BY <2>0, <2>a, <3>1 DEF Phases, Blocks, task
    <3> QED
      BY <3>3, <3>4 DEF TypeInv
  <2>5. CASE EndMessage
    BY <2>0, <2>a, <2>5 DEF EndMessage, Extracting, TypeInv, TypeOK, Phases, Blocks, task
  <2>6. CASE Publish
    <3>1. sent + 1 \in 1 .. Len(parts) /\ parts[sent + 1] \in Part
      BY <2>0, <2>a, <2>6, ElementOfSeq DEF Publish, TypeOK
    <3>2. artifacts' \in Seq(Part)
      BY <2>0, <2>6, <3>1, PutTyped DEF Publish
    <3> QED
      BY <2>0, <2>a, <2>6, <3>1, <3>2 DEF Publish, TypeInv, TypeOK, Phases, Blocks, loop
  <2>7. CASE Finish
    BY <2>0, <2>7 DEF Finish, TypeInv, TypeOK, Phases, Blocks, loop, task
  <2>8. CASE Collect
    BY <2>0, <2>8 DEF Collect, TypeInv, TypeOK, Phases, Blocks, loop
  <2>8a. CASE RaiseRemoteFailure
    BY <2>0, <2>8a, EmptySeq DEF RaiseRemoteFailure, TypeInv, TypeOK, Phases, Blocks, loop, task
  <2>9. CASE NextTurn
    BY <2>0, <2>a, <2>9, EmptySeq DEF NextTurn, TypeInv, TypeOK, Phases, Blocks
  <2>10. CASE UNCHANGED vars
    BY <2>0, <2>10 DEF vars, TypeInv, TypeOK, Phases, Blocks, loop, task
  <2> QED
    BY <2>1, <2>2, <2>3, <2>4, <2>5, <2>6, <2>7, <2>8, <2>8a, <2>9, <2>10
      DEF Next, Over
<1> QED
  BY <1>1, <1>2, PTL DEF Spec

\* TypeOK: the type invariant of extraction and delivery.
THEOREM TypeCorrect == Spec => []TypeOK
<1>1. TypeInv => TypeOK
  BY DEF TypeInv
<1> QED
  BY <1>1, TypeInduction, PTL

-----------------------------------------------------------------------------
(* What extraction finds                                                   *)

\* The files extraction should have found by now
Sought == {p \in (DOMAIN results) \X (1 .. MaxBlocks) :
                /\ phase # "tools" /\ p[1] \notin old /\ Passed(p[1], p[2])
                /\ p[2] \in Readable(p[1]) /\ IsFile(p[1], p[2])}

\* They are found in order, behind where extraction is, and only messages
\* it has passed are newly flagged.
Ordered ==
    /\ \A a \in DOMAIN parts : Earlier(parts[a].place, <<msg, pos>>)
    /\ \A a, b \in DOMAIN parts : a < b => Earlier(parts[a].place, parts[b].place)
    /\ \A n \in flagged : n \in old \/ n < msg
    /\ {parts[a].place : a \in DOMAIN parts} = Sought

\* What a block is does not depend on how far extraction has come.
LEMMA BlocksStay ==
    ASSUME UNCHANGED results
    PROVE  /\ \A n : /\ Blocks(n)' = Blocks(n) /\ Hidden(n)' = Hidden(n)
                     /\ Readable(n)' = Readable(n)
           /\ \A n, k : IsFile(n, k)' = IsFile(n, k) /\ KindOf(n, k)' = KindOf(n, k)
  BY DEF Blocks, Hidden, Readable, IsFile, KindOf

LEMMA ReadableBlocks ==
    ASSUME TypeOK, NEW n \in DOMAIN results
    PROVE  /\ Readable(n) \subseteq 1 .. Len(Blocks(n))
           /\ DOMAIN Blocks(n) = 1 .. Len(Blocks(n)) /\ Len(Blocks(n)) \in Nat
<1>1. results[n] \in Message
  BY ElementOfSeq, LenProperties DEF TypeOK, Message
<1>2. DOMAIN Blocks(n) = 1 .. Len(Blocks(n)) /\ Len(Blocks(n)) \in Nat
  BY <1>1, LenProperties DEF Message, Blocks
<1> QED
  BY <1>2 DEF Readable, Hidden

\* A file that is appended keeps what is there.
LEMMA FoundLast ==
    ASSUME TypeOK, NEW file \in Part, parts' = Append(parts, file)
    PROVE  /\ DOMAIN parts = 1 .. Len(parts) /\ Len(parts) \in Nat
           /\ DOMAIN parts' = 1 .. Len(parts) + 1
           /\ \A a \in DOMAIN parts : parts'[a] = parts[a]
           /\ parts'[Len(parts) + 1] = file
<1>1. parts \in Seq(Part)
  BY DEF TypeOK
<1>2. parts' \in Seq(Part) /\ Len(parts') = Len(parts) + 1
  BY <1>1, AppendProperties
<1> QED
  BY <1>1, <1>2, LenProperties, AppendProperties

LEMMA PartTyped ==
    ASSUME TypeOK, NEW a \in DOMAIN parts
    PROVE  parts[a] \in Part /\ parts[a].place \in Nat \X Nat
<1>1. parts \in Seq(Part) /\ a \in 1 .. Len(parts)
  BY LenProperties DEF TypeOK
<1>2. parts[a] \in Part
  BY <1>1, ElementOfSeq
<1> QED
  BY <1>2 DEF Part, Place

LEMMA OrderInduction == Spec => []Ordered
<1>1. Init => Ordered
  BY DEF Init, Ordered, Sought
<1>2. TypeInv /\ Ordered /\ [Next]_vars => Ordered'
  <2> SUFFICES ASSUME TypeInv, Ordered, [Next]_vars PROVE Ordered'
    OBVIOUS
  <2>0. TypeOK /\ Phases
    BY DEF TypeInv
  <2>a. /\ DOMAIN results = 1 .. Len(results) /\ Len(results) \in Nat
        /\ DOMAIN parts = 1 .. Len(parts) /\ Len(parts) \in Nat
        /\ msg \in Nat \ {0} /\ pos \in Nat \ {0}
    BY <2>0, LenProperties DEF TypeOK, Phases
  <2>b. phase = "tools" => Sought = {} /\ parts = <<>> /\ msg = 1 /\ pos = 1
    BY <2>0 DEF Phases, Sought
  <2>c. ASSUME UNCHANGED <<results, msg, pos, parts, old, flagged>>,
               phase' # phase => phase \in {"tools", "extract", "publish", "final"},
               phase' # "tools" \/ phase = "tools"
        PROVE  Ordered'
    <3>1. CASE phase = "tools"
      <4>1. Sought' = {}
        BY <2>a, <2>b, <2>c, <3>1 DEF Sought, Passed
      <4> QED
        BY <2>b, <2>c, <3>1, <4>1 DEF Ordered
    <3>2. CASE phase # "tools"
      <4>1. Sought' = Sought
        BY <2>c, <3>2, BlocksStay DEF Sought, Passed
      <4> QED
        BY <2>c, <4>1 DEF Ordered
    <3> QED
      BY <3>1, <3>2
  <2>1. CASE ToolReturns
    <3>1. phase' = "tools" /\ UNCHANGED <<phase, loop, parts, flagged, old>>
          /\ phase = "tools"
      BY <2>1 DEF ToolReturns
    <3>2. Sought' = {}
      BY <3>1 DEF Sought
    <3> QED
      BY <2>b, <3>1, <3>2 DEF Ordered, loop
  <2>2. CASE \/ Answer \/ Withhold \/ EndExtraction
            \/ Publish \/ Finish \/ Collect \/ RaiseRemoteFailure
    BY <2>2, <2>c DEF Answer, Withhold, EndExtraction, Publish, Finish, Collect,
                      RaiseRemoteFailure, loop
  <2>3. CASE TakeBlock
    <3>1. /\ phase = "extract" /\ msg \in DOMAIN results /\ msg \notin flagged
          /\ pos \in DOMAIN Blocks(msg) /\ pos' = pos + 1
          /\ UNCHANGED <<results, flagged, phase, msg, old>>
      BY <2>0, <2>3, TakeBlockTyped
    <3>2. <<msg, pos>> \in (DOMAIN results) \X (1 .. MaxBlocks) /\ msg \notin old
      BY <2>0, <2>a, <3>1, ReadableBlocks DEF TypeOK, Phases
    <3>3. \A n \in DOMAIN results, k \in 1 .. MaxBlocks :
            Passed(n, k)' <=> Passed(n, k) \/ (n = msg /\ k = pos)
      BY <2>a, <3>1 DEF Passed
    <3>4. Sought' = Sought \cup {p \in {<<msg, pos>>} :
                                    p[2] \in Readable(p[1]) /\ IsFile(p[1], p[2])}
      BY <3>1, <3>2, <3>3, BlocksStay DEF Sought
    <3>5. ASSUME NEW p \in Nat \X Nat, Earlier(p, <<msg, pos>>)
          PROVE  Earlier(p, <<msg, pos + 1>>)
      BY <2>a, <3>5 DEF Earlier
    <3>6. \A a \in DOMAIN parts : parts[a].place \in Nat \X Nat
      BY <2>0, PartTyped
    <3>7. CASE ~ (pos \in Readable(msg) /\ IsFile(msg, pos)) /\ parts' = parts
      <4>1. Sought' = Sought
        BY <3>4, <3>7
      <4> QED
        BY <3>1, <3>5, <3>6, <3>7, <4>1 DEF Ordered
    <3>8. ASSUME pos \in Readable(msg), IsFile(msg, pos), NEW file \in Part,
                 file.place = <<msg, pos>>, parts' = Append(parts, file)
          PROVE  Ordered'
      <4>1. Sought' = Sought \cup {<<msg, pos>>}
        BY <3>4, <3>8
      <4>2. /\ DOMAIN parts' = 1 .. Len(parts) + 1
            /\ \A a \in DOMAIN parts : parts'[a] = parts[a]
            /\ parts'[Len(parts) + 1].place = <<msg, pos>>
        BY <2>0, <3>8, FoundLast
      <4>3. DOMAIN parts' = (DOMAIN parts) \cup {Len(parts) + 1}
        BY <2>a, <4>2
      <4>4. {parts'[a].place : a \in DOMAIN parts'} = Sought'
        BY <4>1, <4>2, <4>3 DEF Ordered
      <4>5. \A a \in DOMAIN parts' : Earlier(parts'[a].place, <<msg, pos + 1>>)
        <5>1. Earlier(<<msg, pos>>, <<msg, pos + 1>>)
          BY <2>a DEF Earlier
        <5> QED
          BY <3>5, <3>6, <4>2, <4>3, <5>1 DEF Ordered
      <4>6. \A a, b \in DOMAIN parts' : a < b => Earlier(parts'[a].place, parts'[b].place)
        <5> SUFFICES ASSUME NEW a \in DOMAIN parts', NEW b \in DOMAIN parts', a < b
                     PROVE  Earlier(parts'[a].place, parts'[b].place)
          OBVIOUS
        <5>1. a \in DOMAIN parts
          BY <2>a, <4>2
        <5>2. CASE b \in DOMAIN parts
          BY <4>2, <5>1, <5>2 DEF Ordered
        <5>3. CASE b = Len(parts) + 1
          BY <4>2, <5>1, <5>3 DEF Ordered
        <5> QED
          BY <4>3, <5>2, <5>3
      <4> QED
        BY <3>1, <4>4, <4>5, <4>6 DEF Ordered
    <3> QED
      BY <2>0, <2>3, <3>7, <3>8, TakeBlockTyped
  <2>4. CASE EndMessage
    <3>1. /\ phase = "extract" /\ msg \in DOMAIN results
          /\ msg \in flagged \/ pos \notin DOMAIN Blocks(msg)
          /\ msg' = msg + 1 /\ pos' = 1
          /\ UNCHANGED <<results, phase, parts, old>>
      BY <2>4 DEF EndMessage, Extracting
    <3>2. \A n \in flagged' : n \in old \/ n < msg + 1
      <4>1. flagged' \subseteq flagged \cup {msg}
        BY <2>4 DEF EndMessage
      <4>2. flagged \subseteq 1 .. Len(results)
        BY <2>0, <2>a DEF TypeOK
      <4> QED
        BY <2>a, <4>1, <4>2 DEF Ordered
    <3>3. ASSUME NEW n \in DOMAIN results, NEW k \in 1 .. MaxBlocks,
                 n \notin old, k \in Readable(n)
          PROVE  Passed(n, k)' <=> Passed(n, k)
      <4>1. CASE n = msg
        <5>1. msg \notin flagged
          BY <2>a, <3>3, <4>1 DEF Ordered
        <5>2. k \in 1 .. Len(Blocks(msg)) /\ pos \notin 1 .. Len(Blocks(msg))
              /\ Len(Blocks(msg)) \in Nat
          BY <2>0, <3>1, <3>3, <4>1, <5>1, ReadableBlocks
        <5> QED
          BY <2>a, <3>1, <4>1, <5>2 DEF Passed
      <4>2. CASE n # msg
        BY <2>a, <3>1, <4>2 DEF Passed
      <4> QED
        BY <4>1, <4>2
    <3>4. Sought' = Sought
      BY <3>1, <3>3, BlocksStay DEF Sought
    <3>5. \A a \in DOMAIN parts : parts[a].place \in Nat \X Nat
      BY <2>0, PartTyped
    <3>6. \A a \in DOMAIN parts : Earlier(parts[a].place, <<msg + 1, 1>>)
      BY <2>a, <3>5 DEF Ordered, Earlier
    <3> QED
      BY <3>1, <3>2, <3>4, <3>6 DEF Ordered
  <2>5. CASE NextTurn
    <3>1. phase' = "tools" /\ parts' = <<>> /\ old' = flagged /\ flagged' = flagged
      BY <2>5 DEF NextTurn
    <3>2. Sought' = {}
      BY <3>1 DEF Sought
    <3> QED
      BY <3>1, <3>2 DEF Ordered
  <2>6. CASE UNCHANGED vars
    BY <2>6, <2>c DEF vars, loop
  <2> QED
    BY <2>1, <2>2, <2>3, <2>4, <2>5, <2>6 DEF Next, Over
<1> QED
  BY <1>1, <1>2, TypeInduction, PTL DEF Spec

\* NoneMissed: extraction finds every file of every message not delivered
\* before, once and in order, and nothing else (file_extractors.py:217-246).
THEOREM NothingIsMissed == Spec => []NoneMissed
<1>1. Ordered => NoneMissed
  BY DEF Ordered, Sought, NoneMissed
<1> QED
  BY <1>1, OrderInduction, PTL

-----------------------------------------------------------------------------
(* What reaches the caller                                                 *)

\* Of the parts published so far, the artifacts hold the last of each name.
LastKept ==
    /\ \A b \in DOMAIN artifacts : \E a \in 1 .. sent : artifacts[b] = parts[a]
    /\ \A a \in 1 .. sent :
          \/ \E b \in DOMAIN artifacts : artifacts[b] = parts[a]
          \/ \E c \in a + 1 .. sent : parts[c].name = parts[a].name
    /\ \A a \in 1 .. sent, b \in DOMAIN artifacts : artifacts[b] = parts[a] =>
          \A c \in a + 1 .. sent : parts[c].name # parts[a].name
    /\ \A b, d \in DOMAIN artifacts : artifacts[b].name = artifacts[d].name => b = d

\* No two parts are the same.
LEMMA PartsDiffer ==
    ASSUME TypeOK, Ordered, NEW a \in DOMAIN parts, NEW b \in DOMAIN parts, a < b
    PROVE  parts[a] # parts[b]
<1>1. Earlier(parts[a].place, parts[b].place)
  BY DEF Ordered
<1>2. parts[b].place \in Nat \X Nat
  BY PartTyped
<1> QED
  BY <1>1, <1>2 DEF Earlier

\* The artifacts once a part has been put among them: it is there, in the
\* place of any of its name, and the others are as they were.
LEMMA PutKeeps ==
    ASSUME TypeOK, LastKept, NEW file \in Part, PutArtifact(file)
    PROVE  /\ \E b \in DOMAIN artifacts' : artifacts'[b] = file
           /\ \A b \in DOMAIN artifacts' :
                \/ artifacts'[b] = file
                \/ b \in DOMAIN artifacts /\ artifacts'[b] = artifacts[b]
                    /\ artifacts[b].name # file.name
           /\ \A b \in DOMAIN artifacts : artifacts[b].name # file.name =>
                b \in DOMAIN artifacts' /\ artifacts'[b] = artifacts[b]
           /\ \A b, d \in DOMAIN artifacts' :
                artifacts'[b].name = artifacts'[d].name => b = d
<1>1. /\ artifacts \in Seq(Part) /\ DOMAIN artifacts = 1 .. Len(artifacts)
      /\ Len(artifacts) \in Nat
  BY LenProperties DEF TypeOK
<1>2. CASE /\ \A a \in DOMAIN artifacts : artifacts[a].name # file.name
           /\ artifacts' = Append(artifacts, file)
  <2>1. /\ artifacts' \in Seq(Part) /\ Len(artifacts') = Len(artifacts) + 1
        /\ \A b \in DOMAIN artifacts : artifacts'[b] = artifacts[b]
        /\ artifacts'[Len(artifacts) + 1] = file
    BY <1>1, <1>2, AppendProperties
  <2>2. DOMAIN artifacts' = (DOMAIN artifacts) \cup {Len(artifacts) + 1}
    BY <1>1, <2>1, LenProperties
  <2> QED
    BY <1>1, <1>2, <2>1, <2>2 DEF LastKept
<1>3. ASSUME NEW a \in DOMAIN artifacts, artifacts[a].name = file.name,
             artifacts' = [artifacts EXCEPT ![a] = file]
      PROVE  /\ \E b \in DOMAIN artifacts' : artifacts'[b] = file
             /\ \A b \in DOMAIN artifacts' :
                \/ artifacts'[b] = file
                \/ b \in DOMAIN artifacts /\ artifacts'[b] = artifacts[b]
                    /\ artifacts[b].name # file.name
             /\ \A b \in DOMAIN artifacts : artifacts[b].name # file.name =>
                b \in DOMAIN artifacts' /\ artifacts'[b] = artifacts[b]
             /\ \A b, d \in DOMAIN artifacts' :
                artifacts'[b].name = artifacts'[d].name => b = d
  BY <1>1, <1>3 DEF LastKept
<1> QED
  BY <1>2, <1>3 DEF PutArtifact

LEMMA LastInduction == Spec => []LastKept
<1>1. Init => LastKept
  BY DEF Init, LastKept
<1>2. TypeInv /\ Ordered /\ LastKept /\ [Next]_vars => LastKept'
  <2> SUFFICES ASSUME TypeInv, Ordered, LastKept, [Next]_vars PROVE LastKept'
    OBVIOUS
  <2>0. TypeOK /\ Phases
    BY DEF TypeInv
  <2>1. CASE UNCHANGED <<parts, artifacts, sent>>
    BY <2>1 DEF LastKept
  <2>2. ASSUME artifacts' = <<>>, sent' = 0 PROVE LastKept'
    BY <2>2 DEF LastKept
  <2>3. CASE ToolReturns \/ Answer \/ Withhold \/ EndMessage \/ EndExtraction
                \/ Finish \/ Collect \/ RaiseRemoteFailure \/ UNCHANGED vars
    BY <2>1, <2>3 DEF ToolReturns, Answer, Withhold, EndMessage, EndExtraction,
                      Finish, Collect, RaiseRemoteFailure, vars, task
  <2>4. CASE TakeBlock
    BY <2>0, <2>2, <2>4, TakeBlockTyped DEF Phases, task
  <2>5. CASE NextTurn
    BY <2>2, <2>5 DEF NextTurn
  <2>6. CASE Publish
    <3> DEFINE file == parts[sent + 1]
    <3>1. /\ DOMAIN parts = 1 .. Len(parts) /\ Len(parts) \in Nat /\ sent \in Nat
          /\ sent < Len(parts) /\ sent' = sent + 1 /\ parts' = parts
          /\ PutArtifact(file)
      BY <2>0, <2>6, LenProperties DEF Publish, TypeOK
    <3>2. sent + 1 \in DOMAIN parts /\ file \in Part
      BY <2>0, <3>1, PartTyped
    <3>3. /\ \E b \in DOMAIN artifacts' : artifacts'[b] = file
          /\ \A b \in DOMAIN artifacts' :
                \/ artifacts'[b] = file
                \/ b \in DOMAIN artifacts /\ artifacts'[b] = artifacts[b]
                    /\ artifacts[b].name # file.name
          /\ \A b \in DOMAIN artifacts : artifacts[b].name # file.name =>
                b \in DOMAIN artifacts' /\ artifacts'[b] = artifacts[b]
          /\ \A b, d \in DOMAIN artifacts' :
                artifacts'[b].name = artifacts'[d].name => b = d
      BY <2>0, <3>1, <3>2, PutKeeps
    <3>4. \A b \in DOMAIN artifacts' : \E a \in 1 .. sent + 1 : artifacts'[b] = parts[a]
      BY <3>1, <3>3 DEF LastKept
    <3>5. ASSUME NEW a \in 1 .. sent + 1
          PROVE  \/ \E b \in DOMAIN artifacts' : artifacts'[b] = parts[a]
                 \/ \E c \in a + 1 .. sent + 1 : parts[c].name = parts[a].name
      <4>1. CASE a = sent + 1 \/ parts[a].name = file.name
        BY <3>1, <3>3, <4>1
      <4>2. CASE a \in 1 .. sent /\ parts[a].name # file.name
        BY <3>1, <3>3, <4>2 DEF LastKept
      <4> QED
        BY <3>1, <4>1, <4>2
    <3>6. ASSUME NEW a \in 1 .. sent + 1, NEW b \in DOMAIN artifacts',
                 artifacts'[b] = parts[a], NEW c \in a + 1 .. sent + 1
          PROVE  parts[c].name # parts[a].name
      <4>1. a \in 1 .. sent /\ a \in DOMAIN parts /\ a < sent + 1
        BY <3>1
      <4>2. parts[a] # file
        BY <2>0, <3>1, <3>2, <4>1, PartsDiffer
      <4>3. b \in DOMAIN artifacts /\ artifacts[b] = parts[a] /\ parts[a].name # file.name
        BY <3>3, <3>6, <4>2
      <4> QED
        BY <3>1, <4>1, <4>3 DEF LastKept
    <3> QED
      BY <3>1, <3>3, <3>4, <3>5, <3>6 DEF LastKept
  <2> QED
    BY <2>3, <2>4, <2>5, <2>6 DEF Next, Over
<1> QED
  BY <1>1, <1>2, TypeInduction, OrderInduction, PTL DEF Spec

\* LastOfNameArrives: of the files of an answer that share a name the caller
\* gets the last, and of the others each, unless the answer is that the agent
\* failed: then it gets none (executors.py:125-137, client.py:206-241).
THEOREM LastOfEachNameArrives == Spec => []LastOfNameArrives
<1>1. TypeInv /\ LastKept => LastOfNameArrives
  <2> SUFFICES ASSUME TypeInv, LastKept, phase = "read" PROVE LastOfNameArrives
    BY DEF LastOfNameArrives
  <2>1. /\ sent = Len(parts)
        /\ reply = IF answer = "completed" THEN artifacts ELSE <<>>
        /\ DOMAIN parts = 1 .. Len(parts)
    BY LenProperties DEF TypeInv, TypeOK, Phases
  <2>2. CASE answer = "completed"
    BY <2>1, <2>2 DEF LastKept, LastOfNameArrives
  <2>3. CASE answer # "completed"
    BY <2>1, <2>3 DEF LastOfNameArrives
  <2> QED
    BY <2>2, <2>3
<1> QED
  BY <1>1, TypeInduction, LastInduction, PTL

-----------------------------------------------------------------------------
(* The names                                                               *)

LEMMA NamesStay ==
    ASSUME UNCHANGED results
    PROVE  \A n, k : /\ Hints(n, k)' = Hints(n, k)
                     /\ Unnamed(n, k)' = Unnamed(n, k)
                     /\ Declared(n, k)' = Declared(n, k)
                     /\ \A kind : Counted(n, k, kind)' = Counted(n, k, kind)
<1>1. \A n, k : FilesBefore(n, k)' = FilesBefore(n, k)
  BY BlocksStay DEF FilesBefore
<1>2. \A n, k : Hints(n, k)' = Hints(n, k)
  BY <1>1, BlocksStay DEF Hints
<1>3. \A n, k : Unnamed(n, k)' = Unnamed(n, k)
  BY <1>2, BlocksStay DEF Unnamed
<1>4. \A n, k, kind : Counted(n, k, kind)' = Counted(n, k, kind)
  BY <1>1, <1>3, BlocksStay DEF Counted
<1>5. \A n, k : Rank(n, k)' = Rank(n, k)
  BY <1>4, BlocksStay DEF Rank
<1> QED
  BY <1>2, <1>3, <1>4, <1>5, BlocksStay DEF Declared

LEMMA LastOfIsLast ==
    ASSUME NEW H \in SUBSET Nat, NEW k \in Nat, \A h \in H : h < k
    PROVE  LastOf(H \cup {k}) = k
<1>1. k \in H \cup {k} /\ \A g \in H \cup {k} : g <= k
  OBVIOUS
<1>2. \A h \in H \cup {k} : (\A g \in H \cup {k} : g <= h) => h = k
  OBVIOUS
<1> QED
  BY <1>1, <1>2 DEF LastOf

\* What counts is a finite set of places before the block.
LEMMA CountedFinite ==
    ASSUME TypeOK, NEW n \in DOMAIN results, NEW k, NEW kind
    PROVE  /\ Counted(n, k, kind) \subseteq {h \in 1 .. Len(Blocks(n)) : h < k}
           /\ IsFiniteSet(Counted(n, k, kind))
           /\ Cardinality(Counted(n, k, kind)) \in Nat
<1>1. Counted(n, k, kind) \subseteq {h \in 1 .. Len(Blocks(n)) : h < k}
  BY ReadableBlocks DEF Counted, FilesBefore
<1>2. IsFiniteSet(1 .. Len(Blocks(n)))
  BY ReadableBlocks, FS_Interval
<1>3. IsFiniteSet(Counted(n, k, kind))
  BY <1>1, <1>2, FS_Subset
<1> QED
  BY <1>1, <1>3, FS_CardinalityType

\* The next block adds itself to what counts, if it is a file that does.
LEMMA CountedNext ==
    ASSUME TypeOK, NEW n \in DOMAIN results, NEW k \in DOMAIN Blocks(n), NEW kind
    PROVE  LET counts == /\ k \in Readable(n) /\ IsFile(n, k) /\ KindOf(n, k) = kind
                         /\ Hidden(n) # {} \/ Unnamed(n, k)
           IN Cardinality(Counted(n, k + 1, kind)) =
                Cardinality(Counted(n, k, kind)) + (IF counts THEN 1 ELSE 0)
<1> DEFINE counts == /\ k \in Readable(n) /\ IsFile(n, k) /\ KindOf(n, k) = kind
                     /\ Hidden(n) # {} \/ Unnamed(n, k)
<1>1. Readable(n) \subseteq 1 .. Len(Blocks(n)) /\ k \in 1 .. Len(Blocks(n))
      /\ Len(Blocks(n)) \in Nat
  BY ReadableBlocks
<1>2. Counted(n, k + 1, kind) =
            IF counts THEN Counted(n, k, kind) \cup {k} ELSE Counted(n, k, kind)
  BY <1>1 DEF Counted, FilesBefore
<1>3. k \notin Counted(n, k, kind) /\ IsFiniteSet(Counted(n, k, kind))
      /\ Cardinality(Counted(n, k, kind)) \in Nat
  BY <1>1, CountedFinite
<1>4. Cardinality(Counted(n, k, kind) \cup {k}) = Cardinality(Counted(n, k, kind)) + 1
  BY <1>3, FS_AddElement
<1> QED
  BY <1>2, <1>3, <1>4

\* The hints after the next block: none after a file, one more after a hint.
LEMMA HintsNext ==
    ASSUME TypeOK, NEW n \in DOMAIN results, NEW k \in DOMAIN Blocks(n), Hidden(n) = {}
    PROVE  Hints(n, k + 1) =
              IF IsFile(n, k) THEN {}
              ELSE IF Blocks(n)[k].kind = "text" /\ Blocks(n)[k].name # NoName
              THEN Hints(n, k) \cup {k} ELSE Hints(n, k)
<1>1. k \in 1 .. Len(Blocks(n)) /\ Len(Blocks(n)) \in Nat
      /\ Readable(n) = 1 .. Len(Blocks(n))
  BY ReadableBlocks DEF Readable
<1>2. FilesBefore(n, k + 1) =
            IF IsFile(n, k) THEN FilesBefore(n, k) \cup {k} ELSE FilesBefore(n, k)
  BY <1>1 DEF FilesBefore
<1>3. \A f \in FilesBefore(n, k) : f < k
  BY DEF FilesBefore
<1> HIDE DEF FilesBefore
<1>4. CASE IsFile(n, k)
  BY <1>1, <1>2, <1>4 DEF Hints
<1>5. CASE ~ IsFile(n, k)
  BY <1>1, <1>2, <1>3, <1>5 DEF Hints
<1> QED
  BY <1>4, <1>5

\* What extraction carries from block to block
CarriedTo(n, k) ==
    /\ \A kind \in Kind : counters[kind] = Cardinality(Counted(n, k, kind))
    /\ pending = NoName => Hints(n, k) = {}
    /\ pending # NoName => /\ Hints(n, k) # {}
                           /\ pending = Blocks(n)[LastOf(Hints(n, k))].name

Carried == \A n \in DOMAIN results, k \in Nat : n = msg /\ k = pos => CarriedTo(n, k)

NamesInv == Carried /\ NamesAsDeclared

\* It carries nothing to the first block of a message.
LEMMA CarriesNothing ==
    TypeOK /\ pos = 1 /\ counters = [kind \in Kind |-> 0] /\ pending = NoName => Carried
<1> SUFFICES ASSUME TypeOK, pos = 1, counters = [kind \in Kind |-> 0], pending = NoName,
                    NEW n \in DOMAIN results
             PROVE  CarriedTo(n, 1)
  BY DEF Carried
<1>1. \A kind : Counted(n, 1, kind) = {}
  BY CountedFinite
<1>2. Hints(n, 1) = {}
  BY DEF Hints
<1> QED
  BY <1>1, <1>2, FS_EmptySet DEF CarriedTo

\* A block that is read: what is carried stays right, and a file gets the
\* name declared for it.
LEMMA TakeBlockNames ==
    ASSUME TypeOK, pos >= 1, Carried, TakeBlock
    PROVE  /\ Carried'
           /\ \/ parts' = parts
              \/ Found(Declared(msg, pos))
<1> DEFINE b == Blocks(msg)[pos]
           mine == KindOf(msg, pos)
<1>1. /\ msg \in DOMAIN results /\ pos \in DOMAIN Blocks(msg) /\ pos' = pos + 1
      /\ pos \in Nat /\ UNCHANGED <<results, msg>>
  BY TakeBlockTyped DEF TypeOK
<1>0. CarriedTo(msg, pos)
  BY <1>1 DEF Carried
<1>2. /\ b.name \in Given \cup {NoName}
      /\ counters \in [Kind -> Nat] /\ pending \in Given \cup {NoName}
      /\ mine \in Kind
  BY <1>1, BlockTyped, KindTyped DEF TypeOK
<1>3. ASSUME NEW kind \in Kind
      PROVE  counters[kind] = Cardinality(Counted(msg, pos, kind)) /\ counters[kind] \in Nat
  BY <1>0, <1>2 DEF CarriedTo
<1>4. counters[mine] = Rank(msg, pos)
  BY <1>2, <1>3 DEF Rank
<1>5. ASSUME NEW n, NEW k, NEW kind
      PROVE  /\ Counted(n, k, kind)' = Counted(n, k, kind) /\ Hints(n, k)' = Hints(n, k)
             /\ Blocks(n)' = Blocks(n)
  BY <1>1, NamesStay, BlocksStay
<1>6. ASSUME NEW more \in BOOLEAN,
             more = (/\ pos \in Readable(msg) /\ IsFile(msg, pos)
                     /\ Hidden(msg) # {} \/ Unnamed(msg, pos)),
             more => Count(mine), ~ more => counters' = counters,
             pending' = NoName => Hints(msg, pos + 1) = {},
             pending' # NoName =>
                /\ Hints(msg, pos + 1) # {}
                /\ pending' = Blocks(msg)[LastOf(Hints(msg, pos + 1))].name
      PROVE  Carried'
  <2>1. ASSUME NEW kind \in Kind
        PROVE  counters'[kind] = Cardinality(Counted(msg, pos + 1, kind))
    <3>1. Cardinality(Counted(msg, pos + 1, kind)) =
            counters[kind] + (IF more /\ mine = kind THEN 1 ELSE 0)
      BY <1>1, <1>3, <1>6, CountedNext
    <3>2. CASE more
      BY <1>2, <1>3, <1>6, <3>1, <3>2 DEF Count
    <3>3. CASE ~ more
      BY <1>3, <1>6, <3>1, <3>3
    <3> QED
      BY <3>2, <3>3
  <2> SUFFICES ASSUME NEW n \in DOMAIN results', NEW k \in Nat, n = msg', k = pos'
               PROVE  CarriedTo(n, k)'
    BY DEF Carried
  <2>2. n = msg /\ k = pos + 1
    BY <1>1
  <2> QED
    BY <1>5, <1>6, <2>1, <2>2 DEF CarriedTo
<1>7. CASE pos \in Hidden(msg) /\ TakeHidden(b)
  <2>1. /\ Hidden(msg) # {} /\ pos \in Readable(msg)
        /\ IsFile(msg, pos) = McpFile(b)
        /\ Unnamed(msg, pos) = (b.name = NoName)
    BY <1>7 DEF Readable, IsFile, Unnamed
  <2>2. Hints(msg, pos) = {} /\ Hints(msg, pos + 1) = {}
    BY <2>1 DEF Hints
  <2>3. pending = NoName /\ pending' = NoName
    BY <1>0, <1>7, <2>2 DEF TakeHidden, CarriedTo
  <2>4. CASE McpFile(b)
    <3>1. Count(mine)
      BY <1>7, <2>4 DEF TakeHidden
    <3>2. Carried'
      BY <1>6, <2>1, <2>2, <2>3, <2>4, <3>1
    <3>3. Found(Declared(msg, pos))
      BY <1>4, <1>7, <2>1, <2>4 DEF TakeHidden, Declared
    <3> QED
      BY <3>2, <3>3
  <2>5. CASE ~ McpFile(b)
    <3>1. UNCHANGED <<parts, counters>>
      BY <1>7, <2>5 DEF TakeHidden
    <3> QED
      BY <1>6, <2>1, <2>2, <2>3, <2>5, <3>1
  <2> QED
    BY <2>4, <2>5
<1>8. CASE Hidden(msg) = {} /\ TakeContent(b)
  <2>1. /\ pos \in Readable(msg) /\ IsFile(msg, pos) = ContentFile(b)
        /\ Unnamed(msg, pos) = (Hints(msg, pos) = {})
    BY <1>1, <1>8 DEF Readable, IsFile, Unnamed
  <2>2. b.kind = "text" => ~ ContentFile(b)
    BY DEF ContentFile
  <2>3. Hints(msg, pos + 1) =
            IF ContentFile(b) THEN {}
            ELSE IF b.kind = "text" /\ b.name # NoName
            THEN Hints(msg, pos) \cup {pos} ELSE Hints(msg, pos)
    BY <1>1, <1>8, <2>1, HintsNext
  <2>4. CASE ContentFile(b) /\ pending # NoName
    <3>1. /\ Found(pending) /\ pending' = NoName /\ counters' = counters
      BY <1>8, <2>2, <2>4 DEF TakeContent, UseUp
    <3>2. ~ Unnamed(msg, pos) /\ Declared(msg, pos) = pending
      BY <1>0, <1>8, <2>1, <2>4 DEF CarriedTo, Declared
    <3>3. Carried'
      BY <1>6, <1>8, <2>3, <2>4, <3>1, <3>2
    <3> QED
      BY <3>1, <3>2, <3>3
  <2>5. CASE ContentFile(b) /\ pending = NoName
    <3>1. /\ Found(Synthetic(mine, counters[mine], b.mime))
          /\ Count(mine) /\ pending' = NoName
      BY <1>8, <2>2, <2>5 DEF TakeContent, UseUp
    <3>2. Unnamed(msg, pos)
          /\ Declared(msg, pos) = Synthetic(mine, counters[mine], b.mime)
      BY <1>0, <1>4, <2>1, <2>5 DEF CarriedTo, Declared
    <3>3. Carried'
      BY <1>6, <2>1, <2>3, <2>5, <3>1, <3>2
    <3> QED
      BY <3>1, <3>2, <3>3
  <2>6. CASE b.kind = "text" /\ b.name # NoName
    <3>1. /\ pending' = b.name /\ UNCHANGED <<parts, counters>>
      BY <1>8, <2>2, <2>6 DEF TakeContent, UseUp
    <3>2. Hints(msg, pos) \subseteq Nat /\ \A h \in Hints(msg, pos) : h < pos
      BY <1>1 DEF Hints
    <3>3. LastOf(Hints(msg, pos + 1)) = pos /\ Hints(msg, pos + 1) # {}
      BY <1>1, <2>2, <2>3, <2>6, <3>2, LastOfIsLast
    <3>4. Carried'
      BY <1>6, <2>1, <2>2, <2>6, <3>1, <3>3
    <3> QED
      BY <3>1, <3>4
  <2>7. CASE ~ ContentFile(b) /\ ~ (b.kind = "text" /\ b.name # NoName)
    <3>1. UNCHANGED <<parts, counters, pending>>
      BY <1>8, <2>7 DEF TakeContent, UseUp
    <3>2. Carried'
      BY <1>0, <1>6, <2>1, <2>3, <2>7, <3>1 DEF CarriedTo
    <3> QED
      BY <3>1, <3>2
  <2> QED
    BY <2>4, <2>5, <2>6, <2>7
<1>9. CASE pos \notin Readable(msg) /\ UNCHANGED <<parts, counters, pending>>
  <2>1. Hidden(msg) # {}
    BY <1>1, <1>9 DEF Readable
  <2>2. Hints(msg, pos) = {} /\ Hints(msg, pos + 1) = {}
    BY <2>1 DEF Hints
  <2>3. pending = NoName /\ pending' = NoName
    BY <1>0, <1>9, <2>2 DEF CarriedTo
  <2> QED
    BY <1>6, <1>9, <2>2, <2>3
<1> QED
  BY <1>7, <1>8, <1>9 DEF TakeBlock

LEMMA NamesInduction == Spec => []NamesInv
<1>1. Init => NamesInv
  BY DEF Init, NamesInv, NamesAsDeclared, Carried
<1>2. TypeInv /\ TypeInv' /\ NamesInv /\ [Next]_vars => NamesInv'
  <2> SUFFICES ASSUME TypeInv, TypeInv', NamesInv, [Next]_vars PROVE NamesInv'
    OBVIOUS
  <2>0. TypeOK /\ Phases /\ TypeOK' /\ Phases'
    BY DEF TypeInv
  <2>a. ASSUME pos' = 1 PROVE Carried'
    <3>1. counters' = [kind \in Kind |-> 0] /\ pending' = NoName
      BY <2>0, <2>a DEF Phases
    <3>2. (TypeOK /\ pos = 1 /\ counters = [kind \in Kind |-> 0] /\ pending = NoName
                => Carried)'
      BY CarriesNothing, PTL
    <3> QED
      BY <2>0, <2>a, <3>1, <3>2
  <2>b. ASSUME UNCHANGED <<results, parts>> PROVE NamesAsDeclared'
    BY <2>b, NamesStay DEF NamesInv, NamesAsDeclared
  <2>c. ASSUME UNCHANGED <<results, loop, parts>> PROVE NamesInv'
    <3>1. Carried'
      BY <2>c, NamesStay, BlocksStay DEF NamesInv, Carried, CarriedTo, loop
    <3> QED
      BY <2>b, <2>c, <3>1 DEF NamesInv
  <2>1. CASE ToolReturns
    <3>1. pos' = 1 /\ parts' = <<>>
      BY <2>0, <2>1 DEF ToolReturns, Phases
    <3> QED
      BY <2>a, <3>1 DEF NamesInv, NamesAsDeclared
  <2>2. CASE \/ Answer \/ Withhold \/ EndExtraction
            \/ Publish \/ Finish \/ Collect \/ RaiseRemoteFailure
                \/ UNCHANGED vars
    BY <2>2, <2>c DEF Answer, Withhold, EndExtraction, Publish, Finish, Collect,
                      RaiseRemoteFailure, vars
  <2>3. CASE TakeBlock
    <3>1. msg \in DOMAIN results /\ UNCHANGED <<results, msg>> /\ pos >= 1
      BY <2>0, <2>3, TakeBlockTyped DEF Phases
    <3>2. Carried' /\ (parts' = parts \/ Found(Declared(msg, pos)))
      BY <2>0, <2>3, <3>1, TakeBlockNames DEF NamesInv
    <3>3. CASE parts' = parts
      BY <2>b, <3>1, <3>2, <3>3 DEF NamesInv
    <3>4. CASE Found(Declared(msg, pos))
      <4>1. /\ DOMAIN parts = 1 .. Len(parts) /\ Len(parts) \in Nat
            /\ parts \in Seq(Part) /\ parts' \in Seq(Part)
        BY <2>0, LenProperties DEF TypeOK
      <4> DEFINE file == [name |-> Declared(msg, pos), place |-> <<msg, pos>>]
      <4>2. parts' = Append(parts, file)
        BY <3>4 DEF Found
      <4>3. /\ DOMAIN parts' = (DOMAIN parts) \cup {Len(parts) + 1}
            /\ \A a \in DOMAIN parts : parts'[a] = parts[a]
            /\ parts'[Len(parts) + 1] = file
        BY <4>1, <4>2
      <4>4. file.name = Declared(msg, pos) /\ file.place[1] = msg /\ file.place[2] = pos
        OBVIOUS
      <4>5. \A a \in DOMAIN parts' :
                parts'[a].name = Declared(parts'[a].place[1], parts'[a].place[2])
        BY <4>3, <4>4 DEF NamesInv, NamesAsDeclared
      <4>6. NamesAsDeclared'
        BY <3>1, <4>5, NamesStay DEF NamesAsDeclared
      <4> QED
        BY <3>2, <4>6 DEF NamesInv
    <3> QED
      BY <3>2, <3>3, <3>4
  <2>4. CASE EndMessage
    BY <2>4, <2>a, <2>b DEF EndMessage, NamesInv
  <2>5. CASE NextTurn
    <3>1. pos' = 1 /\ parts' = <<>>
      BY <2>0, <2>5 DEF NextTurn, Phases
    <3> QED
      BY <2>a, <3>1 DEF NamesInv, NamesAsDeclared
  <2> QED
    BY <2>1, <2>2, <2>3, <2>4, <2>5 DEF Next, Over
<1> QED
  BY <1>1, <1>2, TypeInduction, PTL DEF Spec

\* NamesAsDeclared: a file has the name its server gave it, the last hint
\* between it and the file before it, or its kind and its rank among the
\* files that count (file_extractors.py:35-46, 156-188).
THEOREM NamesAreDeclared == Spec => []NamesAsDeclared
<1>1. NamesInv => NamesAsDeclared
  BY DEF NamesInv
<1> QED
  BY <1>1, NamesInduction, PTL

\* MadeNamesDiffer: no two names that extraction makes up for the files of
\* one message are the same (file_extractors.py:51, 159, the counters).
THEOREM MadeNamesAreDifferent == Spec => []MadeNamesDiffer
<1>1. ASSUME TypeOK, NEW n \in DOMAIN results, NEW k \in Readable(n), NEW l \in Readable(n),
             k < l, IsFile(n, k), Unnamed(n, k), KindOf(n, k) = KindOf(n, l)
      PROVE  Rank(n, k) < Rank(n, l)
  <2> DEFINE before == Counted(n, k, KindOf(n, k))
             then == Counted(n, l, KindOf(n, k))
  <2>1. k \in Nat /\ l \in Nat
    BY <1>1, ReadableBlocks
  <2>2. before \cup {k} \subseteq then /\ k \notin before
    <3>1. k \in then
      BY <1>1 DEF Counted, FilesBefore
    <3>2. \A h \in before : h \in Nat /\ h < k
      BY <1>1, CountedFinite
    <3>3. before \subseteq then
      <4> SUFFICES ASSUME NEW h \in before PROVE h \in then
        OBVIOUS
      <4>1. h \in FilesBefore(n, k) /\ h \in Nat /\ h < k
        BY <3>2 DEF Counted
      <4>2. h \in FilesBefore(n, l)
        BY <1>1, <2>1, <4>1 DEF FilesBefore
      <4> QED
        BY <4>2 DEF Counted
    <3> QED
      BY <2>1, <3>1, <3>2, <3>3
  <2>3. IsFiniteSet(before) /\ Cardinality(before) \in Nat
        /\ IsFiniteSet(then) /\ Cardinality(then) \in Nat
    BY <1>1, CountedFinite
  <2>4. Cardinality(before \cup {k}) = Cardinality(before) + 1
    BY <2>2, <2>3, FS_AddElement
  <2>5. Cardinality(before \cup {k}) <= Cardinality(then)
    BY <2>2, <2>3, FS_Subset
  <2>6. Rank(n, k) = Cardinality(before) /\ Rank(n, l) = Cardinality(then)
    BY <1>1 DEF Rank
  <2> QED
    BY <2>3, <2>4, <2>5, <2>6
<1>2. TypeInv /\ Ordered /\ NamesInv => MadeNamesDiffer
  <2> SUFFICES ASSUME TypeInv, Ordered, NamesInv,
                      NEW a \in DOMAIN parts, NEW b \in DOMAIN parts, a # b,
                      parts[a].place[1] = parts[b].place[1], parts[a].name = parts[b].name,
                      Unnamed(parts[a].place[1], parts[a].place[2]),
                      Unnamed(parts[b].place[1], parts[b].place[2])
               PROVE  FALSE
    BY DEF MadeNamesDiffer
  <2> DEFINE n == parts[a].place[1]
             k == parts[a].place[2]
             l == parts[b].place[2]
  <2>0. TypeOK
    BY DEF TypeInv
  <2>1. /\ n \in DOMAIN results
        /\ k \in Readable(n) /\ IsFile(n, k)
        /\ l \in Readable(n) /\ IsFile(n, l)
    BY DEF Ordered, Sought
  <2>2. k \in Nat /\ l \in Nat /\ n \in Nat /\ a \in Nat /\ b \in Nat
    <3>1. DOMAIN parts = 1 .. Len(parts)
      BY <2>0, LenProperties DEF TypeOK
    <3> QED
      BY <2>0, <3>1, PartTyped
  <2>3. k # l
    <3>1. a < b \/ b < a
      BY <2>2
    <3> QED
      BY <2>2, <3>1 DEF Ordered, Earlier
  <2>4. Declared(n, k) = Declared(n, l)
    BY DEF NamesInv, NamesAsDeclared
  <2>5. KindOf(n, k) = KindOf(n, l) /\ Rank(n, k) = Rank(n, l)
    BY <2>4 DEF Declared, Synthetic
  <2>6. Rank(n, k) \in Nat /\ Rank(n, l) \in Nat
    BY <2>0, <2>1, CountedFinite DEF Rank
  <2>7. k < l \/ l < k
    BY <2>2, <2>3
  <2> QED
    BY <1>1, <2>0, <2>1, <2>5, <2>6, <2>7
<1> QED
  BY <1>2, TypeInduction, OrderInduction, NamesInduction, PTL
=============================================================================
