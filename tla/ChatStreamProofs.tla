-------------------------- MODULE ChatStreamProofs --------------------------
(***************************************************************************)
(* Proofs about ChatStream for every set of requests and every bound.      *)
(***************************************************************************)
EXTENDS ChatStream, SequenceTheorems, TLAPS

-----------------------------------------------------------------------------
(***************************************************************************)
(* The records of the model and what their updates keep.                   *)
(***************************************************************************)

\* What the type of an event says of its other fields.
LEMMA EventFields ==
  ASSUME NEW e \in Event \cup {NoEvent}
  PROVE  /\ e.type = "chunk" => e.piece \in Piece
         /\ e.type \in Terminal =>
              e \in EndEvent /\ e.attempt \in Attempt \cup {0} /\ e.text \in BOOLEAN
  BY DEF Event, ChunkEvent, EndEvent, NoEvent, Terminal

LEMMA TimeoutEvent == [type |-> "failed", attempt |-> 0, text |-> FALSE] \in Event
  BY DEF Event, EndEvent, Terminal

LEMMA FailedEvent ==
  ASSUME NEW a \in Attempt
  PROVE  [type |-> "failed", attempt |-> a, text |-> FALSE] \in Event
  BY DEF Event, EndEvent, Terminal

\* Taking one element out of a sequence leaves a sequence.
LEMMA RemoveAtType ==
  ASSUME NEW S, NEW s \in Seq(S), NEW i \in 1 .. Len(s)
  PROVE  RemoveAt(s, i) \in Seq(S)
<1>1. SubSeq(s, 1, i - 1) \in Seq(S)
  BY SubSeqProperties
<1>2. SubSeq(s, i + 1, Len(s)) \in Seq(S)
  BY SubSeqProperties
<1> QED  BY <1>1, <1>2 DEF RemoveAt

\* Moving a handler, alone or together with the other fields a step changes.
LEMMA StreamGoto ==
  ASSUME NEW s \in Stream, NEW p \in StreamPc
  PROVE  [s EXCEPT !.pc = p] \in Stream
  BY DEF Stream

LEMMA StreamTell ==
  ASSUME NEW s \in Stream, NEW p \in StreamPc, NEW t \in Terminal \cup {"broken"}
  PROVE  /\ [s EXCEPT !.pc = p, !.told = t] \in Stream
         /\ [s EXCEPT !.told = t, !.pc = p] \in Stream
  BY DEF Stream

LEMMA StreamReceive ==
  ASSUME NEW s \in Stream, NEW p \in StreamPc, NEW e \in Event \cup {NoEvent}
  PROVE  [s EXCEPT !.pc = p, !.ev = e] \in Stream
  BY DEF Stream

LEMMA StreamBuffer ==
  ASSUME NEW s \in Stream, NEW b \in SUBSET Piece
  PROVE  [s EXCEPT !.pc = "drain", !.ev = NoEvent, !.buffer = b] \in Stream
  BY DEF Stream, StreamPc

LEMMA StreamCollect ==
  ASSUME NEW s \in Stream, NEW q \in s.buffer
  PROVE  /\ q \in Piece
         /\ [s EXCEPT !.buffer = @ \ {q}, !.chunks = Append(@, q)] \in Stream
         /\ q.seq = s.next =>
              [s EXCEPT !.buffer = @ \ {q}, !.chunks = Append(@, q),
                        !.next = @ + 1] \in Stream
<1>1. q \in Piece /\ s.buffer \ {q} \in SUBSET Piece /\ s.chunks \in Seq(Piece)
  BY DEF Stream
<1>2. Append(s.chunks, q) \in Seq(Piece)
  BY <1>1
<1>3. q.seq \in 1 .. MaxChunks
  BY <1>1 DEF Piece
<1>4. q.seq = s.next => s.next + 1 \in 1 .. MaxChunks + 1
  BY <1>3, ChatStreamAssumption
<1>5. [s EXCEPT !.buffer = @ \ {q}, !.chunks = Append(@, q)] \in Stream
  BY <1>1, <1>2 DEF Stream
<1>6. ASSUME q.seq = s.next
      PROVE  [s EXCEPT !.buffer = @ \ {q}, !.chunks = Append(@, q),
                       !.next = @ + 1] \in Stream
  BY <1>1, <1>2, <1>4, <1>6 DEF Stream
<1> QED  BY <1>1, <1>5, <1>6

LEMMA JobPc ==
  ASSUME NEW j \in Job, NEW p \in {"none", "agent", "send", "failing", "ack", "done"}
  PROVE  [j EXCEPT !.pc = p] \in Job
  BY DEF Job

LEMMA JobAnswer ==
  ASSUME NEW kind \in Kind, NEW size \in Size
  PROVE  [pc |-> "send", kind |-> kind, size |-> size, sent |-> 0] \in Job
  BY ChatStreamAssumption DEF Job

LEMMA JobSent ==
  ASSUME NEW j \in Job, j.sent < ChunkCount(j.size)
  PROVE  j.sent + 1 \in 1 .. MaxChunks /\ [j EXCEPT !.sent = @ + 1] \in Job
<1>1. j.sent + 1 \in 1 .. MaxChunks
  BY ChatStreamAssumption DEF Job, ChunkCount
<1>2. j.sent + 1 \in 0 .. MaxChunks
  BY <1>1
<1> QED  BY <1>1, <1>2 DEF Job

\* The row made of a terminal event is a row, and so is an interrupted one.
LEMMA FinalRow ==
  ASSUME NEW s \in Stream, s.ev.type \in Terminal
  PROVE  [status |-> s.ev.type, content |-> FinalContent(s)] \in Row
<1>1. s.ev \in Event \cup {NoEvent} /\ s.chunks \in Seq(Piece)
  BY DEF Stream
<1>2. s.ev.attempt \in Attempt \cup {0}
  BY <1>1, EventFields
<1>3. FinalContent(s) \in Content
  <2>1. CASE s.ev.type = "failed"
    BY <2>1 DEF FinalContent, Content
  <2>2. CASE s.ev.type # "failed" /\ s.ev.text
    BY <1>2, <2>2 DEF FinalContent, Content
  <2>3. CASE s.ev.type # "failed" /\ ~s.ev.text
    BY <1>1, <1>2, <2>3 DEF FinalContent, Content
  <2> QED  BY <2>1, <2>2, <2>3
<1> QED  BY <1>3 DEF Row

LEMMA PartialRow ==
  ASSUME NEW s \in Stream
  PROVE  [status |-> "interrupted",
          content |-> [from |-> "chunks", pieces |-> s.chunks, attempt |-> 0]] \in Row
  BY DEF Row, Content, Stream

\* The events a worker publishes are events.
LEMMA WorkerEvents ==
  ASSUME NEW r \in Request, NEW a \in Attempt, job[r][a] \in Job
  PROVE  /\ EndOf(r, a) \in Event
         /\ job[r][a].sent < ChunkCount(job[r][a].size) => ChunkOf(r, a) \in Event
<1>1. job[r][a].kind \in Terminal /\ (job[r][a].size > 0) \in BOOLEAN
  BY DEF Job, Terminal
<1>2. EndOf(r, a) \in Event
  BY <1>1 DEF EndOf, Event, EndEvent
<1>3. ASSUME job[r][a].sent < ChunkCount(job[r][a].size)
      PROVE  ChunkOf(r, a) \in Event
  BY <1>1, <1>3, JobSent DEF ChunkOf, Event, ChunkEvent, Piece
<1> QED  BY <1>2, <1>3

-----------------------------------------------------------------------------
(***************************************************************************)
(* Type correctness, step by step.  It needs StreamInv: only a terminal    *)
(* event reaches the code that stores and announces it.                    *)
(***************************************************************************)

\* A step of the backend keeps every type.
LEMMA TypeStreamStep ==
  ASSUME TypeOK, StreamInv, NEW r \in Request, PublishStep(r) \/ StreamStep(r)
  PROVE  TypeOK'
<1> USE DEF dbVars, backendVars, queueVars, workerVars
<1>s. stream[r] \in Stream
  BY DEF TypeOK
<1>p. \A p \in StreamPc : [stream[r] EXCEPT !.pc = p] \in Stream
  BY <1>s, StreamGoto
<1>1. CASE StartStream(r)
  BY <1>1, <1>p DEF TypeOK, StartStream, Goto, StreamPc
<1>2. CASE PublishArrives(r)
  BY <1>2 DEF TypeOK, PublishArrives
<1>3. CASE PublishReturns(r)
  BY <1>3, <1>p DEF TypeOK, PublishReturns, Goto, StreamPc
<1>4. CASE Receive(r)
  <2>1. events[r] \in Seq(Event) /\ events[r] # <<>>
    BY <1>4 DEF TypeOK, Receive
  <2>2. Head(events[r]) \in Event /\ Tail(events[r]) \in Seq(Event)
    BY <2>1
  <2>3. [stream[r] EXCEPT !.pc = "got", !.ev = Head(events[r])] \in Stream
    BY <1>s, <2>2, StreamReceive DEF StreamPc
  <2> QED  BY <1>4, <2>2, <2>3 DEF TypeOK, Receive
<1>5. CASE Timeout(r)
  <2>1. [stream[r] EXCEPT !.pc = "got",
           !.ev = [type |-> "failed", attempt |-> 0, text |-> FALSE]] \in Stream
    BY <1>s, TimeoutEvent, StreamReceive DEF StreamPc
  <2> QED  BY <1>5, <2>1 DEF TypeOK, Timeout
<1>6. CASE HandleChunk(r)
  <2> DEFINE q == stream[r].ev.piece
             others == {x \in stream[r].buffer : x.seq # q.seq}
  <2>1. stream[r].ev \in Event \cup {NoEvent} /\ stream[r].buffer \in SUBSET Piece
    BY <1>s DEF Stream
  <2>2. q \in Piece
    BY <1>6, <2>1, EventFields DEF HandleChunk
  <2>3. others \cup {q} \in SUBSET Piece
    BY <2>1, <2>2
  <2>4. [stream[r] EXCEPT !.pc = "wait", !.ev = NoEvent] \in Stream
    BY <1>s, StreamReceive DEF StreamPc
  <2>5. [stream[r] EXCEPT !.pc = "drain", !.ev = NoEvent,
                          !.buffer = others \cup {q}] \in Stream
    BY <1>s, <2>3, StreamBuffer
  <2>6. \/ stream' = [stream EXCEPT ![r].pc = "wait", ![r].ev = NoEvent]
        \/ stream' = [stream EXCEPT ![r].pc = "drain", ![r].ev = NoEvent,
                                   ![r].buffer = others \cup {q}]
    BY <1>6, Zenon DEF HandleChunk
  <2> HIDE DEF q, others
  <2>7. stream' \in [Request -> Stream]
    <3>1. CASE stream' = [stream EXCEPT ![r].pc = "wait", ![r].ev = NoEvent]
      BY <2>4, <3>1 DEF TypeOK
    <3>2. CASE stream' = [stream EXCEPT ![r].pc = "drain", ![r].ev = NoEvent,
                                   ![r].buffer = others \cup {q}]
      BY <2>5, <3>2 DEF TypeOK
    <3> QED  BY <2>6, <3>1, <3>2
  <2>8. UNCHANGED <<dbVars, pending, events, queueVars, workerVars>>
    BY <1>6 DEF HandleChunk
  <2> QED  BY <2>7, <2>8 DEF TypeOK, dbVars, queueVars, workerVars
<1>7. CASE Drain(r)
  <2>1. PICK q \in stream[r].buffer :
          /\ q.seq = stream[r].next
          /\ stream' = [stream EXCEPT ![r].buffer = @ \ {q},
                                      ![r].chunks = Append(@, q),
                                      ![r].next = @ + 1]
    BY <1>7 DEF Drain
  <2>2. [stream[r] EXCEPT !.buffer = @ \ {q}, !.chunks = Append(@, q),
                          !.next = @ + 1] \in Stream
    BY <1>s, <2>1, StreamCollect
  <2> QED  BY <1>7, <2>1, <2>2 DEF TypeOK, Drain
<1>8. CASE DrainDone(r)
  BY <1>8, <1>p DEF TypeOK, DrainDone, Goto, StreamPc
<1>9. CASE HandleTerminal(r)
  BY <1>9, <1>p DEF TypeOK, HandleTerminal, Goto, StopReading, StreamPc
<1>10. CASE Flush(r)
  <2>1. PICK q \in stream[r].buffer :
          stream' = [stream EXCEPT ![r].buffer = @ \ {q},
                                   ![r].chunks = Append(@, q)]
    BY <1>10 DEF Flush
  <2>2. [stream[r] EXCEPT !.buffer = @ \ {q}, !.chunks = Append(@, q)] \in Stream
    BY <1>s, StreamCollect
  <2> QED  BY <1>10, <2>1, <2>2 DEF TypeOK, Flush
<1>11. CASE FlushDone(r)
  BY <1>11, <1>p DEF TypeOK, FlushDone, Goto, StreamPc
<1>12. CASE Store(r)
  <2>1. [status |-> stream[r].ev.type, content |-> FinalContent(stream[r])] \in Row
    BY <1>12, <1>s, FinalRow DEF Store, At, StreamInv, RequestInv
  <2> QED  BY <1>12, <1>p, <2>1 DEF TypeOK, Store, InsertFinal, Goto, StreamPc
<1>13. CASE Announce(r)
  <2>1. stream[r].ev.type \in Terminal
    BY <1>13 DEF Announce, At, StreamInv, RequestInv
  <2>2. [stream[r] EXCEPT !.pc = "ended", !.told = stream[r].ev.type] \in Stream
    BY <1>s, <2>1, StreamTell DEF StreamPc
  <2> QED  BY <1>13, <2>2 DEF TypeOK, Announce
<1>14. CASE SavePartial(r)
  BY <1>14, <1>s, <1>p, PartialRow DEF TypeOK, SavePartial, Goto, StreamPc
<1> QED
  BY <1>1, <1>2, <1>3, <1>4, <1>5, <1>6, <1>7, <1>8, <1>9, <1>10, <1>11, <1>12,
     <1>13, <1>14 DEF PublishStep, StreamStep

\* So does an early end of a stream.
LEMMA TypeFaultStep ==
  ASSUME TypeOK, StreamInv, NEW r \in Request, StreamFault(r)
  PROVE  TypeOK'
<1> USE DEF dbVars, backendVars, queueVars, workerVars
<1>s. stream[r] \in Stream
  BY DEF TypeOK
<1>p. \A p \in StreamPc : [stream[r] EXCEPT !.pc = p] \in Stream
  BY <1>s, StreamGoto
<1>t. \A p \in StreamPc :
        /\ [stream[r] EXCEPT !.pc = p, !.told = "broken"] \in Stream
        /\ [stream[r] EXCEPT !.told = "broken", !.pc = p] \in Stream
  BY <1>s, StreamTell
<1>f. Finish(r) => stream' \in [Request -> Stream]
  BY <1>p DEF TypeOK, Finish, Goto, StreamPc
<1>e. StopReading(r) => events' \in [Request -> Seq(Event)]
  BY DEF TypeOK, StopReading
<1>0. CASE SubmitRaises(r)
  BY <1>0, <1>t DEF TypeOK, SubmitRaises, StreamPc
<1>1. CASE PublishRaises(r)
  BY <1>1, <1>t DEF TypeOK, PublishRaises, Unregister, StopReading, StreamPc
<1>2. CASE Disconnected(r)
  <2>1. stream' \in [Request -> Stream] /\ events' \in [Request -> Seq(Event)]
    BY <1>2, <1>f, <1>e DEF Disconnected
  <2> QED  BY <1>2, <2>1 DEF TypeOK, Disconnected
<1>3. CASE CancelInBroker(r)
  <2>1. stream' \in [Request -> Stream] /\ events' \in [Request -> Seq(Event)]
    BY <1>3, <1>f, <1>e DEF CancelInBroker, Unregister
  <2> QED  BY <1>3, <2>1 DEF TypeOK, CancelInBroker, Unregister
<1>4. CASE CancelInHandler(r)
  <2>1. stream' \in [Request -> Stream] /\ events' \in [Request -> Seq(Event)]
    BY <1>4, <1>f, <1>e DEF CancelInHandler
  <2> QED  BY <1>4, <2>1 DEF TypeOK, CancelInHandler
<1>5. CASE CancelAfterCommit(r)
  <2>1. [status |-> stream[r].ev.type, content |-> FinalContent(stream[r])] \in Row
    BY <1>5, <1>s, FinalRow DEF CancelAfterCommit, At, StreamInv, RequestInv
  <2>2. stream' \in [Request -> Stream]
    BY <1>5, <1>f DEF CancelAfterCommit
  <2>3. assistant' \in [Request -> Seq(Row)]
    BY <1>5, <2>1 DEF TypeOK, CancelAfterCommit, InsertFinal
  <2> QED  BY <1>5, <2>2, <2>3 DEF TypeOK, CancelAfterCommit
<1>6. CASE StoreRaises(r)
  BY <1>6, <1>t DEF TypeOK, StoreRaises, StreamPc
<1>7. CASE SavePartialRaises(r)
  BY <1>7, <1>p DEF TypeOK, SavePartialRaises, Goto, StreamPc
<1> QED
  BY <1>0, <1>1, <1>2, <1>3, <1>4, <1>5, <1>6, <1>7 DEF StreamFault

\* So does a step of a worker coroutine.
LEMMA TypeJobStep ==
  ASSUME TypeOK, NEW r \in Request, NEW a \in Attempt,
         JobStep(r, a) \/ JobFault(r, a)
  PROVE  TypeOK'
<1> USE DEF dbVars, backendVars, queueVars, workerVars
<1>j. job[r][a] \in Job
  BY DEF TypeOK
<1>g. \A p \in {"failing", "ack", "done"} : [job[r][a] EXCEPT !.pc = p] \in Job
  BY <1>j, JobPc
<1>p. JobGoto(r, a, "failing") \/ JobGoto(r, a, "ack") \/ JobGoto(r, a, "done")
        => job' \in [Request -> [Attempt -> Job]]
  <2>1. \A j \in Job : job' = [job EXCEPT ![r][a] = j] => job' \in [Request -> [Attempt -> Job]]
    BY DEF TypeOK
  <2> QED  BY <1>g, <2>1 DEF JobGoto
<1>e. \A e \in Event : Reply(r, e) => replies' \in [Request -> Seq(Event)]
  BY DEF TypeOK, Reply
<1>m. Settle(r, a) => requestMsg' \in [Request -> {"absent", "ready", "unacked", "gone"}]
  BY DEF TypeOK, Settle
<1>1. CASE AgentReturns(r, a)
  BY <1>1, JobAnswer DEF TypeOK, AgentReturns
<1>2. CASE PublishChunk(r, a)
  BY <1>2, <1>j, <1>e, WorkerEvents, JobSent DEF TypeOK, PublishChunk
<1>3. CASE PublishEnd(r, a)
  BY <1>3, <1>j, <1>p, <1>e, WorkerEvents DEF TypeOK, PublishEnd
<1>4. CASE PublishFailed(r, a)
  BY <1>4, <1>p, <1>e, FailedEvent DEF TypeOK, PublishFailed
<1>5. CASE Ack(r, a)
  BY <1>5, <1>p, <1>m DEF TypeOK, Ack
<1>6. CASE AgentRaises(r, a)
  BY <1>6, <1>p DEF TypeOK, AgentRaises
<1>7. CASE SendRaises(r, a)
  <2>1. replies' \in [Request -> Seq(Event)]
    <3>1. CASE UNCHANGED replies
      BY <3>1 DEF TypeOK
    <3>2. CASE Reply(r, ChunkOf(r, a)) /\ job[r][a].sent < ChunkCount(job[r][a].size)
      BY <3>2, <1>j, <1>e, WorkerEvents
    <3>3. CASE Reply(r, EndOf(r, a))
      BY <3>3, <1>j, <1>e, WorkerEvents
    <3> QED  BY <1>7, <3>1, <3>2, <3>3 DEF SendRaises
  <2> QED  BY <1>7, <1>p, <2>1 DEF TypeOK, SendRaises
<1>8. CASE Reject(r, a)
  BY <1>8, <1>p, <1>m DEF TypeOK, Reject
<1> QED
  BY <1>1, <1>2, <1>3, <1>4, <1>5, <1>6, <1>7, <1>8 DEF JobStep, JobFault

\* So do the steps of the broker and the event loop, and the crashes.
LEMMA TypeBrokerStep ==
  ASSUME TypeOK, NEW r \in Request,
         Submit(r) \/ Release(r) \/ ConsumeReply(r) \/ Deliver(r)
  PROVE  TypeOK'
<1> USE DEF dbVars, backendVars, queueVars, workerVars
<1>1. CASE Submit(r)
  <2>1. [stream[r] EXCEPT !.pc = "accepted"] \in Stream
    BY StreamGoto DEF TypeOK, StreamPc
  <2> QED  BY <1>1, <2>1 DEF TypeOK, Submit, Goto
<1>2. CASE Release(r)
  <2>1. events' \in [Request -> Seq(Event)]
    BY <1>2 DEF TypeOK, Release, Unregister, StopReading
  <2> QED  BY <1>2, <2>1 DEF TypeOK, Release, Unregister
<1>3. CASE ConsumeReply(r)
  <2>1. PICK i \in 1 .. Window :
          /\ i <= Len(replies[r])
          /\ \/ events' = [events EXCEPT ![r] = Append(@, replies[r][i])]
             \/ events' = events
          /\ \/ replies' = [replies EXCEPT ![r] = RemoveAt(@, i)] /\ dups' = dups
             \/ dups < MaxDuplicates /\ dups' = dups + 1 /\ replies' = replies
    BY <1>3 DEF ConsumeReply
  <2>2. replies[r] \in Seq(Event) /\ i \in 1 .. Len(replies[r])
    BY <2>1, ChatStreamAssumption DEF TypeOK
  <2>3. replies[r][i] \in Event /\ RemoveAt(replies[r], i) \in Seq(Event)
    BY <2>2, RemoveAtType
  <2>4. events' \in [Request -> Seq(Event)]
    <3>1. events \in [Request -> Seq(Event)]
      BY DEF TypeOK
    <3>2. Append(events[r], replies[r][i]) \in Seq(Event)
      BY <2>3, <3>1
    <3> QED  BY <2>1, <3>1, <3>2
  <2>5. replies' \in [Request -> Seq(Event)]
    BY <2>1, <2>3 DEF TypeOK
  <2>6. dups' \in 0 .. MaxDuplicates
    BY <2>1, ChatStreamAssumption DEF TypeOK
  <2> QED  BY <1>3, <2>4, <2>5, <2>6 DEF TypeOK, ConsumeReply
<1>4. CASE Deliver(r)
  <2>1. delivered[r] + 1 \in Attempt /\ delivered[r] + 1 \in 0 .. MaxLosses + 1
    BY <1>4, ChatStreamAssumption DEF TypeOK, Deliver, Attempt
  <2>2. [job[r][delivered[r] + 1] EXCEPT !.pc = "agent"] \in Job
    BY <2>1, JobPc DEF TypeOK
  <2>3. job' \in [Request -> [Attempt -> Job]]
    BY <1>4, <2>1, <2>2 DEF TypeOK, Deliver
  <2>4. delivered' \in [Request -> 0 .. MaxLosses + 1]
    BY <1>4, <2>1 DEF TypeOK, Deliver
  <2> QED  BY <1>4, <2>3, <2>4 DEF TypeOK, Deliver
<1> QED  BY <1>1, <1>2, <1>3, <1>4

LEMMA TypeCrash ==
  ASSUME TypeOK, BackendCrash \/ WorkerCrash \/ ChannelLost
  PROVE  TypeOK'
<1> USE DEF dbVars, backendVars, queueVars, workerVars
<1>q. Requeue => requestMsg' \in [Request -> {"absent", "ready", "unacked", "gone"}]
  BY DEF TypeOK, Requeue
<1>l. losses < MaxLosses /\ losses' = losses + 1 => losses' \in 0 .. MaxLosses
  BY ChatStreamAssumption DEF TypeOK
<1>1. CASE BackendCrash
  <2>1. \A r \in Request : stream[r] \in Stream /\ [stream[r] EXCEPT !.pc = "down"] \in Stream
    BY StreamGoto DEF TypeOK, StreamPc
  <2>2. stream' \in [Request -> Stream]
    BY <1>1, <2>1 DEF BackendCrash
  <2>3. events' \in [Request -> Seq(Event)]
    BY <1>1 DEF BackendCrash
  <2> QED  BY <1>1, <2>2, <2>3 DEF TypeOK, BackendCrash
<1>2. CASE WorkerCrash
  <2>1. \A r \in Request, a \in Attempt :
          job[r][a] \in Job /\ [job[r][a] EXCEPT !.pc = "done"] \in Job
    BY JobPc DEF TypeOK
  <2>2. job' \in [Request -> [Attempt -> Job]]
    BY <1>2, <2>1 DEF WorkerCrash
  <2> QED  BY <1>2, <1>q, <1>l, <2>2 DEF TypeOK, WorkerCrash
<1>3. CASE ChannelLost
  BY <1>3, <1>q, <1>l DEF TypeOK, ChannelLost
<1> QED  BY <1>1, <1>2, <1>3

-----------------------------------------------------------------------------
(***************************************************************************)
(* StreamInv: the rows of a request depend on its own handler alone.       *)
(***************************************************************************)

\* Whatever leaves rows and handlers alone keeps it.
LEMMA InvUnchanged ==
  ASSUME StreamInv, UNCHANGED <<dbVars, stream>>
  PROVE  StreamInv'
  BY DEF StreamInv, RequestInv, dbVars

\* A step of one request needs to be looked at for that request only.
LEMMA InvFrame ==
  ASSUME TypeOK, StreamInv, NEW r \in Request, RequestInv(r)',
         \A x \in Request \ {r} :
           UNCHANGED <<userMsg[x], assistant[x], stream[x]>>
  PROVE  StreamInv'
<1>1. ASSUME NEW x \in Request \ {r}  PROVE RequestInv(x)'
  BY <1>1 DEF StreamInv, RequestInv
<1> QED  BY <1>1 DEF StreamInv

\* A request with no row or with one.
LEMMA ShortAnswer ==
  ASSUME NEW rows, rows = <<>> \/ Len(rows) = 1
  PROVE  Len(rows) <= 1
<1>1. CASE rows = <<>>
  <2>1. Len(rows) = 0
    BY <1>1
  <2> QED  BY <2>1
<1>2. CASE Len(rows) = 1
  BY <1>2
<1> QED  BY <1>1, <1>2

\* A step of the backend: the only rows are those of Store and SavePartial.
LEMMA InvStreamStep ==
  ASSUME TypeOK, StreamInv, NEW r \in Request, PublishStep(r) \/ StreamStep(r)
  PROVE  StreamInv'
<1> USE DEF dbVars, backendVars, queueVars, workerVars, At, Goto
<1>s. stream[r] \in Stream /\ assistant[r] \in Seq(Row) /\ RequestInv(r)
  BY DEF TypeOK, StreamInv
<1>1. CASE StartStream(r)
  <2>1. RequestInv(r)'
    BY <1>1, <1>s DEF TypeOK, RequestInv, StartStream, Terminal
  <2> QED  BY <1>1, <2>1, InvFrame DEF TypeOK, StartStream
<1>2. CASE PublishArrives(r)
  BY <1>2, InvUnchanged DEF PublishArrives
<1>3. CASE PublishReturns(r)
  <2>1. RequestInv(r)'
    BY <1>3, <1>s DEF TypeOK, RequestInv, PublishReturns, Terminal
  <2> QED  BY <1>3, <2>1, InvFrame DEF TypeOK, PublishReturns
<1>4. CASE Receive(r)
  <2>1. RequestInv(r)'
    BY <1>4, <1>s DEF TypeOK, RequestInv, Receive, Terminal
  <2> QED  BY <1>4, <2>1, InvFrame DEF TypeOK, Receive
<1>5. CASE Timeout(r)
  <2>1. RequestInv(r)'
    BY <1>5, <1>s DEF TypeOK, RequestInv, Timeout, Terminal
  <2> QED  BY <1>5, <2>1, InvFrame DEF TypeOK, Timeout
<1>6. CASE HandleChunk(r)
  <2>1. RequestInv(r)'
    <3>1. /\ stream[r].pc = "got" /\ stream'[r].pc \in {"wait", "drain"}
          /\ stream'[r].told = stream[r].told
          /\ userMsg' = userMsg /\ assistant' = assistant
      <4>1. \/ stream' = [stream EXCEPT ![r].pc = "wait", ![r].ev = NoEvent]
            \/ \E b : stream' = [stream EXCEPT ![r].pc = "drain", ![r].ev = NoEvent,
                                               ![r].buffer = b]
        BY <1>6 DEF HandleChunk
      <4>2. stream[r].pc = "got" /\ userMsg' = userMsg /\ assistant' = assistant
        BY <1>6 DEF HandleChunk
      <4> QED  BY <1>s, <4>1, <4>2 DEF TypeOK, Stream
    <3> QED  BY <1>s, <3>1 DEF RequestInv, Terminal
  <2> QED  BY <1>6, <2>1, InvFrame DEF TypeOK, HandleChunk
<1>7. CASE Drain(r)
  <2>1. RequestInv(r)'
    BY <1>7, <1>s DEF TypeOK, RequestInv, Drain, Terminal
  <2> QED  BY <1>7, <2>1, InvFrame DEF TypeOK, Drain
<1>8. CASE DrainDone(r)
  <2>1. RequestInv(r)'
    BY <1>8, <1>s DEF TypeOK, RequestInv, DrainDone, Terminal
  <2> QED  BY <1>8, <2>1, InvFrame DEF TypeOK, DrainDone
<1>9. CASE HandleTerminal(r)
  <2>1. RequestInv(r)'
    BY <1>9, <1>s DEF TypeOK, RequestInv, HandleTerminal, Terminal, StopReading
  <2> QED  BY <1>9, <2>1, InvFrame DEF TypeOK, HandleTerminal, StopReading
<1>10. CASE Flush(r)
  <2>1. RequestInv(r)'
    BY <1>10, <1>s DEF TypeOK, RequestInv, Flush, Terminal
  <2> QED  BY <1>10, <2>1, InvFrame DEF TypeOK, Flush
<1>11. CASE FlushDone(r)
  <2>1. RequestInv(r)'
    BY <1>11, <1>s DEF TypeOK, RequestInv, FlushDone, Terminal
  <2> QED  BY <1>11, <2>1, InvFrame DEF TypeOK, FlushDone
<1>12. CASE Store(r)
  <2>1. RequestInv(r)'
    BY <1>12, <1>s DEF TypeOK, RequestInv, Store, Terminal, InsertFinal
  <2> QED  BY <1>12, <2>1, InvFrame DEF TypeOK, Store, InsertFinal
<1>13. CASE Announce(r)
  <2>1. RequestInv(r)'
    <3>1. /\ stream[r].pc = "stored" /\ stream'[r].pc = "ended"
          /\ stream'[r].told = stream[r].ev.type
          /\ userMsg' = userMsg /\ assistant' = assistant
      BY <1>13, <1>s DEF TypeOK, Announce
    <3>2. stream[r].ev.type \in Terminal /\ userMsg[r] # "none"
          /\ Len(assistant[r]) = 1 /\ assistant[r][1].status = stream[r].ev.type
      BY <1>s, <3>1 DEF RequestInv
    <3> QED  BY <3>1, <3>2 DEF RequestInv, Terminal
  <2> QED  BY <1>13, <2>1, InvFrame DEF TypeOK, Announce
<1>14. CASE SavePartial(r)
  <2>1. RequestInv(r)'
    BY <1>14, <1>s DEF TypeOK, RequestInv, SavePartial, Terminal
  <2> QED  BY <1>14, <2>1, InvFrame DEF TypeOK, SavePartial
<1> QED
  BY <1>1, <1>2, <1>3, <1>4, <1>5, <1>6, <1>7, <1>8, <1>9, <1>10,
     <1>11, <1>12, <1>13, <1>14 DEF PublishStep, StreamStep

\* An early end: a handler that still may save its chunks has no row yet.
LEMMA InvFaultStep ==
  ASSUME TypeOK, StreamInv, NEW r \in Request, StreamFault(r)
  PROVE  StreamInv'
<1> USE DEF dbVars, backendVars, queueVars, workerVars, At, Goto
<1>s. stream[r] \in Stream /\ assistant[r] \in Seq(Row) /\ RequestInv(r)
  BY DEF TypeOK, StreamInv
<1>0. CASE SubmitRaises(r)
  <2>1. RequestInv(r)'
    BY <1>0, <1>s DEF TypeOK, RequestInv, SubmitRaises, Terminal
  <2> QED  BY <1>0, <2>1, InvFrame DEF TypeOK, SubmitRaises
<1>1. CASE PublishRaises(r)
  <2>1. RequestInv(r)'
    BY <1>1, <1>s DEF TypeOK, RequestInv, PublishRaises, Terminal
  <2> QED  BY <1>1, <2>1, InvFrame DEF TypeOK, PublishRaises
<1>2. CASE Disconnected(r)
  <2>1. RequestInv(r)'
    BY <1>2, <1>s DEF TypeOK, RequestInv, Disconnected, Terminal, Finish
  <2> QED  BY <1>2, <2>1, InvFrame DEF TypeOK, Disconnected, Finish
<1>3. CASE CancelInBroker(r)
  <2>1. RequestInv(r)'
    BY <1>3, <1>s DEF TypeOK, RequestInv, CancelInBroker, Terminal, Finish
  <2> QED  BY <1>3, <2>1, InvFrame DEF TypeOK, CancelInBroker, Finish
<1>4. CASE CancelInHandler(r)
  <2>1. RequestInv(r)'
    <3>1. /\ stream[r].pc \in {"accepted", "got", "drain", "flush", "storing", "stored"}
          /\ stream'[r].pc \in {"partial", "ended"}
          /\ stream[r].pc = "stored" => stream'[r].pc = "ended"
          /\ stream'[r].told = stream[r].told
          /\ userMsg' = userMsg /\ assistant' = assistant
      BY <1>4, <1>s DEF TypeOK, CancelInHandler, Finish, SavesPartial
    <3>2. stream[r].told = "none" /\ userMsg[r] # "none"
      BY <1>s, <3>1 DEF RequestInv
    <3>3. stream[r].pc # "stored" => assistant[r] = <<>>
      BY <1>s, <3>1 DEF RequestInv
    <3>4. stream[r].pc = "stored" => Len(assistant[r]) = 1
      BY <1>s DEF RequestInv
    <3>5. Len(assistant[r]) <= 1
      BY <3>3, <3>4, ShortAnswer
    <3> QED  BY <1>s, <3>1, <3>2, <3>3, <3>4, <3>5 DEF RequestInv, Terminal
  <2> QED  BY <1>4, <2>1, InvFrame DEF TypeOK, CancelInHandler, Finish, SavesPartial
<1>5. CASE CancelAfterCommit(r)
  <2>1. RequestInv(r)'
    BY <1>5, <1>s DEF TypeOK, RequestInv, CancelAfterCommit, Terminal, Finish, SavesPartial, InsertFinal
  <2> QED  BY <1>5, <2>1, InvFrame DEF TypeOK, CancelAfterCommit, Finish, SavesPartial, InsertFinal
<1>6. CASE StoreRaises(r)
  <2>1. RequestInv(r)'
    <3>1. /\ stream[r].pc \in {"storing", "stored"} /\ stream'[r].pc = "ended"
          /\ stream'[r].told = "broken"
          /\ userMsg' = userMsg /\ assistant' = assistant
      BY <1>6, <1>s DEF TypeOK, StoreRaises, SavesPartial
    <3>2. userMsg[r] # "none"
      BY <1>s, <3>1 DEF RequestInv
    <3>3. assistant[r] = <<>> \/ Len(assistant[r]) = 1
      BY <1>s, <3>1 DEF RequestInv
    <3>4. Len(assistant[r]) <= 1
      BY <3>3, ShortAnswer
    <3> QED  BY <3>1, <3>2, <3>4 DEF RequestInv, Terminal
  <2> QED  BY <1>6, <2>1, InvFrame DEF TypeOK, StoreRaises, SavesPartial
<1>7. CASE SavePartialRaises(r)
  <2>1. RequestInv(r)'
    BY <1>7, <1>s DEF TypeOK, RequestInv, SavePartialRaises, Terminal
  <2> QED  BY <1>7, <2>1, InvFrame DEF TypeOK, SavePartialRaises
<1> QED
  BY <1>0, <1>1, <1>2, <1>3, <1>4, <1>5, <1>6, <1>7 DEF StreamFault

\* Everything else: a new request, the event loop, the worker, the crashes.
LEMMA InvOtherStep ==
  ASSUME TypeOK, StreamInv,
         \/ \E r \in Request : Submit(r) \/ Release(r) \/ ConsumeReply(r) \/ Deliver(r)
         \/ \E r \in Request, a \in Attempt : JobStep(r, a) \/ JobFault(r, a)
         \/ BackendCrash \/ WorkerCrash \/ ChannelLost
  PROVE  StreamInv'
<1> USE DEF dbVars, backendVars, queueVars, workerVars, At, Goto
<1>1. ASSUME NEW r \in Request, Submit(r)  PROVE StreamInv'
  <2>1. RequestInv(r)'
    <3>1. /\ stream[r].pc = "idle" /\ stream'[r].pc = "accepted"
          /\ stream'[r].told = stream[r].told
          /\ userMsg'[r] = "submitted" /\ assistant' = assistant
      BY <1>1 DEF TypeOK, Submit
    <3>2. RequestInv(r)
      BY DEF StreamInv
    <3> QED  BY <3>1, <3>2 DEF RequestInv, Terminal
  <2> QED  BY <1>1, <2>1, InvFrame DEF TypeOK, Submit
<1>2. ASSUME NEW r \in Request, Release(r) \/ ConsumeReply(r) \/ Deliver(r)
      PROVE  StreamInv'
  BY <1>2, InvUnchanged DEF Release, ConsumeReply, Deliver
<1>3. ASSUME NEW r \in Request, NEW a \in Attempt, JobStep(r, a) \/ JobFault(r, a)
      PROVE  StreamInv'
  BY <1>3, InvUnchanged DEF JobStep, JobFault, AgentReturns, AgentRaises,
     PublishChunk, PublishEnd, SendRaises, PublishFailed, Ack, Reject
<1>4. CASE BackendCrash
  <2>1. ASSUME NEW r \in Request  PROVE RequestInv(r)'
    <3>1. RequestInv(r)
      BY <2>1 DEF StreamInv
    <3>2. userMsg' = userMsg /\ assistant' = assistant
      BY <1>4 DEF BackendCrash
    <3>3. CASE ~Live(r)
      <4>1. stream'[r] = stream[r]
        BY <1>4, <2>1, <3>3 DEF BackendCrash
      <4> QED  BY <3>1, <3>2, <4>1 DEF RequestInv
    <3>4. CASE Live(r)
      <4>1. /\ stream[r].pc \notin {"idle", "ended", "down"}
            /\ stream'[r].pc = "down" /\ stream'[r].told = stream[r].told
        BY <1>4, <2>1, <3>4 DEF TypeOK, BackendCrash, Live, Stream
      <4>2. stream[r].told = "none" /\ userMsg[r] # "none"
        BY <3>1, <4>1 DEF RequestInv
      <4>3. Len(assistant[r]) <= 1
        <5>1. stream[r].pc = "stored" => Len(assistant[r]) = 1
          BY <3>1 DEF RequestInv
        <5>2. stream[r].pc # "stored" => assistant[r] = <<>>
          BY <3>1, <4>1 DEF RequestInv
        <5> QED  BY <5>1, <5>2, ShortAnswer
      <4>4. assistant[r] \in Seq(Row)
        BY <2>1 DEF TypeOK
      <4> QED  BY <3>2, <4>1, <4>2, <4>3, <4>4 DEF RequestInv, Terminal
    <3> QED  BY <3>3, <3>4
  <2> QED  BY <2>1 DEF StreamInv
<1>5. CASE WorkerCrash \/ ChannelLost
  BY <1>5, InvUnchanged DEF WorkerCrash, ChannelLost
<1> QED  BY <1>1, <1>2, <1>3, <1>4, <1>5

-----------------------------------------------------------------------------
(***************************************************************************)
(* The theorems.                                                           *)
(***************************************************************************)

LEMMA TypeInit == Init => TypeOK
<1> SUFFICES ASSUME Init  PROVE TypeOK
  OBVIOUS
<1>1. NoStream \in Stream
  <2>1. 1 \in 1 .. MaxChunks + 1
    BY ChatStreamAssumption
  <2> QED  BY <2>1 DEF NoStream, Stream, StreamPc
<1>2. NoJob \in Job
  BY ChatStreamAssumption DEF NoJob, Job
<1>3. /\ stream \in [Request -> Stream]
      /\ job \in [Request -> [Attempt -> Job]]
  BY <1>1, <1>2 DEF Init
<1>4. /\ assistant \in [Request -> Seq(Row)]
      /\ events \in [Request -> Seq(Event)]
      /\ replies \in [Request -> Seq(Event)]
  BY DEF Init
<1>5. /\ delivered \in [Request -> 0 .. MaxLosses + 1]
      /\ losses \in 0 .. MaxLosses
      /\ dups \in 0 .. MaxDuplicates
  BY ChatStreamAssumption DEF Init
<1> QED  BY <1>3, <1>4, <1>5 DEF Init, TypeOK

LEMMA InvInit == Init => StreamInv
<1> SUFFICES ASSUME Init, NEW r \in Request  PROVE RequestInv(r)
  BY DEF StreamInv
<1>1. /\ stream[r].pc = "idle" /\ stream[r].told = "none"
      /\ userMsg[r] = "none" /\ assistant[r] = <<>>
  BY DEF Init, NoStream
<1> QED  BY <1>1 DEF RequestInv, Terminal

\* One step of the specification.
LEMMA InvStep ==
  ASSUME TypeOK, StreamInv, [Next]_vars
  PROVE  TypeOK' /\ StreamInv'
<1>1. CASE UNCHANGED vars
  <2>1. TypeOK'
    BY <1>1 DEF TypeOK, vars, dbVars, backendVars, queueVars, workerVars
  <2>2. StreamInv'
    BY <1>1, InvUnchanged DEF vars, dbVars, backendVars
  <2> QED  BY <2>1, <2>2
<1>2. ASSUME NEW r \in Request, PublishStep(r) \/ StreamStep(r)  PROVE TypeOK' /\ StreamInv'
  BY <1>2, TypeStreamStep, InvStreamStep
<1>3. ASSUME NEW r \in Request, StreamFault(r)  PROVE TypeOK' /\ StreamInv'
  BY <1>3, TypeFaultStep, InvFaultStep
<1>4. ASSUME NEW r \in Request, Submit(r) \/ Release(r) \/ ConsumeReply(r) \/ Deliver(r)
      PROVE  TypeOK' /\ StreamInv'
  BY <1>4, TypeBrokerStep, InvOtherStep
<1>5. ASSUME NEW r \in Request, NEW a \in Attempt, JobStep(r, a) \/ JobFault(r, a)
      PROVE  TypeOK' /\ StreamInv'
  BY <1>5, TypeJobStep, InvOtherStep
<1>6. CASE BackendCrash \/ WorkerCrash \/ ChannelLost
  BY <1>6, TypeCrash, InvOtherStep
<1> QED  BY <1>1, <1>2, <1>3, <1>4, <1>5, <1>6 DEF Next

\* The invariant holds in every reachable state: rows and notifications go
\* with the place each handler is at, whatever is lost, crashes or is late.
THEOREM StreamInvariant == Spec => [](TypeOK /\ StreamInv)
<1>1. Init => TypeOK /\ StreamInv
  BY TypeInit, InvInit
<1>2. TypeOK /\ StreamInv /\ [Next]_vars => (TypeOK /\ StreamInv)'
  BY InvStep
<1> QED  BY <1>1, <1>2, PTL DEF Spec

\* Every variable keeps its type.
THEOREM TypeCorrect == Spec => []TypeOK
  BY StreamInvariant, PTL

\* A request never gets two assistant rows: the terminal row of _event_stream
\* and the background save of its finally block exclude one another.
THEOREM OneAnswer == Spec => []AtMostOneAnswer
<1>1. ASSUME TypeOK, StreamInv, NEW r \in Request  PROVE Len(assistant[r]) <= 1
  <2>1. assistant[r] \in Seq(Row) /\ RequestInv(r)
    BY <1>1 DEF TypeOK, StreamInv
  <2>2. assistant[r] = <<>> \/ Len(assistant[r]) = 1 \/ Len(assistant[r]) <= 1
    BY <2>1 DEF RequestInv
  <2> QED  BY <2>2, ShortAnswer
<1>2. TypeOK /\ StreamInv => AtMostOneAnswer
  BY <1>1 DEF AtMostOneAnswer
<1> QED  BY <1>2, StreamInvariant, PTL

\* A client is told an end only after the row with that status is committed.
THEOREM ToldIsStored == Spec => []AnnouncedIsStored
<1>1. TypeOK /\ StreamInv => AnnouncedIsStored
  BY DEF StreamInv, RequestInv, AnnouncedIsStored
<1> QED  BY <1>1, StreamInvariant, PTL

\* A stream that still reads events has its entry in _pending: nobody but its
\* own unwinding removes it.
THEOREM ListenersStay == Spec => []ListenerRegistered
<1> USE DEF dbVars, backendVars, queueVars, workerVars, At, Goto, Reading
<1>1. Init => ListenerRegistered
  BY DEF Init, NoStream, ListenerRegistered
<1>2. ASSUME TypeOK, ListenerRegistered, UNCHANGED <<stream, pending>>
      PROVE  ListenerRegistered'
  BY <1>2 DEF ListenerRegistered
<1>3. ASSUME TypeOK, ListenerRegistered, NEW r \in Request,
             \A x \in Request \ {r} : stream'[x] = stream[x] /\ (x \in pending => x \in pending'),
             stream'[r].pc \in {"publish", "wait", "got", "drain"} => r \in pending'
      PROVE  ListenerRegistered'
  BY <1>3 DEF ListenerRegistered
<1>4. ASSUME TypeOK, StreamInv, ListenerRegistered, NEW r \in Request,
             PublishStep(r) \/ StreamStep(r)
      PROVE  ListenerRegistered'
  <2>0. r \in Request /\ (Reading(r) => r \in pending) /\ stream \in [Request -> Stream]
    BY <1>4 DEF ListenerRegistered, TypeOK
  <2>1. CASE StartStream(r)
    BY <1>3, <1>4, <2>0, <2>1 DEF StartStream
  <2>2. CASE PublishArrives(r)
    BY <1>2, <1>4, <2>2 DEF PublishArrives
  <2>3. CASE PublishReturns(r) \/ DrainDone(r)
    BY <1>3, <1>4, <2>0, <2>3 DEF PublishReturns, DrainDone
  <2>4. CASE Receive(r) \/ Timeout(r)
    BY <1>3, <1>4, <2>0, <2>4 DEF Receive, Timeout
  <2>5. CASE HandleChunk(r)
    <3>1. \/ stream' = [stream EXCEPT ![r].pc = "wait", ![r].ev = NoEvent]
          \/ \E b : stream' = [stream EXCEPT ![r].pc = "drain", ![r].ev = NoEvent,
                                             ![r].buffer = b]
      BY <2>5 DEF HandleChunk
    <3>2. \A x \in Request \ {r} : stream'[x] = stream[x]
      BY <2>0, <3>1
    <3>3. stream[r].pc = "got" /\ pending' = pending
      BY <2>5 DEF HandleChunk
    <3>4. r \in pending' /\ \A x \in Request : x \in pending => x \in pending'
      BY <2>0, <3>3
    <3> QED  BY <1>3, <1>4, <3>2, <3>4
  <2>6. CASE Drain(r)
    BY <1>3, <1>4, <2>0, <2>6 DEF Drain
  <2>7. CASE HandleTerminal(r) \/ FlushDone(r) \/ Store(r) \/ Announce(r) \/ SavePartial(r)
    <3>1. pending' = pending
      BY <2>7 DEF HandleTerminal, FlushDone, Store, Announce, SavePartial
    <3>2. /\ stream'[r].pc \in {"flush", "storing", "stored", "ended"}
          /\ \A x \in Request \ {r} : stream'[x] = stream[x]
      <4>1. CASE HandleTerminal(r)
        BY <2>0, <4>1 DEF HandleTerminal
      <4>2. CASE FlushDone(r)
        BY <2>0, <4>2 DEF FlushDone
      <4>3. CASE Store(r)
        BY <2>0, <4>3 DEF Store
      <4>4. CASE Announce(r)
        BY <2>0, <4>4 DEF Announce
      <4>5. CASE SavePartial(r)
        BY <2>0, <4>5 DEF SavePartial
      <4> QED  BY <2>7, <4>1, <4>2, <4>3, <4>4, <4>5
    <3> QED  BY <1>3, <1>4, <3>1, <3>2
  <2>8. CASE Flush(r)
    BY <1>3, <1>4, <2>0, <2>8 DEF Flush
  <2> QED
    BY <1>4, <2>1, <2>2, <2>3, <2>4, <2>5, <2>6, <2>7, <2>8 DEF PublishStep, StreamStep
<1>5. ASSUME TypeOK, StreamInv, ListenerRegistered, NEW r \in Request,
             StreamFault(r) \/ Release(r) \/ Submit(r)
      PROVE  ListenerRegistered'
  <2>0. r \in Request /\ stream \in [Request -> Stream]
    BY <1>5 DEF TypeOK
  <2>1. CASE SubmitRaises(r) \/ PublishRaises(r) \/ StoreRaises(r)
    <3>1. /\ stream'[r].pc \in {"partial", "ended"}
          /\ \A x \in Request \ {r} : stream'[x] = stream[x]
      <4>0. CASE SubmitRaises(r)
        BY <2>0, <4>0 DEF SubmitRaises, Stream
      <4>1. CASE PublishRaises(r)
        BY <2>0, <4>1 DEF PublishRaises, Stream
      <4>2. CASE StoreRaises(r)
        <5>1. \/ stream' = [stream EXCEPT ![r].told = "broken", ![r].pc = "partial"]
              \/ stream' = [stream EXCEPT ![r].told = "broken", ![r].pc = "ended"]
          BY <4>2 DEF StoreRaises
        <5> QED  BY <2>0, <5>1 DEF Stream
      <4> QED  BY <2>1, <4>0, <4>1, <4>2
    <3>2. pending \ {r} \subseteq pending'
      BY <2>1 DEF SubmitRaises, PublishRaises, StoreRaises, Unregister
    <3> QED  BY <1>3, <1>5, <3>1, <3>2
  <2>2. CASE Disconnected(r) \/ CancelInBroker(r) \/ CancelInHandler(r) \/ CancelAfterCommit(r)
    <3>1. Finish(r) /\ pending \ {r} \subseteq pending'
      BY <2>2 DEF Disconnected, CancelInBroker, CancelInHandler, CancelAfterCommit, Unregister
    <3>2. /\ stream'[r].pc \in {"partial", "ended"}
          /\ \A x \in Request \ {r} : stream'[x] = stream[x]
      BY <2>0, <3>1 DEF Finish
    <3> QED  BY <1>3, <1>5, <3>1, <3>2
  <2>3. CASE SavePartialRaises(r)
    BY <1>3, <1>5, <2>0, <2>3 DEF SavePartialRaises
  <2>4. CASE Release(r)
    <3>1. stream' = stream /\ stream[r].pc \in {"partial", "ended"}
      BY <2>4 DEF Release
    <3>2. pending \ {r} \subseteq pending'
      BY <2>4 DEF Release, Unregister
    <3>3. stream'[r].pc \notin {"publish", "wait", "got", "drain"}
      BY <3>1
    <3>4. \A x \in Request \ {r} :
            stream'[x] = stream[x] /\ (x \in pending => x \in pending')
      BY <3>1, <3>2
    <3> QED  BY <1>3, <1>5, <3>3, <3>4
  <2>5. CASE Submit(r)
    BY <1>3, <1>5, <2>0, <2>5 DEF Submit
  <2> QED  BY <1>5, <2>1, <2>2, <2>3, <2>4, <2>5 DEF StreamFault
<1>6. ASSUME TypeOK, ListenerRegistered, NEW r \in Request, ConsumeReply(r) \/ Deliver(r)
      PROVE  ListenerRegistered'
  BY <1>2, <1>6 DEF ConsumeReply, Deliver
<1>7. ASSUME TypeOK, ListenerRegistered, NEW r \in Request, NEW a \in Attempt,
             JobStep(r, a) \/ JobFault(r, a)
      PROVE  ListenerRegistered'
  BY <1>2, <1>7 DEF JobStep, JobFault, AgentReturns, AgentRaises, PublishChunk,
     PublishEnd, SendRaises, PublishFailed, Ack, Reject
<1>8. ASSUME TypeOK, ListenerRegistered, WorkerCrash \/ ChannelLost
      PROVE  ListenerRegistered'
  BY <1>2, <1>8 DEF WorkerCrash, ChannelLost
<1>9. ASSUME TypeOK, ListenerRegistered, BackendCrash
      PROVE  ListenerRegistered'
  <2>1. ASSUME NEW r \in Request
        PROVE  stream'[r].pc \notin {"publish", "wait", "got", "drain"}
    BY <1>9, <2>1 DEF TypeOK, BackendCrash, Live, Stream
  <2> QED  BY <2>1 DEF ListenerRegistered
<1>10. TypeOK /\ StreamInv /\ ListenerRegistered /\ [Next]_vars => ListenerRegistered'
  BY <1>2, <1>4, <1>5, <1>6, <1>7, <1>8, <1>9 DEF Next, vars
<1> QED  BY <1>1, <1>10, StreamInvariant, PTL DEF Spec

-----------------------------------------------------------------------------
(***************************************************************************)
(* ChatStream implements ChatOutcome.  A step of the abstract promise is a *)
(* new request, a row, a notification or a broken response; every other    *)
(* step of a stream, a queue or a worker leaves all three alone.           *)
(***************************************************************************)
ToldStays == \A x \in Request : stream'[x].told = stream[x].told

LEMMA OutcomeQuiet ==
  ASSUME UNCHANGED <<userMsg, assistant>>, ToldStays
  PROVE  UNCHANGED Outcome!vars
<1>1. [r \in Request |-> stream'[r].told] = [r \in Request |-> stream[r].told]
  BY DEF ToldStays
<1> QED  BY <1>1 DEF Outcome!vars

\* The statuses of one row.
LEMMA StatusOfOne ==
  ASSUME NEW rows, NEW row, rows = <<row>>
  PROVE  [i \in 1 .. Len(rows) |-> rows[i].status] = <<row.status>>
<1>1. Len(rows) = 1 /\ rows[1] = row
  OBVIOUS
<1>2. [i \in 1 .. 1 |-> rows[i].status] = <<row.status>>
  BY <1>1
<1> QED  BY <1>1, <1>2

LEMMA StatusOfNone ==
  ASSUME NEW rows, rows = <<>>
  PROVE  [i \in 1 .. Len(rows) |-> rows[i].status] = <<>>
<1>1. Len(rows) = 0
  OBVIOUS
<1>2. [i \in 1 .. 0 |-> rows[i].status] = <<>>
  OBVIOUS
<1> QED  BY <1>1, <1>2

LEMMA OutcomeRecord ==
  ASSUME NEW r \in Request, NEW row, row.status \in Terminal \cup {"interrupted"},
         assistant \in [Request -> Seq(Row)],
         userMsg[r] # "none", assistant[r] = <<>>, stream[r].told = "none",
         assistant' = [assistant EXCEPT ![r] = <<row>>], userMsg' = userMsg, ToldStays
  PROVE  Outcome!Record(r)
<1> DEFINE rows == [x \in Request |-> [i \in 1 .. Len(assistant[x]) |-> assistant[x][i].status]]
           after == [x \in Request |-> [i \in 1 .. Len(assistant'[x]) |-> assistant'[x][i].status]]
<1>1. rows[r] = <<>>
  BY StatusOfNone
<1>2. after = [rows EXCEPT ![r] = <<row.status>>]
  <2>1. after[r] = <<row.status>>
    BY StatusOfOne
  <2>2. \A x \in Request \ {r} : after[x] = rows[x]
    OBVIOUS
  <2> HIDE DEF after, rows
  <2>3. after = [x \in Request |-> after[x]] /\ rows = [x \in Request |-> rows[x]]
    BY DEF after, rows
  <2> QED  BY <2>1, <2>2, <2>3
<1>3. [x \in Request |-> stream'[x].told] = [x \in Request |-> stream[x].told]
  BY DEF ToldStays
<1>4. [x \in Request |-> stream[x].told][r] = "none"
  OBVIOUS
<1>5. r \in {x \in Request : userMsg[x] # "none"}
  OBVIOUS
<1>6. row.status \in Outcome!Terminal \cup {"interrupted"}
  BY DEF Terminal, Outcome!Terminal
<1> HIDE DEF rows, after
<1> QED  BY <1>1, <1>2, <1>3, <1>4, <1>5, <1>6 DEF Outcome!Record, rows, after

\* A notification, or a response that breaks off.
LEMMA OutcomeTell ==
  ASSUME NEW r \in Request, NEW end,
         UNCHANGED <<userMsg, assistant>>, stream[r].told = "none", stream'[r].told = end,
         \A x \in Request \ {r} : stream'[x].told = stream[x].told,
         \/ /\ end \in Terminal
            /\ Len(assistant[r]) = 1 /\ assistant[r][1].status = end
         \/ end = "broken" /\ userMsg[r] # "none"
  PROVE  Outcome!Tell(r) \/ Outcome!Break(r)
<1> DEFINE told == [x \in Request |-> stream[x].told]
           after == [x \in Request |-> stream'[x].told]
           rows == [x \in Request |-> [i \in 1 .. Len(assistant[x]) |-> assistant[x][i].status]]
<1>1. told[r] = "none" /\ after = [told EXCEPT ![r] = end]
  OBVIOUS
<1>2. UNCHANGED <<{x \in Request : userMsg[x] # "none"}, rows>>
  OBVIOUS
<1>3. CASE end \in Terminal
  <2>1. Len(assistant[r]) = 1 /\ assistant[r][1].status = end
    BY <1>3 DEF Terminal
  <2>2. rows[r] = <<end>>
    <3>1. rows[r] = [i \in 1 .. 1 |-> assistant[r][i].status]
      BY <2>1
    <3>2. [i \in 1 .. 1 |-> assistant[r][i].status] = <<end>>
      BY <2>1
    <3> QED  BY <3>1, <3>2
  <2>3. end \in Outcome!Terminal
    BY <1>3 DEF Terminal, Outcome!Terminal
  <2> HIDE DEF told, after, rows
  <2> QED  BY <1>1, <1>2, <2>2, <2>3 DEF Outcome!Tell, told, after, rows
<1>4. CASE end = "broken"
  <2>1. userMsg[r] # "none"
    BY <1>4 DEF Terminal
  <2>2. r \in {x \in Request : userMsg[x] # "none"}
    BY <2>1
  <2> HIDE DEF told, after, rows
  <2> QED  BY <1>1, <1>2, <1>4, <2>2 DEF Outcome!Break, told, after, rows
<1> QED  BY <1>3, <1>4

\* Most steps of a stream change no row and tell nobody anything.
QuietStreamStep(r) ==
  \/ StartStream(r) \/ PublishArrives(r) \/ PublishReturns(r) \/ Receive(r) \/ Timeout(r)
  \/ HandleChunk(r) \/ Drain(r) \/ DrainDone(r) \/ HandleTerminal(r) \/ Flush(r) \/ FlushDone(r)

LEMMA QuietStream ==
  ASSUME TypeOK, NEW r \in Request, QuietStreamStep(r)
  PROVE  UNCHANGED <<userMsg, assistant>> /\ ToldStays
<1> USE DEF dbVars, backendVars, Goto
<1>s. stream \in [Request -> Stream] /\ \A x \in Request : "told" \in DOMAIN stream[x]
  BY DEF TypeOK, Stream
<1>1. CASE StartStream(r)
  BY <1>s, <1>1 DEF StartStream, ToldStays
<1>2. CASE PublishArrives(r)
  BY <1>s, <1>2 DEF PublishArrives, ToldStays
<1>3. CASE PublishReturns(r)
  BY <1>s, <1>3 DEF PublishReturns, ToldStays
<1>4. CASE Receive(r)
  BY <1>s, <1>4 DEF Receive, ToldStays
<1>5. CASE Timeout(r)
  BY <1>s, <1>5 DEF Timeout, ToldStays
<1>6. CASE HandleChunk(r)
  <2>1. \/ stream' = [stream EXCEPT ![r].pc = "wait", ![r].ev = NoEvent]
        \/ \E b : stream' = [stream EXCEPT ![r].pc = "drain", ![r].ev = NoEvent,
                                           ![r].buffer = b]
    BY <1>6 DEF HandleChunk
  <2>2. UNCHANGED <<userMsg, assistant>>
    BY <1>6 DEF HandleChunk
  <2> QED  BY <1>s, <2>1, <2>2 DEF ToldStays
<1>7. CASE Drain(r)
  BY <1>s, <1>7 DEF Drain, ToldStays
<1>8. CASE DrainDone(r)
  BY <1>s, <1>8 DEF DrainDone, ToldStays
<1>9. CASE HandleTerminal(r)
  BY <1>s, <1>9 DEF HandleTerminal, ToldStays
<1>10. CASE Flush(r)
  BY <1>s, <1>10 DEF Flush, ToldStays
<1>11. CASE FlushDone(r)
  BY <1>s, <1>11 DEF FlushDone, ToldStays
<1> QED
  BY <1>1, <1>2, <1>3, <1>4, <1>5, <1>6, <1>7, <1>8, <1>9, <1>10, <1>11 DEF QuietStreamStep

\* A stream that runs on: Store and SavePartial record, Announce tells.
LEMMA OutcomeStream ==
  ASSUME TypeOK, StreamInv, NEW r \in Request, PublishStep(r) \/ StreamStep(r)
  PROVE  [Outcome!Next]_(Outcome!vars)
<1> USE DEF dbVars, backendVars, Goto, At
<1>s. /\ stream \in [Request -> Stream] /\ \A x \in Request : "told" \in DOMAIN stream[x]
      /\ assistant \in [Request -> Seq(Row)] /\ RequestInv(r)
  BY DEF TypeOK, Stream, StreamInv
<1>1. CASE QuietStreamStep(r)
  BY <1>1, QuietStream, OutcomeQuiet
<1>2. CASE Store(r)
  <2> DEFINE row == [status |-> stream[r].ev.type, content |-> FinalContent(stream[r])]
  <2>1. /\ stream[r].pc = "storing" /\ ToldStays /\ userMsg' = userMsg
        /\ assistant' = [assistant EXCEPT ![r] = Append(assistant[r], row)]
    BY <1>s, <1>2 DEF Store, InsertFinal, ToldStays
  <2>2. /\ assistant[r] = <<>> /\ stream[r].told = "none" /\ userMsg[r] # "none"
        /\ row.status \in Terminal
    BY <1>s, <2>1 DEF RequestInv
  <2> HIDE DEF row
  <2>3. assistant' = [assistant EXCEPT ![r] = <<row>>]
    BY <2>1, <2>2
  <2>4. Outcome!Record(r)
    BY <1>s, <2>1, <2>2, <2>3, OutcomeRecord
  <2> QED  BY <2>4 DEF Outcome!Next
<1>3. CASE SavePartial(r)
  <2> DEFINE row == [status |-> "interrupted",
                     content |-> [from |-> "chunks", pieces |-> stream[r].chunks, attempt |-> 0]]
  <2>1. /\ stream[r].pc = "partial" /\ ToldStays /\ userMsg' = userMsg
        /\ assistant' = [assistant EXCEPT ![r] = Append(assistant[r], row)]
    BY <1>s, <1>3 DEF SavePartial, ToldStays
  <2>2. /\ assistant[r] = <<>> /\ stream[r].told = "none" /\ userMsg[r] # "none"
        /\ row.status = "interrupted"
    BY <1>s, <2>1 DEF RequestInv
  <2> HIDE DEF row
  <2>3. assistant' = [assistant EXCEPT ![r] = <<row>>]
    BY <2>1, <2>2
  <2>4. Outcome!Record(r)
    BY <1>s, <2>1, <2>2, <2>3, OutcomeRecord
  <2> QED  BY <2>4 DEF Outcome!Next
<1>4. CASE Announce(r)
  <2>1. /\ stream[r].pc = "stored" /\ stream'[r].told = stream[r].ev.type
        /\ \A x \in Request \ {r} : stream'[x].told = stream[x].told
        /\ UNCHANGED <<userMsg, assistant>>
    BY <1>s, <1>4 DEF Announce
  <2>2. /\ stream[r].ev.type \in Terminal /\ stream[r].told = "none"
        /\ Len(assistant[r]) = 1 /\ assistant[r][1].status = stream[r].ev.type
    BY <1>s, <2>1 DEF RequestInv
  <2>3. Outcome!Tell(r) \/ Outcome!Break(r)
    BY <2>1, <2>2, OutcomeTell
  <2> QED  BY <2>3 DEF Outcome!Next
<1> QED  BY <1>1, <1>2, <1>3, <1>4 DEF PublishStep, StreamStep, QuietStreamStep

\* A stream that is broken off: only a commit that was on its way records, and
\* only an exception of the handler breaks the response.
QuietFault(r) ==
  Disconnected(r) \/ CancelInBroker(r) \/ CancelInHandler(r) \/ SavePartialRaises(r)

LEMMA OutcomeFault ==
  ASSUME TypeOK, StreamInv, NEW r \in Request, StreamFault(r)
  PROVE  [Outcome!Next]_(Outcome!vars)
<1> USE DEF dbVars, backendVars, Goto, At, Finish
<1>s. /\ stream \in [Request -> Stream] /\ \A x \in Request : "told" \in DOMAIN stream[x]
      /\ assistant \in [Request -> Seq(Row)] /\ RequestInv(r)
  BY DEF TypeOK, Stream, StreamInv
<1>1. CASE QuietFault(r)
  <2>1. UNCHANGED <<userMsg, assistant>> /\ \E pc : stream' = [stream EXCEPT ![r].pc = pc]
    BY <1>1 DEF QuietFault, Disconnected, CancelInBroker, CancelInHandler, SavePartialRaises
  <2>2. ToldStays
    BY <1>s, <2>1 DEF ToldStays
  <2> QED  BY <2>1, <2>2, OutcomeQuiet
<1>2. CASE CancelAfterCommit(r)
  <2> DEFINE row == [status |-> stream[r].ev.type, content |-> FinalContent(stream[r])]
  <2>1. /\ stream[r].pc = "storing" /\ ToldStays /\ userMsg' = userMsg
        /\ assistant' = [assistant EXCEPT ![r] = Append(assistant[r], row)]
    BY <1>s, <1>2 DEF CancelAfterCommit, InsertFinal, ToldStays
  <2>2. /\ assistant[r] = <<>> /\ stream[r].told = "none" /\ userMsg[r] # "none"
        /\ row.status \in Terminal
    BY <1>s, <2>1 DEF RequestInv
  <2> HIDE DEF row
  <2>3. assistant' = [assistant EXCEPT ![r] = <<row>>]
    BY <2>1, <2>2
  <2>4. Outcome!Record(r)
    BY <1>s, <2>1, <2>2, <2>3, OutcomeRecord
  <2> QED  BY <2>4 DEF Outcome!Next
<1>3. CASE StoreRaises(r) \/ PublishRaises(r) \/ SubmitRaises(r)
  <2>1. /\ stream[r].pc \in {"storing", "stored", "publish", "accepted"}
        /\ UNCHANGED <<userMsg, assistant>>
        /\ stream'[r].told = "broken"
        /\ \A x \in Request \ {r} : stream'[x].told = stream[x].told
    BY <1>s, <1>3 DEF StoreRaises, PublishRaises, SubmitRaises
  <2>2. stream[r].told = "none" /\ userMsg[r] # "none"
    BY <1>s, <2>1 DEF RequestInv
  <2>3. Outcome!Tell(r) \/ Outcome!Break(r)
    BY <2>1, <2>2, OutcomeTell
  <2> QED  BY <2>3 DEF Outcome!Next
<1> QED  BY <1>1, <1>2, <1>3 DEF StreamFault, QuietFault

LEMMA OutcomeSubmit ==
  ASSUME TypeOK, StreamInv, NEW r \in Request, Submit(r)
  PROVE  [Outcome!Next]_(Outcome!vars)
<1> USE DEF Goto, At
<1> DEFINE accepted == {x \in Request : userMsg[x] # "none"}
           after == {x \in Request : userMsg'[x] # "none"}
<1>1. stream[r].pc = "idle" /\ assistant' = assistant /\ stream' = [stream EXCEPT ![r].pc = "accepted"]
      /\ userMsg' = [userMsg EXCEPT ![r] = "submitted"]
  BY DEF Submit
<1>2. userMsg[r] = "none"
  BY <1>1 DEF StreamInv, RequestInv
<1>3. r \notin accepted /\ after = accepted \cup {r}
  BY <1>1, <1>2 DEF TypeOK
<1>4. ToldStays
  BY <1>1 DEF ToldStays, TypeOK, Stream
<1>5. [x \in Request |-> stream'[x].told] = [x \in Request |-> stream[x].told]
  BY <1>4 DEF ToldStays
<1> HIDE DEF accepted, after
<1>6. Outcome!Accept(r)
  BY <1>1, <1>3, <1>5 DEF Outcome!Accept, accepted, after
<1> QED  BY <1>6 DEF Outcome!Next

LEMMA OutcomeOther ==
  ASSUME TypeOK,
         \/ \E r \in Request : Release(r) \/ ConsumeReply(r) \/ Deliver(r)
         \/ \E r \in Request, a \in Attempt : JobStep(r, a) \/ JobFault(r, a)
         \/ BackendCrash \/ WorkerCrash \/ ChannelLost \/ UNCHANGED vars
  PROVE  UNCHANGED Outcome!vars
<1> USE DEF dbVars, backendVars
<1>1. CASE BackendCrash
  <2>1. UNCHANGED <<userMsg, assistant>>
    BY <1>1 DEF BackendCrash
  <2>2. ToldStays
    BY <1>1 DEF BackendCrash, ToldStays, TypeOK, Stream
  <2> QED  BY <2>1, <2>2, OutcomeQuiet
<1>2. CASE ~BackendCrash
  <2>1. UNCHANGED <<userMsg, assistant, stream>>
    BY <1>2 DEF Release, ConsumeReply, Deliver, JobStep, JobFault, AgentReturns, AgentRaises,
       PublishChunk, PublishEnd, SendRaises, PublishFailed, Ack, Reject, WorkerCrash,
       ChannelLost, vars
  <2> QED  BY <2>1, OutcomeQuiet DEF ToldStays
<1> QED  BY <1>1, <1>2

\* The rows and notifications of every request, through crashes, cancellations,
\* redeliveries and late replies, are a behaviour of ChatOutcome: one row at
\* most, no end told but the one on record, and nothing recorded once a client
\* was told an end or its response broke off (_event_stream).
THEOREM OutcomeKept == Spec => ImplementsOutcome
<1>1. Init => Outcome!Init
  <2> SUFFICES ASSUME Init PROVE Outcome!Init
    OBVIOUS
  <2>1. \A r \in Request : userMsg[r] = "none" /\ assistant[r] = <<>> /\ stream[r].told = "none"
    BY DEF Init, NoStream
  <2>2. {r \in Request : userMsg[r] # "none"} = {}
    BY <2>1
  <2>3. \A r \in Request : [i \in 1 .. Len(assistant[r]) |-> assistant[r][i].status] = <<>>
    BY <2>1, StatusOfNone
  <2> QED  BY <2>1, <2>2, <2>3 DEF Outcome!Init
<1>2. TypeOK /\ StreamInv /\ [Next]_vars => [Outcome!Next]_(Outcome!vars)
  BY OutcomeStream, OutcomeFault, OutcomeSubmit, OutcomeOther DEF Next
<1> QED  BY <1>1, <1>2, StreamInvariant, PTL DEF Spec, ImplementsOutcome, Outcome!Spec

-----------------------------------------------------------------------------
(***************************************************************************)
(* The order of fragments.  While the loop runs, what was shown is 1, 2,   *)
(* ..., next - 1 and what waits is numbered from next on, once each; what  *)
(* waits when the loop ends comes after all that was shown.                *)
(***************************************************************************)
InLoop == {"idle", "accepted", "publish", "wait", "got", "drain", "partial"}

Ordered(s) ==
  /\ \A i, j \in 1 .. Len(s.chunks) : i < j => s.chunks[i].seq < s.chunks[j].seq
  /\ s.next - 1 <= Len(s.chunks)
  /\ \A i \in 1 .. s.next - 1 : s.chunks[i].seq = i
  /\ \A p \in s.buffer : p.seq >= s.next
  /\ \A p, q \in s.buffer : p.seq = q.seq => p = q
  /\ \A i \in 1 .. Len(s.chunks), p \in s.buffer : s.chunks[i].seq < p.seq
  /\ s.pc \in InLoop => Len(s.chunks) = s.next - 1
  /\ s.pc = "partial" => s.chunks # <<>>

OrderInv == \A r \in Request : Ordered(stream[r])

\* A step that shows nothing and keeps nothing.
LEMMA OrderedGoto ==
  ASSUME NEW s, NEW t, Ordered(s),
         t.chunks = s.chunks, t.next = s.next, t.buffer = s.buffer,
         t.pc \in InLoop => s.pc \in InLoop,
         t.pc = "partial" => s.chunks # <<>>
  PROVE  Ordered(t)
BY DEF Ordered

\* A chunk that is new, or takes the place of one with its number.
LEMMA OrderedChunk ==
  ASSUME NEW s \in Stream, NEW t, NEW q \in Piece, Ordered(s), s.pc \in InLoop,
         t.chunks = s.chunks, t.next = s.next, t.pc = "drain",
         t.buffer = {x \in s.buffer : x.seq # q.seq} \cup {q}, q.seq >= s.next
  PROVE  Ordered(t)
<1>1. /\ s.next \in Nat /\ Len(s.chunks) = s.next - 1
      /\ \A i \in 1 .. Len(s.chunks) : s.chunks[i].seq = i
      /\ \A p \in s.buffer \cup {q} : p.seq \in Nat /\ p.seq >= s.next
  BY ChatStreamAssumption DEF Stream, Piece, Ordered
<1>2. \A i \in 1 .. Len(t.chunks), p \in t.buffer : t.chunks[i].seq < p.seq
  BY <1>1
<1>3. \A p, x \in t.buffer : p.seq = x.seq => p = x
  BY DEF Ordered
<1> QED  BY <1>1, <1>2, <1>3 DEF Ordered

\* The end of a longer sequence.
LEMMA Appended ==
  ASSUME NEW c \in Seq(Piece), NEW p \in Piece
  PROVE  /\ Len(Append(c, p)) = Len(c) + 1 /\ Len(c) \in Nat
         /\ Append(c, p)[Len(c) + 1] = p
         /\ \A i \in 1 .. Len(c) : Append(c, p)[i] = c[i]
OBVIOUS

LEMMA OrderedDrain ==
  ASSUME NEW s \in Stream, NEW t, NEW p \in s.buffer, Ordered(s), s.pc = "drain",
         p.seq = s.next, t.chunks = Append(s.chunks, p), t.next = s.next + 1,
         t.buffer = s.buffer \ {p}, t.pc = "drain"
  PROVE  Ordered(t)
<1> DEFINE n == Len(s.chunks)
<1>1. /\ s.next \in Nat /\ s.next >= 1 /\ n = s.next - 1 /\ n \in Nat
      /\ \A i \in 1 .. n : s.chunks[i].seq = i
      /\ p \in Piece /\ s.chunks \in Seq(Piece)
      /\ \A q \in s.buffer : q.seq \in Nat /\ q.seq >= s.next
  BY ChatStreamAssumption DEF Stream, Piece, Ordered, InLoop
<1>2. /\ Len(t.chunks) = n + 1 /\ t.chunks[n + 1] = p
      /\ \A i \in 1 .. n : t.chunks[i] = s.chunks[i]
  BY <1>1, Appended
<1> HIDE DEF n
<1>3. \A i \in 1 .. n + 1 : t.chunks[i].seq = i
  BY <1>1, <1>2
<1>4. \A q \in t.buffer : q.seq \in Nat /\ q.seq >= n + 2
  BY <1>1 DEF Ordered
<1>5. \A q, x \in t.buffer : q.seq = x.seq => q = x
  BY DEF Ordered
<1>6. \A i \in 1 .. n + 1, q \in t.buffer : t.chunks[i].seq < q.seq
  <2> SUFFICES ASSUME NEW i \in 1 .. n + 1, NEW q \in t.buffer
               PROVE  t.chunks[i].seq < q.seq
    OBVIOUS
  <2>1. t.chunks[i].seq = i /\ q.seq \in Nat /\ q.seq >= n + 2
    BY <1>3, <1>4
  <2> QED  BY <1>1, <2>1
<1>7. \A i, j \in 1 .. n + 1 : i < j => t.chunks[i].seq < t.chunks[j].seq
  <2> SUFFICES ASSUME NEW i \in 1 .. n + 1, NEW j \in 1 .. n + 1, i < j
               PROVE  t.chunks[i].seq < t.chunks[j].seq
    OBVIOUS
  <2>1. t.chunks[i].seq = i /\ t.chunks[j].seq = j
    BY <1>3
  <2> QED  BY <2>1
<1>8. t.next = n + 2 /\ t.next - 1 = n + 1
  BY <1>1
<1>9. \A q \in t.buffer : q.seq >= t.next
  BY <1>4, <1>8
<1>10. t.next - 1 <= Len(t.chunks)
  BY <1>1, <1>2, <1>8
<1> QED  BY <1>2, <1>3, <1>5, <1>6, <1>7, <1>8, <1>9, <1>10 DEF Ordered

\* What is left over is shown from its lowest number on.
LEMMA OrderedFlush ==
  ASSUME NEW s \in Stream, NEW t, NEW p \in s.buffer, Ordered(s), s.pc = "flush",
         \A q \in s.buffer : p.seq <= q.seq,
         t.chunks = Append(s.chunks, p), t.next = s.next, t.buffer = s.buffer \ {p},
         t.pc = "flush"
  PROVE  Ordered(t)
<1> DEFINE n == Len(s.chunks)
<1>1. /\ s.next \in Nat /\ n \in Nat /\ s.next - 1 <= n
      /\ p \in Piece /\ s.chunks \in Seq(Piece)
      /\ \A q \in s.buffer : q.seq \in Nat /\ q.seq >= s.next
      /\ \A i \in 1 .. n : s.chunks[i].seq \in Nat
  <2>1. /\ s.next \in Nat /\ s.chunks \in Seq(Piece) /\ p \in Piece
        /\ s.buffer \subseteq Piece
    BY ChatStreamAssumption DEF Stream
  <2>2. \A x \in Piece : x.seq \in Nat
    BY ChatStreamAssumption DEF Piece
  <2>3. n \in Nat /\ \A i \in 1 .. n : s.chunks[i] \in Piece
    BY <2>1
  <2>4. s.next - 1 <= n /\ \A q \in s.buffer : q.seq >= s.next
    BY DEF Ordered
  <2> HIDE DEF n
  <2> QED  BY <2>1, <2>2, <2>3, <2>4
<1>2. /\ Len(t.chunks) = n + 1 /\ t.chunks[n + 1] = p
      /\ \A i \in 1 .. n : t.chunks[i] = s.chunks[i]
  BY <1>1, Appended
<1>3. \A i \in 1 .. n, q \in s.buffer : s.chunks[i].seq < q.seq
  BY DEF Ordered
<1>4. \A q \in t.buffer : p.seq < q.seq
  BY <1>1 DEF Ordered
<1>5. \A i, j \in 1 .. n : i < j => s.chunks[i].seq < s.chunks[j].seq
  BY DEF Ordered
<1>6. \A i \in 1 .. s.next - 1 : s.chunks[i].seq = i
  BY DEF Ordered
<1>7. \A q, x \in t.buffer : q.seq = x.seq => q = x
  BY DEF Ordered
<1> HIDE DEF n
<1>8. \A i, j \in 1 .. n + 1 : i < j => t.chunks[i].seq < t.chunks[j].seq
  <2> SUFFICES ASSUME NEW i \in 1 .. n + 1, NEW j \in 1 .. n + 1, i < j
               PROVE  t.chunks[i].seq < t.chunks[j].seq
    OBVIOUS
  <2>1. i \in 1 .. n
    BY <1>1
  <2>2. CASE j = n + 1
    BY <1>2, <1>3, <2>1, <2>2
  <2>3. CASE j \in 1 .. n
    BY <1>2, <1>5, <2>1, <2>3
  <2>4. j = n + 1 \/ j \in 1 .. n
    BY <1>1
  <2> QED  BY <2>2, <2>3, <2>4
<1>9. \A i \in 1 .. n + 1, q \in t.buffer : t.chunks[i].seq < q.seq
  <2> SUFFICES ASSUME NEW i \in 1 .. n + 1, NEW q \in t.buffer
               PROVE  t.chunks[i].seq < q.seq
    OBVIOUS
  <2>1. CASE i = n + 1
    BY <1>2, <1>4, <2>1
  <2>2. CASE i \in 1 .. n
    <3>1. t.chunks[i] = s.chunks[i] /\ q \in s.buffer
      BY <1>2, <2>2
    <3>2. s.chunks[i].seq < q.seq
      BY <1>3, <2>2, <3>1
    <3> QED  BY <3>1, <3>2
  <2>3. i = n + 1 \/ i \in 1 .. n
    BY <1>1
  <2> QED  BY <2>1, <2>2, <2>3
<1>10. \A i \in 1 .. s.next - 1 : t.chunks[i].seq = i
  BY <1>1, <1>2, <1>6
<1> QED  BY <1>1, <1>2, <1>4, <1>7, <1>8, <1>9, <1>10 DEF Ordered, InLoop

LEMMA OrderFrame ==
  ASSUME OrderInv, NEW r \in Request, Ordered(stream'[r]),
         \A x \in Request \ {r} : stream'[x] = stream[x]
  PROVE  OrderInv'
BY DEF OrderInv

LEMMA OrderStreamStep ==
  ASSUME TypeOK, OrderInv, NEW r \in Request, PublishStep(r) \/ StreamStep(r)
  PROVE  OrderInv'
<1> USE DEF Goto, At
<1>s. /\ stream \in [Request -> Stream] /\ stream[r] \in Stream /\ Ordered(stream[r])
      /\ DOMAIN stream[r] = {"pc", "next", "buffer", "chunks", "ev", "told"}
  BY DEF TypeOK, OrderInv, Stream
<1>f. \A x \in Request \ {r} : stream'[x] = stream[x]
  BY <1>s DEF PublishStep, StreamStep, StartStream, PublishArrives, PublishReturns, Receive, Timeout,
     HandleChunk, Drain, DrainDone, HandleTerminal, Flush, FlushDone, Store, Announce,
     SavePartial, backendVars
<1>1. CASE PublishArrives(r)
  BY <1>1 DEF PublishArrives, backendVars, OrderInv
<1>2. CASE StartStream(r)
  <2>1. Ordered(stream'[r])
    BY <1>s, <1>2, OrderedGoto DEF StartStream, InLoop
  <2> QED  BY <1>f, <2>1, OrderFrame
<1>3. CASE PublishReturns(r)
  <2>1. Ordered(stream'[r])
    BY <1>s, <1>3, OrderedGoto DEF PublishReturns, InLoop
  <2> QED  BY <1>f, <2>1, OrderFrame
<1>4. CASE Receive(r)
  <2>1. Ordered(stream'[r])
    BY <1>s, <1>4, OrderedGoto DEF Receive, InLoop
  <2> QED  BY <1>f, <2>1, OrderFrame
<1>5. CASE Timeout(r)
  <2>1. Ordered(stream'[r])
    BY <1>s, <1>5, OrderedGoto DEF Timeout, InLoop
  <2> QED  BY <1>f, <2>1, OrderFrame
<1>6. CASE DrainDone(r)
  <2>1. Ordered(stream'[r])
    BY <1>s, <1>6, OrderedGoto DEF DrainDone, InLoop
  <2> QED  BY <1>f, <2>1, OrderFrame
<1>7. CASE HandleTerminal(r)
  <2>1. Ordered(stream'[r])
    BY <1>s, <1>7, OrderedGoto DEF HandleTerminal, InLoop
  <2> QED  BY <1>f, <2>1, OrderFrame
<1>8. CASE FlushDone(r)
  <2>1. Ordered(stream'[r])
    BY <1>s, <1>8, OrderedGoto DEF FlushDone, InLoop
  <2> QED  BY <1>f, <2>1, OrderFrame
<1>9. CASE Store(r)
  <2>1. Ordered(stream'[r])
    BY <1>s, <1>9, OrderedGoto DEF Store, InLoop
  <2> QED  BY <1>f, <2>1, OrderFrame
<1>10. CASE Announce(r)
  <2>1. Ordered(stream'[r])
    BY <1>s, <1>10, OrderedGoto DEF Announce, InLoop
  <2> QED  BY <1>f, <2>1, OrderFrame
<1>11. CASE SavePartial(r)
  <2>1. Ordered(stream'[r])
    BY <1>s, <1>11, OrderedGoto DEF SavePartial, InLoop
  <2> QED  BY <1>f, <2>1, OrderFrame
<1>12. CASE HandleChunk(r)
  <2> DEFINE q == stream[r].ev.piece
             others == {x \in stream[r].buffer : x.seq # q.seq}
  <2>1. stream[r].pc = "got" /\ stream[r].ev.type = "chunk"
    BY <1>12 DEF HandleChunk
  <2>2. q \in Piece
    BY <1>s, <2>1, EventFields DEF Stream
  <2>3. \/ stream' = [stream EXCEPT ![r].pc = "wait", ![r].ev = NoEvent]
        \/ /\ ~(q.seq < stream[r].next)
           /\ stream' = [stream EXCEPT ![r].pc = "drain", ![r].ev = NoEvent,
                                       ![r].buffer = others \cup {q}]
    BY <1>12, Zenon DEF HandleChunk
  <2>4. CASE stream' = [stream EXCEPT ![r].pc = "wait", ![r].ev = NoEvent]
    <3>1. Ordered(stream'[r])
      BY <1>s, <2>1, <2>4, OrderedGoto DEF InLoop
    <3> QED  BY <1>f, <3>1, OrderFrame
  <2>5. CASE /\ ~(q.seq < stream[r].next)
             /\ stream' = [stream EXCEPT ![r].pc = "drain", ![r].ev = NoEvent,
                                         ![r].buffer = others \cup {q}]
    <3>1. q.seq >= stream[r].next
      BY <1>s, <2>2, <2>5, ChatStreamAssumption DEF Stream, Piece
    <3> HIDE DEF q
    <3>2. /\ stream'[r].chunks = stream[r].chunks /\ stream'[r].next = stream[r].next
          /\ stream'[r].pc = "drain" /\ stream'[r].buffer = others \cup {q}
      BY <1>s, <2>5
    <3>3. Ordered(stream'[r])
      BY <1>s, <2>1, <2>2, <3>1, <3>2, OrderedChunk DEF InLoop
    <3> QED  BY <1>f, <3>3, OrderFrame
  <2> QED  BY <2>3, <2>4, <2>5
<1>13. CASE Drain(r)
  <2>1. PICK p \in stream[r].buffer :
          /\ p.seq = stream[r].next
          /\ stream' = [stream EXCEPT ![r].buffer = @ \ {p},
                                      ![r].chunks = Append(@, p),
                                      ![r].next = @ + 1]
    BY <1>13 DEF Drain
  <2>2. /\ stream[r].pc = "drain" /\ stream'[r].pc = "drain"
        /\ stream'[r].chunks = Append(stream[r].chunks, p)
        /\ stream'[r].next = stream[r].next + 1
        /\ stream'[r].buffer = stream[r].buffer \ {p}
    BY <1>s, <1>13, <2>1 DEF Drain
  <2>3. Ordered(stream'[r])
    BY <1>s, <2>1, <2>2, OrderedDrain
  <2> QED  BY <1>f, <2>3, OrderFrame
<1>14. CASE Flush(r)
  <2>1. PICK p \in stream[r].buffer :
          /\ \A q \in stream[r].buffer : p.seq <= q.seq
          /\ stream' = [stream EXCEPT ![r].buffer = @ \ {p},
                                      ![r].chunks = Append(@, p)]
    BY <1>14 DEF Flush
  <2>2. /\ stream[r].pc = "flush" /\ stream'[r].pc = "flush"
        /\ stream'[r].chunks = Append(stream[r].chunks, p)
        /\ stream'[r].next = stream[r].next
        /\ stream'[r].buffer = stream[r].buffer \ {p}
    BY <1>s, <1>14, <2>1 DEF Flush
  <2>3. Ordered(stream'[r])
    BY <1>s, <2>1, <2>2, OrderedFlush
  <2> QED  BY <1>f, <2>3, OrderFrame
<1> QED
  BY <1>1, <1>2, <1>3, <1>4, <1>5, <1>6, <1>7, <1>8, <1>9, <1>10, <1>11, <1>12, <1>13, <1>14
     DEF PublishStep, StreamStep

LEMMA OrderOtherStep ==
  ASSUME TypeOK, OrderInv,
         \/ \E r \in Request : StreamFault(r) \/ Submit(r) \/ Release(r)
                               \/ ConsumeReply(r) \/ Deliver(r)
         \/ \E r \in Request, a \in Attempt : JobStep(r, a) \/ JobFault(r, a)
         \/ BackendCrash \/ WorkerCrash \/ ChannelLost \/ UNCHANGED vars
  PROVE  OrderInv'
<1> USE DEF Goto, At
<1>s. /\ stream \in [Request -> Stream]
      /\ \A x \in Request : /\ Ordered(stream[x])
                            /\ DOMAIN stream[x] = {"pc", "next", "buffer", "chunks", "ev", "told"}
  BY DEF TypeOK, OrderInv, Stream
<1>1. ASSUME NEW r \in Request, StreamFault(r)  PROVE OrderInv'
  <2>f. \A x \in Request \ {r} : stream'[x] = stream[x]
    BY <1>s, <1>1 DEF StreamFault, SubmitRaises, PublishRaises, Disconnected, CancelInBroker,
       CancelInHandler, CancelAfterCommit, StoreRaises, SavePartialRaises, Finish
  <2>1. /\ stream'[r].chunks = stream[r].chunks /\ stream'[r].next = stream[r].next
        /\ stream'[r].buffer = stream[r].buffer
    BY <1>s, <1>1 DEF StreamFault, SubmitRaises, PublishRaises, Disconnected, CancelInBroker,
       CancelInHandler, CancelAfterCommit, StoreRaises, SavePartialRaises, Finish
  <2>2. \/ stream'[r].pc = "ended"
        \/ stream'[r].pc = "partial" /\ SavesPartial(r) /\ stream[r].pc \in InLoop
    BY <1>s, <1>1 DEF StreamFault, SubmitRaises, PublishRaises, Disconnected, CancelInBroker,
       CancelInHandler, CancelAfterCommit, StoreRaises, SavePartialRaises, Finish,
       SavesPartial, InLoop
  <2>3. Ordered(stream'[r])
    BY <1>s, <2>1, <2>2, OrderedGoto DEF SavesPartial, InLoop
  <2> QED  BY <2>f, <2>3, OrderFrame
<1>2. ASSUME NEW r \in Request, Submit(r)  PROVE OrderInv'
  <2>1. Ordered(stream'[r])
    BY <1>s, <1>2, OrderedGoto DEF Submit, InLoop
  <2>2. \A x \in Request \ {r} : stream'[x] = stream[x]
    BY <1>s, <1>2 DEF Submit
  <2> QED  BY <2>1, <2>2, OrderFrame
<1>3. CASE BackendCrash
  <2> SUFFICES ASSUME NEW x \in Request  PROVE Ordered(stream'[x])
    BY DEF OrderInv
  <2>1. CASE Live(x)
    BY <1>s, <1>3, <2>1, OrderedGoto DEF BackendCrash, InLoop
  <2>2. CASE ~Live(x)
    BY <1>s, <1>3, <2>2 DEF BackendCrash
  <2> QED  BY <2>1, <2>2
<1>4. CASE \/ \E r \in Request : Release(r) \/ ConsumeReply(r) \/ Deliver(r)
           \/ \E r \in Request, a \in Attempt : JobStep(r, a) \/ JobFault(r, a)
           \/ WorkerCrash \/ ChannelLost \/ UNCHANGED vars
  <2>1. UNCHANGED stream
    BY <1>4 DEF Release, ConsumeReply, Deliver, JobStep, JobFault, AgentReturns, AgentRaises,
       PublishChunk, PublishEnd, SendRaises, PublishFailed, Ack, Reject, WorkerCrash,
       ChannelLost, vars, backendVars
  <2> QED  BY <2>1 DEF OrderInv
<1> QED  BY <1>1, <1>2, <1>3, <1>4

LEMMA OrderKept == Spec => []OrderInv
<1>1. Init => OrderInv
  <2> SUFFICES ASSUME Init, NEW r \in Request  PROVE Ordered(stream[r])
    BY DEF OrderInv
  <2>1. stream[r] = NoStream
    BY DEF Init
  <2> QED  BY <2>1 DEF NoStream, Ordered
<1>2. TypeOK /\ OrderInv /\ [Next]_vars => OrderInv'
  BY OrderStreamStep, OrderOtherStep DEF Next
<1> QED  BY <1>1, <1>2, TypeCorrect, PTL DEF Spec

\* Fragments are shown in order, without a gap until the terminal event has
\* come, whatever overtakes, repeats or is published again (_event_stream).
THEOREM FragmentsInOrder == Spec => []ChunksInOrder
<1>1. OrderInv => ChunksInOrder
  BY DEF OrderInv, Ordered, ChunksInOrder, InLoop
<1> QED  BY <1>1, OrderKept, PTL

\* Rows are only ever added, and one that says "interrupted" only from a stream
\* that was broken off while its fragments were whole.
LEMMA PrefixRow ==
  ASSUME TypeOK, InterruptedIsPrefix, NEW r \in Request, NEW row \in Row,
         assistant[r] = <<>>,
         assistant' = [assistant EXCEPT ![r] = Append(assistant[r], row)],
         row.status = "interrupted" =>
           /\ row.content.pieces # <<>>
           /\ \A k \in 1 .. Len(row.content.pieces) : row.content.pieces[k].seq = k
  PROVE  InterruptedIsPrefix'
<1>1. /\ Append(assistant[r], row) = <<row>>
      /\ assistant'[r] = Append(assistant[r], row)
      /\ \A x \in Request \ {r} : assistant'[x] = assistant[x]
  BY DEF TypeOK
<1> QED
  <2> SUFFICES ASSUME NEW x \in Request, NEW i \in 1 .. Len(assistant'[x]),
                      assistant'[x][i].status = "interrupted"
               PROVE  LET ps == assistant'[x][i].content.pieces
                      IN  ps # <<>> /\ \A k \in 1 .. Len(ps) : ps[k].seq = k
    BY DEF InterruptedIsPrefix
  <2>1. CASE x = r
    <3>1. assistant'[x] = <<row>> /\ i = 1
      BY <1>1, <2>1
    <3> QED  BY <3>1
  <2>2. CASE x # r
    BY <1>1, <2>2 DEF InterruptedIsPrefix
  <2> QED  BY <2>1, <2>2

LEMMA PrefixStep ==
  ASSUME TypeOK, StreamInv, OrderInv, InterruptedIsPrefix, [Next]_vars
  PROVE  InterruptedIsPrefix'
<1> DEFINE final(r) == [status |-> stream[r].ev.type, content |-> FinalContent(stream[r])]
           shown(r) == [status |-> "interrupted",
                        content |-> [from |-> "chunks", pieces |-> stream[r].chunks,
                                     attempt |-> 0]]
<1>t. \A r \in Request : stream[r] \in Stream
  BY DEF TypeOK
<1>1. ASSUME NEW r \in Request, Store(r) \/ CancelAfterCommit(r)
      PROVE  InterruptedIsPrefix'
  <2>1. /\ stream[r].pc = "storing"
        /\ assistant' = [assistant EXCEPT ![r] = Append(assistant[r], final(r))]
    BY <1>1 DEF Store, CancelAfterCommit, InsertFinal, At
  <2>2. stream[r].ev.type \in Terminal /\ assistant[r] = <<>>
    BY <2>1 DEF StreamInv, RequestInv
  <2>3. final(r) \in Row /\ final(r).status # "interrupted"
    BY <1>t, <2>2, FinalRow DEF Terminal
  <2> HIDE DEF final
  <2> QED  BY <2>1, <2>2, <2>3, PrefixRow
<1>2. ASSUME NEW r \in Request, SavePartial(r)
      PROVE  InterruptedIsPrefix'
  <2>1. /\ stream[r].pc = "partial"
        /\ assistant' = [assistant EXCEPT ![r] = Append(assistant[r], shown(r))]
    BY <1>2 DEF SavePartial, At
  <2>2. assistant[r] = <<>>
    BY <2>1 DEF StreamInv, RequestInv
  <2>3. /\ stream[r].chunks # <<>>
        /\ \A k \in 1 .. Len(stream[r].chunks) : stream[r].chunks[k].seq = k
    BY <2>1 DEF OrderInv, Ordered, InLoop
  <2>4. shown(r) \in Row /\ shown(r).content.pieces = stream[r].chunks
    BY <1>t, PartialRow
  <2> HIDE DEF shown
  <2> QED  BY <2>1, <2>2, <2>3, <2>4, PrefixRow
<1>3. CASE UNCHANGED assistant
  BY <1>3 DEF InterruptedIsPrefix
<1>4. \/ UNCHANGED assistant
      \/ \E r \in Request : Store(r) \/ CancelAfterCommit(r) \/ SavePartial(r)
  BY DEF Next, vars, dbVars, Submit, PublishStep, StreamStep, StartStream, PublishArrives,
     PublishReturns, Receive, Timeout, HandleChunk, Drain, DrainDone, HandleTerminal,
     Flush, FlushDone, Announce, StreamFault, SubmitRaises, PublishRaises, Disconnected,
     CancelInBroker, CancelInHandler, StoreRaises, SavePartialRaises, Release,
     ConsumeReply, Deliver, JobStep, JobFault, AgentReturns, AgentRaises, PublishChunk,
     PublishEnd, SendRaises, PublishFailed, Ack, Reject, BackendCrash, WorkerCrash,
     ChannelLost
<1> QED  BY <1>1, <1>2, <1>3, <1>4

\* A row marked interrupted holds a prefix of an answer without gaps, whatever
\* broke the stream off (the finally block of _event_stream).
THEOREM PartsArePrefixes == Spec => []InterruptedIsPrefix
<1>1. Init => InterruptedIsPrefix
  BY DEF Init, InterruptedIsPrefix
<1>2. TypeOK /\ StreamInv /\ OrderInv /\ InterruptedIsPrefix /\ [Next]_vars
        => InterruptedIsPrefix'
  BY PrefixStep
<1> QED  BY <1>1, <1>2, StreamInvariant, OrderKept, PTL DEF Spec

-----------------------------------------------------------------------------
(***************************************************************************)
(* Where an answer comes from: every terminal event that says how an       *)
(* answer ended, wherever it is on its way, names a delivery whose         *)
(* coroutine had published all of its chunks, and will publish no more.    *)
(***************************************************************************)
Answered == {"completed", "confirmation_required"}

Done(r, a, kind) ==
  /\ a \in 1 .. delivered[r]
  /\ job[r][a].pc \in {"ack", "failing", "done"}
  /\ job[r][a].kind = kind
  /\ job[r][a].sent = ChunkCount(job[r][a].size)

Sourced(r) == {e \in Event : e.type \in Answered => Done(r, e.attempt, e.type)}
SourcedRow(r) ==
  {w \in Row : w.status \in Answered => Done(r, w.content.attempt, w.status)}

JobsDelivered ==
  \A r \in Request, a \in Attempt :
    /\ job[r][a].pc # "none" => a <= delivered[r]
    /\ job[r][a].pc = "send" => job[r][a].sent <= ChunkCount(job[r][a].size)

SourceInv ==
  /\ JobsDelivered
  /\ \A r \in Request :
       /\ replies[r] \in Seq(Sourced(r))
       /\ events[r] \in Seq(Sourced(r))
       /\ stream[r].ev \in Sourced(r) \cup {NoEvent}
       /\ assistant[r] \in Seq(SourcedRow(r))

LEMMA SeqWidens ==
  ASSUME NEW S, NEW T, S \subseteq T, NEW s \in Seq(S)
  PROVE  s \in Seq(T)
OBVIOUS

\* What a step of a coroutine does to the coroutines.
LEMMA JobChange ==
  ASSUME TypeOK, NEW x \in Request, NEW b \in Attempt, JobStep(x, b) \/ JobFault(x, b)
  PROVE  /\ delivered' = delivered /\ job[x][b].pc # "none"
         /\ \E j \in Job :
              /\ job' = [job EXCEPT ![x][b] = j]
              /\ j.pc = "send" => j.sent <= ChunkCount(j.size)
              /\ \/ job[x][b].pc \in {"agent", "send"}
                 \/ /\ j.pc \in {"ack", "done"} /\ j.kind = job[x][b].kind
                    /\ j.sent = job[x][b].sent /\ j.size = job[x][b].size
<1> DEFINE k == job[x][b]
           to(p) == [k EXCEPT !.pc = p]
<1>j. k \in Job
  BY DEF TypeOK
<1>d. delivered' = delivered
  BY DEF JobStep, JobFault, AgentReturns, AgentRaises, PublishChunk, PublishEnd,
     SendRaises, PublishFailed, Ack, Reject
<1>t. \A p \in {"failing", "ack", "done"} :
        /\ to(p) \in Job /\ to(p).pc = p /\ to(p).kind = k.kind
        /\ to(p).sent = k.sent /\ to(p).size = k.size
  BY <1>j, JobPc DEF Job
<1>1. CASE AgentReturns(x, b)
  <2>1. PICK kind \in Kind, size \in Size :
          job' = [job EXCEPT ![x][b] = [pc |-> "send", kind |-> kind,
                                        size |-> size, sent |-> 0]]
    BY <1>1 DEF AgentReturns
  <2>2. k.pc = "agent"
    BY <1>1 DEF AgentReturns, JobAt
  <2>3. 0 <= ChunkCount(size)
    BY ChatStreamAssumption DEF ChunkCount
  <2> QED  BY <1>d, <2>1, <2>2, <2>3, JobAnswer
<1>2. CASE PublishChunk(x, b)
  <2>1. k.pc = "send" /\ k.sent < ChunkCount(k.size)
    BY <1>2 DEF PublishChunk, JobAt
  <2>2. [k EXCEPT !.sent = @ + 1] \in Job
    BY <1>j, <2>1, JobSent
  <2>3. job' = [job EXCEPT ![x][b] = [k EXCEPT !.sent = @ + 1]]
    BY <1>2 DEF PublishChunk, TypeOK
  <2>4. k.sent + 1 <= ChunkCount(k.size)
    BY <1>j, <2>1 DEF Job, ChunkCount
  <2>5. /\ [k EXCEPT !.sent = @ + 1].sent = k.sent + 1
        /\ [k EXCEPT !.sent = @ + 1].size = k.size
    BY <1>j DEF Job
  <2> QED  BY <1>d, <2>1, <2>2, <2>3, <2>4, <2>5
<1>3. ASSUME NEW p \in {"failing", "ack", "done"}, JobGoto(x, b, p),
             k.pc \in {"agent", "send"} \/ (k.pc # "none" /\ p \in {"ack", "done"})
      PROVE  /\ k.pc # "none"
             /\ \E j \in Job :
                  /\ job' = [job EXCEPT ![x][b] = j]
                  /\ j.pc # "send"
                  /\ \/ k.pc \in {"agent", "send"}
                     \/ /\ j.pc \in {"ack", "done"} /\ j.kind = k.kind
                        /\ j.sent = k.sent /\ j.size = k.size
  <2>1. job' = [job EXCEPT ![x][b] = to(p)]
    BY <1>3 DEF JobGoto, TypeOK
  <2>2. to(p) \in Job /\ to(p).pc = p /\ to(p).kind = k.kind /\ to(p).sent = k.sent
        /\ to(p).size = k.size
    BY <1>t
  <2> HIDE DEF to
  <2>3. k.pc # "none"
    BY <1>3
  <2> QED  BY <1>3, <2>1, <2>2, <2>3
<1>4. CASE PublishEnd(x, b) \/ AgentRaises(x, b) \/ SendRaises(x, b)
           \/ PublishFailed(x, b) \/ Ack(x, b) \/ Reject(x, b)
  <2>1. \E p \in {"failing", "ack", "done"} :
          /\ JobGoto(x, b, p)
          /\ k.pc \in {"agent", "send"} \/ (k.pc # "none" /\ p \in {"ack", "done"})
    <3>1. CASE PublishEnd(x, b) \/ AgentRaises(x, b) \/ SendRaises(x, b)
      BY <3>1 DEF PublishEnd, AgentRaises, SendRaises, JobAt
    <3>2. CASE PublishFailed(x, b) \/ Ack(x, b) \/ Reject(x, b)
      BY <3>2 DEF PublishFailed, Ack, Reject, JobAt
    <3> QED  BY <1>4, <3>1, <3>2
  <2>2. /\ k.pc # "none"
        /\ \E j \in Job :
             /\ job' = [job EXCEPT ![x][b] = j]
             /\ j.pc # "send"
             /\ \/ k.pc \in {"agent", "send"}
                \/ /\ j.pc \in {"ack", "done"} /\ j.kind = k.kind
                   /\ j.sent = k.sent /\ j.size = k.size
    BY <1>3, <2>1, Zenon
  <2> QED  BY <1>d, <2>2
<1> QED  BY <1>1, <1>2, <1>4 DEF JobStep, JobFault

\* A delivery that had published everything stays so.
LEMMA DoneStays ==
  ASSUME TypeOK, [Next]_vars, NEW r \in Request, NEW a, NEW kind, Done(r, a, kind)
  PROVE  Done(r, a, kind)'
<1>a. /\ a \in Attempt /\ a \in 1 .. delivered[r] /\ delivered[r] \in 0 .. MaxLosses + 1
      /\ job[r][a] \in Job
  BY ChatStreamAssumption DEF TypeOK, Done, Attempt
<1>1. CASE UNCHANGED <<job, delivered>>
  BY <1>1 DEF Done
<1>2. ASSUME NEW x \in Request, NEW b \in Attempt, JobStep(x, b) \/ JobFault(x, b)
      PROVE  Done(r, a, kind)'
  <2>1. PICK j \in Job :
          /\ job' = [job EXCEPT ![x][b] = j]
          /\ \/ job[x][b].pc \in {"agent", "send"}
             \/ /\ j.pc \in {"ack", "done"} /\ j.kind = job[x][b].kind
                /\ j.sent = job[x][b].sent /\ j.size = job[x][b].size
    BY <1>2, JobChange
  <2>2. delivered' = delivered
    BY <1>2, JobChange
  <2>3. CASE x = r /\ b = a
    <3>1. job'[r][a] = j
      BY <1>a, <2>1, <2>3 DEF TypeOK
    <3> QED  BY <2>1, <2>2, <2>3, <3>1 DEF Done
  <2>4. CASE ~(x = r /\ b = a)
    <3>1. job'[r][a] = job[r][a]
      BY <1>a, <2>1, <2>4 DEF TypeOK
    <3> QED  BY <2>2, <3>1 DEF Done
  <2> QED  BY <2>3, <2>4
<1>3. ASSUME NEW x \in Request, Deliver(x)  PROVE Done(r, a, kind)'
  <2>1. /\ job' = [job EXCEPT ![x][delivered[x] + 1].pc = "agent"]
        /\ delivered' = [delivered EXCEPT ![x] = @ + 1]
    BY <1>3 DEF Deliver
  <2>2. job'[r][a] = job[r][a]
    <3>1. CASE x = r
      BY <1>a, <2>1, <3>1 DEF TypeOK
    <3>2. CASE x # r
      BY <1>a, <2>1, <3>2 DEF TypeOK
    <3> QED  BY <3>1, <3>2
  <2>3. a \in 1 .. delivered'[r]
    BY <1>a, <2>1 DEF TypeOK
  <2> QED  BY <2>2, <2>3 DEF Done
<1>4. CASE WorkerCrash
  <2>1. job'[r][a] = [job[r][a] EXCEPT !.pc = "done"] /\ delivered' = delivered
    BY <1>4, <1>a DEF WorkerCrash, Done
  <2> QED  BY <1>a, <2>1 DEF Done, Job
<1>5. \/ UNCHANGED <<job, delivered>> \/ WorkerCrash
      \/ \E x \in Request : Deliver(x)
      \/ \E x \in Request, b \in Attempt : JobStep(x, b) \/ JobFault(x, b)
  BY DEF Next, vars, workerVars, Submit, PublishStep, StreamStep, StartStream, PublishArrives,
     PublishReturns, Receive, Timeout, HandleChunk, Drain, DrainDone, HandleTerminal,
     Flush, FlushDone, Store, Announce, SavePartial, StreamFault, SubmitRaises, PublishRaises,
     Disconnected, CancelInBroker, CancelInHandler, CancelAfterCommit, StoreRaises,
     SavePartialRaises, Release, ConsumeReply, BackendCrash, ChannelLost
<1> QED  BY <1>1, <1>2, <1>3, <1>4, <1>5

LEMMA SourcesStay ==
  ASSUME TypeOK, [Next]_vars, NEW r \in Request
  PROVE  Sourced(r) \subseteq Sourced(r)' /\ SourcedRow(r) \subseteq SourcedRow(r)'
<1>1. ASSUME NEW e \in Sourced(r)  PROVE e \in Sourced(r)'
  <2>1. CASE e.type \in Answered
    <3>1. e \in Event /\ Done(r, e.attempt, e.type)
      BY <2>1 DEF Sourced
    <3>2. Done(r, e.attempt, e.type)'
      BY <3>1, DoneStays
    <3> QED  BY <3>1, <3>2 DEF Sourced
  <2> QED  BY <2>1 DEF Sourced
<1>2. ASSUME NEW w \in SourcedRow(r)  PROVE w \in SourcedRow(r)'
  <2>1. CASE w.status \in Answered
    <3>1. w \in Row /\ Done(r, w.content.attempt, w.status)
      BY <2>1 DEF SourcedRow
    <3>2. Done(r, w.content.attempt, w.status)'
      BY <3>1, DoneStays
    <3> QED  BY <3>1, <3>2 DEF SourcedRow
  <2> QED  BY <2>1 DEF SourcedRow
<1> QED  BY <1>1, <1>2

\* Nothing is running for a delivery that has not been made.
LEMMA JobsStayDelivered ==
  ASSUME TypeOK, JobsDelivered, [Next]_vars
  PROVE  JobsDelivered'
<1>t. /\ job \in [Request -> [Attempt -> Job]]
      /\ \A r \in Request : delivered[r] \in 0 .. MaxLosses + 1
      /\ delivered \in [Request -> 0 .. MaxLosses + 1]
      /\ \A a \in Attempt : a \in Nat
  BY DEF TypeOK, Attempt
<1>1. CASE UNCHANGED <<job, delivered>>
  BY <1>1 DEF JobsDelivered
<1>2. ASSUME NEW x \in Request, NEW b \in Attempt, JobStep(x, b) \/ JobFault(x, b)
      PROVE  JobsDelivered'
  <2>1. PICK j \in Job : /\ job' = [job EXCEPT ![x][b] = j]
                         /\ j.pc = "send" => j.sent <= ChunkCount(j.size)
    BY <1>2, JobChange
  <2>2. delivered' = delivered /\ job[x][b].pc # "none"
    BY <1>2, JobChange
  <2> SUFFICES ASSUME NEW r \in Request, NEW a \in Attempt, job'[r][a].pc # "none"
               PROVE  /\ a <= delivered'[r]
                      /\ job'[r][a].pc = "send" =>
                           job'[r][a].sent <= ChunkCount(job'[r][a].size)
    BY DEF JobsDelivered
  <2>3. CASE x = r /\ b = a
    <3>1. job'[r][a] = j
      BY <1>t, <2>1, <2>3
    <3> QED  BY <2>1, <2>2, <2>3, <3>1 DEF JobsDelivered
  <2>4. CASE ~(x = r /\ b = a)
    <3>1. job'[r][a] = job[r][a]
      BY <1>t, <2>1, <2>4
    <3> QED  BY <2>2, <3>1 DEF JobsDelivered
  <2> QED  BY <2>3, <2>4
<1>3. ASSUME NEW x \in Request, Deliver(x)  PROVE JobsDelivered'
  <2>1. /\ job' = [job EXCEPT ![x][delivered[x] + 1].pc = "agent"]
        /\ delivered' = [delivered EXCEPT ![x] = @ + 1]
    BY <1>3 DEF Deliver
  <2> SUFFICES ASSUME NEW r \in Request, NEW a \in Attempt, job'[r][a].pc # "none"
               PROVE  /\ a <= delivered'[r]
                      /\ job'[r][a].pc = "send" =>
                           job'[r][a].sent <= ChunkCount(job'[r][a].size)
    BY DEF JobsDelivered
  <2>2. CASE x = r
    <3>1. delivered'[r] = delivered[r] + 1
      BY <1>t, <2>1, <2>2
    <3>2. CASE a = delivered[r] + 1
      <4>1. job'[r][a].pc = "agent"
        BY <1>t, <2>1, <2>2, <3>2 DEF Job
      <4> QED  BY <1>t, <3>1, <3>2, <4>1
    <3>3. CASE a # delivered[r] + 1
      <4>1. job'[r][a] = job[r][a]
        BY <1>t, <2>1, <2>2, <3>3
      <4>2. a <= delivered[r]
        BY <4>1 DEF JobsDelivered
      <4>3. job[r][a].pc = "send" => job[r][a].sent <= ChunkCount(job[r][a].size)
        BY DEF JobsDelivered
      <4> QED  BY <1>t, <3>1, <4>1, <4>2, <4>3
    <3> QED  BY <3>2, <3>3
  <2>3. CASE x # r
    <3>1. job'[r][a] = job[r][a] /\ delivered'[r] = delivered[r]
      BY <1>t, <2>1, <2>3
    <3> QED  BY <3>1 DEF JobsDelivered
  <2> QED  BY <2>2, <2>3
<1>4. CASE WorkerCrash
  <2>1. /\ delivered' = delivered
        /\ \A r \in Request, a \in Attempt :
             job'[r][a].pc # "none" => job[r][a].pc # "none" /\ job'[r][a].pc = "done"
    BY <1>4, <1>t DEF WorkerCrash, Job
  <2> QED  BY <2>1 DEF JobsDelivered
<1>5. \/ UNCHANGED <<job, delivered>> \/ WorkerCrash
      \/ \E x \in Request : Deliver(x)
      \/ \E x \in Request, b \in Attempt : JobStep(x, b) \/ JobFault(x, b)
  BY DEF Next, vars, workerVars, Submit, PublishStep, StreamStep, StartStream, PublishArrives,
     PublishReturns, Receive, Timeout, HandleChunk, Drain, DrainDone, HandleTerminal,
     Flush, FlushDone, Store, Announce, SavePartial, StreamFault, SubmitRaises, PublishRaises,
     Disconnected, CancelInBroker, CancelInHandler, CancelAfterCommit, StoreRaises,
     SavePartialRaises, Release, ConsumeReply, BackendCrash, ChannelLost
<1> QED  BY <1>1, <1>2, <1>3, <1>4, <1>5

\* What a coroutine publishes is sourced by the time it is published.
LEMMA PublishedSourced ==
  ASSUME TypeOK, JobsDelivered, NEW x \in Request, NEW b \in Attempt,
         JobStep(x, b) \/ JobFault(x, b)
  PROVE  replies' = replies \/ \E e \in Sourced(x)' : Reply(x, e)
<1>j. job[x][b] \in Job /\ delivered[x] \in Nat /\ b \in Nat /\ b >= 1
  BY ChatStreamAssumption DEF TypeOK, Attempt
<1>d. delivered' = delivered /\ job[x][b].pc # "none"
  BY JobChange
<1>b. b \in 1 .. delivered'[x]
  BY <1>j, <1>d DEF JobsDelivered
<1>1. ASSUME NEW e \in Event, e.type \notin Answered  PROVE e \in Sourced(x)'
  BY <1>1 DEF Sourced
<1>2. ASSUME Reply(x, ChunkOf(x, b)), job[x][b].sent < ChunkCount(job[x][b].size)
      PROVE  \E e \in Sourced(x)' : Reply(x, e)
  <2>1. ChunkOf(x, b) \in Event
    BY <1>j, <1>2, WorkerEvents
  <2>2. ChunkOf(x, b).type \notin Answered
    BY DEF ChunkOf, Answered
  <2> QED  BY <1>1, <1>2, <2>1, <2>2
<1>3. ASSUME Reply(x, EndOf(x, b)), job[x][b].sent = ChunkCount(job[x][b].size),
             JobGoto(x, b, "ack") \/ JobGoto(x, b, "failing")
      PROVE  \E e \in Sourced(x)' : Reply(x, e)
  <2>1. EndOf(x, b) \in Event
    BY <1>j, WorkerEvents
  <2>2. EndOf(x, b).type = job[x][b].kind /\ EndOf(x, b).attempt = b
    BY DEF EndOf
  <2>3. PICK p \in {"ack", "failing"} : JobGoto(x, b, p)
    BY <1>3
  <2>4. job'[x][b] = [job[x][b] EXCEPT !.pc = p]
    BY <2>3 DEF JobGoto, TypeOK
  <2>5. /\ job'[x][b].pc = p /\ job'[x][b].kind = job[x][b].kind
        /\ job'[x][b].sent = job[x][b].sent /\ job'[x][b].size = job[x][b].size
    BY <1>j, <2>4 DEF Job
  <2>6. \A kind : kind = job[x][b].kind => Done(x, b, kind)'
    BY <1>3, <1>b, <2>5 DEF Done
  <2>7. \A e \in Event : e.type = job[x][b].kind /\ e.attempt = b => e \in Sourced(x)'
    BY <2>6 DEF Sourced
  <2> QED  BY <1>3, <2>1, <2>2, <2>7
<1>4. CASE PublishChunk(x, b)
  BY <1>2, <1>4 DEF PublishChunk
<1>5. CASE PublishEnd(x, b)
  BY <1>3, <1>5 DEF PublishEnd
<1>6. CASE SendRaises(x, b)
  <2>1. \/ replies' = replies
        \/ /\ job[x][b].sent < ChunkCount(job[x][b].size)
           /\ Reply(x, ChunkOf(x, b))
        \/ /\ ~(job[x][b].sent < ChunkCount(job[x][b].size))
           /\ Reply(x, EndOf(x, b))
    BY <1>6 DEF SendRaises
  <2>2. JobGoto(x, b, "failing") /\ job[x][b].pc = "send"
    BY <1>6 DEF SendRaises, JobAt
  <2>3. CASE ~(job[x][b].sent < ChunkCount(job[x][b].size)) /\ Reply(x, EndOf(x, b))
    <3>1. job[x][b].sent <= ChunkCount(job[x][b].size)
      BY <2>2 DEF JobsDelivered
    <3>2. job[x][b].sent = ChunkCount(job[x][b].size)
      BY <1>j, <2>3, <3>1 DEF Job, ChunkCount
    <3> QED  BY <1>3, <2>2, <2>3, <3>2
  <2> QED  BY <1>2, <2>1, <2>3
<1>7. CASE PublishFailed(x, b)
  <2>1. Reply(x, [type |-> "failed", attempt |-> b, text |-> FALSE])
    BY <1>7 DEF PublishFailed
  <2>2. [type |-> "failed", attempt |-> b, text |-> FALSE] \in Event
    BY FailedEvent
  <2> QED  BY <1>1, <2>1, <2>2 DEF Answered
<1>8. CASE AgentReturns(x, b) \/ AgentRaises(x, b) \/ Ack(x, b) \/ Reject(x, b)
  BY <1>8 DEF AgentReturns, AgentRaises, Ack, Reject, queueVars
<1> QED  BY <1>4, <1>5, <1>6, <1>7, <1>8 DEF JobStep, JobFault

\* The queues and the handler hold only what was sourced when it was published.
LEMMA RepliesSourced ==
  ASSUME TypeOK, SourceInv, [Next]_vars, NEW r \in Request
  PROVE  replies'[r] \in Seq(Sourced(r)')
<1>s. replies[r] \in Seq(Sourced(r)')
  BY SourcesStay, SeqWidens DEF SourceInv
<1>t. replies \in [Request -> Seq(Event)]
  BY DEF TypeOK
<1>1. CASE replies' = replies
  BY <1>1, <1>s
<1>2. ASSUME NEW x \in Request, ConsumeReply(x)  PROVE replies'[r] \in Seq(Sourced(r)')
  <2>1. PICK i \in 1 .. Window :
          /\ i <= Len(replies[x])
          /\ replies' = [replies EXCEPT ![x] = RemoveAt(@, i)] \/ replies' = replies
    BY <1>2 DEF ConsumeReply
  <2>2. CASE x = r /\ replies' = [replies EXCEPT ![x] = RemoveAt(@, i)]
    <3>1. i \in 1 .. Len(replies[r])
      BY <2>1, <2>2, <1>t, ChatStreamAssumption
    <3>2. RemoveAt(replies[r], i) \in Seq(Sourced(r)')
      BY <1>s, <3>1, RemoveAtType
    <3> QED  BY <1>t, <2>2, <3>2
  <2>3. CASE x # r \/ replies' = replies
    BY <1>s, <1>t, <2>1, <2>3
  <2> QED  BY <2>1, <2>2, <2>3
<1>3. ASSUME NEW x \in Request, NEW b \in Attempt, JobStep(x, b) \/ JobFault(x, b)
      PROVE  replies'[r] \in Seq(Sourced(r)')
  <2>1. replies' = replies \/ \E e \in Sourced(x)' : Reply(x, e)
    BY <1>3, PublishedSourced DEF SourceInv
  <2>2. ASSUME NEW e \in Sourced(x)', Reply(x, e)
        PROVE  replies'[r] \in Seq(Sourced(r)')
    <3>1. replies' = [replies EXCEPT ![x] = Append(replies[x], e)]
      BY <2>2, <1>t DEF Reply
    <3>2. CASE x = r
      <4>1. Append(replies[r], e) \in Seq(Sourced(r)')
        BY <1>s, <2>2, <3>2
      <4> QED  BY <1>t, <3>1, <3>2, <4>1
    <3>3. CASE x # r
      BY <1>s, <1>t, <3>1, <3>3
    <3> QED  BY <3>2, <3>3
  <2> QED  BY <1>1, <2>1, <2>2
<1>4. \/ replies' = replies
      \/ \E x \in Request : ConsumeReply(x)
      \/ \E x \in Request, b \in Attempt : JobStep(x, b) \/ JobFault(x, b)
  BY DEF Next, vars, queueVars, Submit, PublishStep, StreamStep, StartStream, PublishArrives,
     PublishReturns, Receive, Timeout, HandleChunk, Drain, DrainDone, HandleTerminal,
     Flush, FlushDone, Store, Announce, SavePartial, StreamFault, SubmitRaises, PublishRaises,
     Disconnected, CancelInBroker, CancelInHandler, CancelAfterCommit, StoreRaises,
     SavePartialRaises, Release, Deliver, BackendCrash, WorkerCrash, ChannelLost
<1> QED  BY <1>1, <1>2, <1>3, <1>4

LEMMA EventsSourced ==
  ASSUME TypeOK, SourceInv, [Next]_vars, NEW r \in Request
  PROVE  events'[r] \in Seq(Sourced(r)')
<1>s. events[r] \in Seq(Sourced(r)') /\ replies[r] \in Seq(Sourced(r)')
  BY SourcesStay, SeqWidens DEF SourceInv
<1>t. events \in [Request -> Seq(Event)] /\ replies \in [Request -> Seq(Event)]
  BY DEF TypeOK
<1>1. CASE events' = events
  BY <1>1, <1>s
<1>2. ASSUME NEW x \in Request, StopReading(x)  PROVE events'[r] \in Seq(Sourced(r)')
  BY <1>2, <1>s, <1>t DEF StopReading
<1>3. ASSUME NEW x \in Request, Receive(x)  PROVE events'[r] \in Seq(Sourced(r)')
  <2>1. events' = [events EXCEPT ![x] = Tail(events[x])] /\ events[x] # <<>>
    BY <1>3, <1>t DEF Receive
  <2>2. CASE x = r
    <3>1. Tail(events[r]) \in Seq(Sourced(r)')
      BY <1>s, <2>1, <2>2
    <3> QED  BY <1>t, <2>1, <2>2, <3>1
  <2>3. CASE x # r
    BY <1>s, <1>t, <2>1, <2>3
  <2> QED  BY <2>2, <2>3
<1>4. ASSUME NEW x \in Request, ConsumeReply(x)  PROVE events'[r] \in Seq(Sourced(r)')
  <2>1. PICK i \in 1 .. Window :
          /\ i <= Len(replies[x])
          /\ \/ events' = [events EXCEPT ![x] = Append(events[x], replies[x][i])]
             \/ events' = events
    BY <1>4, <1>t DEF ConsumeReply
  <2>2. CASE x = r /\ events' = [events EXCEPT ![x] = Append(events[x], replies[x][i])]
    <3>1. replies[r][i] \in Sourced(r)'
      BY <1>s, <2>1, <2>2, ChatStreamAssumption
    <3>2. Append(events[r], replies[r][i]) \in Seq(Sourced(r)')
      BY <1>s, <3>1
    <3> QED  BY <1>t, <2>2, <3>2
  <2>3. CASE x # r \/ events' = events
    BY <1>s, <1>t, <2>1, <2>3
  <2> QED  BY <2>1, <2>2, <2>3
<1>5. CASE BackendCrash
  BY <1>5 DEF BackendCrash
<1>6. \/ events' = events \/ BackendCrash
      \/ \E x \in Request : StopReading(x) \/ Receive(x) \/ ConsumeReply(x)
  BY DEF Next, vars, backendVars, Submit, PublishStep, StreamStep, StartStream, PublishArrives,
     PublishReturns, Timeout, HandleChunk, Drain, DrainDone, HandleTerminal,
     Flush, FlushDone, Store, Announce, SavePartial, StreamFault, SubmitRaises, PublishRaises,
     Disconnected, CancelInBroker, CancelInHandler, CancelAfterCommit, StoreRaises,
     SavePartialRaises, Release, Unregister, Deliver, JobStep, JobFault, AgentReturns,
     AgentRaises, PublishChunk, PublishEnd, SendRaises, PublishFailed, Ack, Reject,
     WorkerCrash, ChannelLost
<1> QED  BY <1>1, <1>2, <1>3, <1>4, <1>5, <1>6

LEMMA HeldSourced ==
  ASSUME TypeOK, SourceInv, [Next]_vars, NEW r \in Request
  PROVE  stream'[r].ev \in Sourced(r)' \cup {NoEvent}
<1> USE DEF Goto
<1>s. stream[r].ev \in Sourced(r)' \cup {NoEvent} /\ events[r] \in Seq(Sourced(r)')
  BY SourcesStay, SeqWidens DEF SourceInv
<1>t. /\ stream \in [Request -> Stream]
      /\ \A x \in Request :
           DOMAIN stream[x] = {"pc", "next", "buffer", "chunks", "ev", "told"}
  BY DEF TypeOK, Stream
<1>1. CASE stream' = stream
  BY <1>1, <1>s
<1>2. ASSUME NEW x \in Request, Receive(x)
      PROVE  stream'[r].ev \in Sourced(r)' \cup {NoEvent}
  <2>1. /\ stream' = [stream EXCEPT ![x].pc = "got", ![x].ev = Head(events[x])]
        /\ events[x] # <<>>
    BY <1>2 DEF Receive
  <2>2. CASE x = r
    <3>1. Head(events[r]) \in Sourced(r)'
      BY <1>s, <2>1, <2>2
    <3> QED  BY <1>t, <2>1, <2>2, <3>1
  <2>3. CASE x # r
    BY <1>s, <1>t, <2>1, <2>3
  <2> QED  BY <2>2, <2>3
<1>3. ASSUME NEW x \in Request, Timeout(x)
      PROVE  stream'[r].ev \in Sourced(r)' \cup {NoEvent}
  <2>1. [type |-> "failed", attempt |-> 0, text |-> FALSE] \in Sourced(r)'
    BY TimeoutEvent DEF Sourced, Answered
  <2> QED  BY <1>3, <1>s, <1>t, <2>1 DEF Timeout
<1>4. ASSUME NEW x \in Request, HandleChunk(x)
      PROVE  stream'[r].ev \in Sourced(r)' \cup {NoEvent}
  <2>1. \/ stream' = [stream EXCEPT ![x].pc = "wait", ![x].ev = NoEvent]
        \/ \E c : stream' = [stream EXCEPT ![x].pc = "drain", ![x].ev = NoEvent,
                                           ![x].buffer = c]
    BY <1>4, Zenon DEF HandleChunk
  <2> QED  BY <1>s, <1>t, <2>1
<1>5. ASSUME NEW x \in Request,
             PublishStep(x) \/ StreamStep(x) \/ StreamFault(x) \/ Submit(x),
             ~(Receive(x) \/ Timeout(x) \/ HandleChunk(x))
      PROVE  stream'[r].ev \in Sourced(r)' \cup {NoEvent}
  <2>1. ASSUME PublishStep(x) \/ StreamStep(x)  PROVE stream'[r].ev = stream[r].ev
    <3>1. ASSUME Drain(x)  PROVE stream'[r].ev = stream[r].ev
      BY <1>t, <3>1 DEF Drain
    <3>2. ASSUME Flush(x)  PROVE stream'[r].ev = stream[r].ev
      BY <1>t, <3>2 DEF Flush
    <3>3. ASSUME StartStream(x) \/ PublishReturns(x) \/ DrainDone(x) \/ HandleTerminal(x)
                 \/ FlushDone(x) \/ Store(x) \/ SavePartial(x)
          PROVE  stream'[r].ev = stream[r].ev
      BY <1>t, <3>3 DEF StartStream, PublishReturns, DrainDone, HandleTerminal, FlushDone,
         Store, SavePartial
    <3>4. ASSUME PublishArrives(x) \/ Announce(x)  PROVE stream'[r].ev = stream[r].ev
      BY <1>t, <3>4 DEF PublishArrives, Announce, backendVars
    <3> QED  BY <1>5, <2>1, <3>1, <3>2, <3>3, <3>4 DEF PublishStep, StreamStep
  <2>2. ASSUME StreamFault(x) \/ Submit(x)  PROVE stream'[r].ev = stream[r].ev
    BY <1>t, <2>2 DEF StreamFault, SubmitRaises, PublishRaises, Disconnected, CancelInBroker,
       CancelInHandler, CancelAfterCommit, StoreRaises, SavePartialRaises, Finish, Submit
  <2>3. stream'[r].ev = stream[r].ev
    BY <1>5, <2>1, <2>2
  <2> QED  BY <1>s, <2>3
<1>6. CASE BackendCrash
  <2>1. stream'[r].ev = stream[r].ev
    BY <1>6, <1>t DEF BackendCrash
  <2> QED  BY <1>s, <2>1
<1>7. \/ stream' = stream \/ BackendCrash
      \/ \E x \in Request : PublishStep(x) \/ StreamStep(x) \/ StreamFault(x) \/ Submit(x)
  BY DEF Next, vars, backendVars, Release, ConsumeReply, Deliver, JobStep, JobFault,
     AgentReturns, AgentRaises, PublishChunk, PublishEnd, SendRaises, PublishFailed,
     Ack, Reject, WorkerCrash, ChannelLost
<1> QED  BY <1>1, <1>2, <1>3, <1>4, <1>5, <1>6, <1>7

LEMMA RowsSourced ==
  ASSUME TypeOK, StreamInv, SourceInv, [Next]_vars, NEW r \in Request
  PROVE  assistant'[r] \in Seq(SourcedRow(r)')
<1> DEFINE final(x) == [status |-> stream[x].ev.type, content |-> FinalContent(stream[x])]
           shown(x) == [status |-> "interrupted",
                        content |-> [from |-> "chunks", pieces |-> stream[x].chunks,
                                     attempt |-> 0]]
<1>s. assistant[r] \in Seq(SourcedRow(r)')
  BY SourcesStay, SeqWidens DEF SourceInv
<1>t. assistant \in [Request -> Seq(Row)] /\ stream[r] \in Stream
  BY DEF TypeOK
<1>1. CASE assistant' = assistant
  BY <1>1, <1>s
<1>2. ASSUME NEW x \in Request, NEW w, x = r => w \in SourcedRow(r)',
             assistant' = [assistant EXCEPT ![x] = Append(assistant[x], w)]
      PROVE  assistant'[r] \in Seq(SourcedRow(r)')
  <2>1. CASE x = r
    <3>1. Append(assistant[r], w) \in Seq(SourcedRow(r)')
      BY <1>2, <1>s, <2>1
    <3> QED  BY <1>t, <1>2, <2>1, <3>1
  <2>2. CASE x # r
    BY <1>s, <1>t, <1>2, <2>2
  <2> QED  BY <2>1, <2>2
<1>3. ASSUME NEW x \in Request, Store(x) \/ CancelAfterCommit(x)
      PROVE  assistant'[r] \in Seq(SourcedRow(r)')
  <2>1. /\ stream[x].pc = "storing"
        /\ assistant' = [assistant EXCEPT ![x] = Append(assistant[x], final(x))]
    BY <1>3 DEF Store, CancelAfterCommit, InsertFinal, At
  <2>2. ASSUME x = r  PROVE final(x) \in SourcedRow(r)'
    <3> DEFINE e == stream[r].ev
    <3>1. e.type \in Terminal
      BY <2>1, <2>2 DEF StreamInv, RequestInv
    <3>2. final(r) \in Row
      BY <1>t, <3>1, FinalRow
    <3>3. e \in Sourced(r) \cup {NoEvent}
      BY DEF SourceInv
    <3>4. final(r) \in SourcedRow(r)
      <4>1. CASE e.type \in Answered
        <5>1. e \in Sourced(r)
          BY <3>3, <4>1 DEF NoEvent, Answered
        <5>2. Done(r, e.attempt, e.type)
          BY <4>1, <5>1 DEF Sourced
        <5>3. final(r).content.attempt = e.attempt /\ final(r).status = e.type
          BY <4>1 DEF FinalContent, Answered
        <5> QED  BY <3>2, <5>2, <5>3 DEF SourcedRow
      <4>2. CASE e.type \notin Answered
        BY <3>2, <4>2 DEF SourcedRow
      <4> QED  BY <4>1, <4>2
    <3> HIDE DEF final
    <3> QED  BY <2>2, <3>4, SourcesStay
  <2> HIDE DEF final
  <2> QED  BY <1>2, <2>1, <2>2
<1>4. ASSUME NEW x \in Request, SavePartial(x)
      PROVE  assistant'[r] \in Seq(SourcedRow(r)')
  <2>1. assistant' = [assistant EXCEPT ![x] = Append(assistant[x], shown(x))]
    BY <1>4 DEF SavePartial
  <2>2. x = r => shown(x) \in SourcedRow(r)'
    BY <1>t, PartialRow DEF SourcedRow, Answered
  <2> HIDE DEF shown
  <2> QED  BY <1>2, <2>1, <2>2
<1>5. \/ assistant' = assistant
      \/ \E x \in Request : Store(x) \/ CancelAfterCommit(x) \/ SavePartial(x)
  BY DEF Next, vars, dbVars, Submit, PublishStep, StreamStep, StartStream, PublishArrives,
     PublishReturns, Receive, Timeout, HandleChunk, Drain, DrainDone, HandleTerminal,
     Flush, FlushDone, Announce, StreamFault, SubmitRaises, PublishRaises, Disconnected,
     CancelInBroker, CancelInHandler, StoreRaises, SavePartialRaises, Release,
     ConsumeReply, Deliver, JobStep, JobFault, AgentReturns, AgentRaises, PublishChunk,
     PublishEnd, SendRaises, PublishFailed, Ack, Reject, BackendCrash, WorkerCrash,
     ChannelLost
<1> QED  BY <1>1, <1>3, <1>4, <1>5

LEMMA SourceInit == Init => SourceInv
<1> SUFFICES ASSUME Init  PROVE SourceInv
  OBVIOUS
<1>1. JobsDelivered
  BY DEF Init, NoJob, JobsDelivered
<1> QED  BY <1>1 DEF Init, NoStream, SourceInv

LEMMA SourceStep ==
  TypeOK /\ StreamInv /\ SourceInv /\ [Next]_vars => SourceInv'
<1> SUFFICES ASSUME TypeOK, StreamInv, SourceInv, [Next]_vars  PROVE SourceInv'
  OBVIOUS
<1>1. JobsDelivered'
  BY JobsStayDelivered DEF SourceInv
<1> QED
  BY <1>1, RepliesSourced, EventsSourced, HeldSourced, RowsSourced DEF SourceInv

\* A stored answer was published, whole, for a delivery of its own request,
\* whatever was lost, repeated or delivered again (_consume_request,
\* _consume_reply, _event_stream).
THEOREM AnswersHaveSources == Spec => []AnswerHasSource
<1>1. TypeOK /\ SourceInv => AnswerHasSource
  <2> SUFFICES ASSUME TypeOK, SourceInv, NEW r \in Request,
                      NEW i \in 1 .. Len(assistant[r]),
                      assistant[r][i].status \in Answered
               PROVE  Done(r, assistant[r][i].content.attempt, assistant[r][i].status)
    BY DEF AnswerHasSource, Answered, Done
  <2>1. assistant[r][i] \in SourcedRow(r)
    BY DEF SourceInv
  <2> QED  BY <2>1 DEF SourcedRow
<1> QED  BY <1>1, SourceInit, SourceStep, StreamInvariant, PTL DEF Spec
=============================================================================
