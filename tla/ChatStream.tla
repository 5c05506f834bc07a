----------------------------- MODULE ChatStream -----------------------------
(***************************************************************************)
(* One submitted chat message, from the POST handler of the backend        *)
(* through RabbitMQ to the agents worker and back as a stream of events:   *)
(* backend/app.py (_submit_message_route), backend/broker.py and           *)
(* agents/worker.py.  A request is the request_id of one POST; it is       *)
(* published at most once, so the request queue holds one message per      *)
(* request and its order does not matter (every consumer runs its          *)
(* messages concurrently).                                                 *)
(*                                                                         *)
(* Every await and every yield of the handlers is a step boundary.         *)
(* Contents are abstract: a fragment of an answer is identified by the     *)
(* attempt of the worker that produced it and by its sequence number.      *)
(***************************************************************************)
EXTENDS Integers, Sequences

CONSTANTS
  Request,        \* the request_ids, one per submitted message
  MaxChunks,      \* bound: the longest answer, in slices of response_chunk_size
  MaxLosses,      \* bound: how often the worker crashes or loses its channel
  MaxDuplicates,  \* bound: replies whose acknowledgement is lost
  Kind,           \* how the agent's answers may end
  Size,           \* how many slices long their texts may be
  Window          \* how deep in the reply queue the next reply may be taken

ASSUME ChatStreamAssumption ==
  /\ MaxChunks \in Nat \ {0}
  /\ MaxLosses \in Nat
  /\ MaxDuplicates \in Nat
  /\ Window \in Nat \ {0}
  /\ Size \subseteq 0 .. MaxChunks
  /\ Kind \subseteq {"completed", "confirmation_required"}

Attempt == 1 .. MaxLosses + 1
Terminal == {"completed", "confirmation_required", "failed"}

\* A fragment of an answer; text is FALSE for the one fragment of an empty answer.
Piece == [seq : 1 .. MaxChunks, attempt : Attempt, text : BOOLEAN]

\* Terminal events carry no fragment number; attempt 0 is the broker's own
\* agent_timeout event, which no worker sent.
ChunkEvent == [type : {"chunk"}, piece : Piece]
EndEvent == [type : Terminal, attempt : Attempt \cup {0}, text : BOOLEAN]
NoEvent == [type |-> "none"]
Event == ChunkEvent \cup EndEvent

\* What an assistant row holds: the content of a worker's terminal event, the
\* fragments collected so far, or the fixed apology of a failure.
Content == [from : {"payload", "chunks", "error"}, pieces : Seq(Piece),
            attempt : Attempt \cup {0}]
Row == [status : Terminal \cup {"interrupted"}, content : Content]

VARIABLES
  userMsg,      \* messages table: status of the user row, "none" before it exists
  assistant,    \* messages table: the assistant rows of the request, in order
  stream,       \* the running _event_stream generator of the request
  pending,      \* keys of RabbitMqBroker._pending
  events,       \* the asyncio.Queue of the request, while it may still be read
  requestMsg,   \* the request in RabbitMQ: absent, ready, unacked, gone
  replies,      \* replies of the request waiting in the reply queue
  delivered,    \* how often the request was delivered to a worker
  job,          \* the _consume_request coroutine of each delivery
  losses, dups  \* how much of the bounds MaxLosses, MaxDuplicates is used

dbVars == <<userMsg, assistant>>
backendVars == <<stream, pending, events>>
queueVars == <<requestMsg, replies, dups>>
workerVars == <<delivered, job, losses>>
vars == <<dbVars, backendVars, queueVars, workerVars>>

StreamPc == {"idle", "accepted", "publish", "wait", "got", "drain", "flush",
             "storing", "stored", "partial", "ended", "down"}
Stream == [pc : StreamPc, next : 1 .. MaxChunks + 1, buffer : SUBSET Piece,
           chunks : Seq(Piece), ev : Event \cup {NoEvent},
           told : Terminal \cup {"none", "broken"}]
Job == [pc : {"none", "agent", "send", "failing", "ack", "done"},
        kind : {"completed", "confirmation_required"},
        size : 0 .. MaxChunks, sent : 0 .. MaxChunks]

NoStream == [pc |-> "idle", next |-> 1, buffer |-> {}, chunks |-> <<>>,
             ev |-> NoEvent, told |-> "none"]
NoJob == [pc |-> "none", kind |-> "completed", size |-> 0, sent |-> 0]

Init ==
  /\ userMsg = [r \in Request |-> "none"]
  /\ assistant = [r \in Request |-> <<>>]
  /\ stream = [r \in Request |-> NoStream]
  /\ pending = {}
  /\ events = [r \in Request |-> <<>>]
  /\ requestMsg = [r \in Request |-> "absent"]
  /\ replies = [r \in Request |-> <<>>]
  /\ delivered = [r \in Request |-> 0]
  /\ job = [r \in Request |-> [a \in Attempt |-> NoJob]]
  /\ losses = 0
  /\ dups = 0

-----------------------------------------------------------------------------
(***************************************************************************)
(* Backend: accepting the message and publishing the request               *)
(***************************************************************************)
At(r, pc) == stream[r].pc = pc
Goto(r, pc) == stream' = [stream EXCEPT ![r].pc = pc]

\* The user's row is committed before anything is published.
Submit(r) ==
  /\ At(r, "idle")
  /\ userMsg' = [userMsg EXCEPT ![r] = "submitted"]
  /\ Goto(r, "accepted")
  /\ UNCHANGED <<assistant, pending, events, queueVars, workerVars>>

\* The refresh after the commit, or get_chat_memory, raises: the route answers
\* with an error although the user's row is on record.
SubmitRaises(r) ==
  /\ At(r, "accepted")
  /\ stream' = [stream EXCEPT ![r].pc = "ended", ![r].told = "broken"]
  /\ UNCHANGED <<dbVars, pending, events, queueVars, workerVars>>

\* broker.stream registers the queue of the request, then awaits the publish.
StartStream(r) ==
  /\ At(r, "accepted")
  /\ pending' = pending \cup {r}
  /\ Goto(r, "publish")
  /\ UNCHANGED <<dbVars, events, queueVars, workerVars>>

\* RabbitMQ takes the message; the confirm may still be lost.
PublishArrives(r) ==
  /\ At(r, "publish")
  /\ requestMsg[r] = "absent"
  /\ requestMsg' = [requestMsg EXCEPT ![r] = "ready"]
  /\ UNCHANGED <<dbVars, backendVars, replies, dups, workerVars>>

PublishReturns(r) ==
  /\ At(r, "publish")
  /\ requestMsg[r] # "absent"
  /\ Goto(r, "wait")
  /\ UNCHANGED <<dbVars, pending, events, queueVars, workerVars>>

\* The handler has left its loop or will never come back to it: what its queue
\* still gets is not looked at, and the model forgets it.
StopReading(r) == events' = [events EXCEPT ![r] = <<>>]

\* The generator of the broker unwinds by itself: its finally drops the entry.
Unregister(r) ==
  /\ pending' = pending \ {r}
  /\ StopReading(r)

\* A raising publish leaves both generators and breaks the response off.
PublishRaises(r) ==
  /\ At(r, "publish")
  /\ Unregister(r)
  /\ stream' = [stream EXCEPT ![r].pc = "ended", ![r].told = "broken"]
  /\ UNCHANGED <<dbVars, queueVars, workerVars>>

-----------------------------------------------------------------------------
(***************************************************************************)
(* Backend: the reply consumer and the event loop of the stream            *)
(***************************************************************************)
RemoveAt(s, i) == SubSeq(s, 1, i - 1) \o SubSeq(s, i + 1, Len(s))

Reading(r) == stream[r].pc \in {"publish", "wait", "got", "drain"}

\* _consume_reply hands the event to the registered queue or drops it, and
\* acknowledges it; when the acknowledgement is lost the reply stays queued.
ConsumeReply(r) ==
  \E i \in 1 .. Window :
    /\ i <= Len(replies[r])
    /\ events' = IF r \in pending /\ Reading(r)
                   THEN [events EXCEPT ![r] = Append(@, replies[r][i])]
                   ELSE events
    /\ \/ /\ replies' = [replies EXCEPT ![r] = RemoveAt(@, i)]
          /\ UNCHANGED dups
       \/ /\ dups < MaxDuplicates
          /\ dups' = dups + 1
          /\ UNCHANGED replies
    /\ UNCHANGED <<dbVars, stream, pending, requestMsg, workerVars>>

\* events.get() returns; the event is yielded to the handler, which awaits
\* request.is_disconnected().
Receive(r) ==
  /\ At(r, "wait")
  /\ events[r] # <<>>
  /\ stream' = [stream EXCEPT ![r].pc = "got", ![r].ev = Head(events[r])]
  /\ events' = [events EXCEPT ![r] = Tail(@)]
  /\ UNCHANGED <<dbVars, pending, queueVars, workerVars>>

\* Variant: only the first event is awaited with a timeout.
Timeout_firstOnly(r) ==
  /\ At(r, "wait")
  /\ events[r] = <<>>
  /\ stream[r].next = 1
  /\ stream' = [stream EXCEPT ![r].pc = "got",
                  ![r].ev = [type |-> "failed", attempt |-> 0, text |-> FALSE]]
  /\ UNCHANGED <<dbVars, pending, events, queueVars, workerVars>>

\* wait_for expires: the broker yields its own failed event.
Timeout(r) ==
  /\ At(r, "wait")
  /\ events[r] = <<>>
  /\ stream' = [stream EXCEPT ![r].pc = "got",
                  ![r].ev = [type |-> "failed", attempt |-> 0, text |-> FALSE]]
  /\ UNCHANGED <<dbVars, pending, events, queueVars, workerVars>>

\* Variant: a chunk that was already emitted is buffered again.
HandleChunk_noSkip(r) ==
  LET p == stream[r].ev.piece
      others == {q \in stream[r].buffer : q.seq # p.seq}
  IN  /\ At(r, "got")
      /\ stream[r].ev.type = "chunk"
      /\ stream' = [stream EXCEPT ![r].pc = "drain", ![r].ev = NoEvent,
                                  ![r].buffer = others \cup {p}]
      /\ UNCHANGED <<dbVars, pending, events, queueVars, workerVars>>

\* A chunk that was already emitted is skipped, any other is put in the buffer,
\* over an earlier one with its number.
HandleChunk(r) ==
  LET p == stream[r].ev.piece
      others == {q \in stream[r].buffer : q.seq # p.seq}
  IN  /\ At(r, "got")
      /\ stream[r].ev.type = "chunk"
      /\ IF p.seq < stream[r].next
           THEN stream' = [stream EXCEPT ![r].pc = "wait", ![r].ev = NoEvent]
           ELSE stream' = [stream EXCEPT ![r].pc = "drain", ![r].ev = NoEvent,
                                         ![r].buffer = others \cup {p}]
      /\ UNCHANGED <<dbVars, pending, events, queueVars, workerVars>>

\* Variant: chunks are emitted as they come.
Drain_asTheyCome(r) ==
  /\ At(r, "drain")
  /\ \E p \in stream[r].buffer :
       stream' = [stream EXCEPT ![r].buffer = @ \ {p},
                                ![r].chunks = Append(@, p),
                                ![r].next = p.seq + 1]
  /\ UNCHANGED <<dbVars, pending, events, queueVars, workerVars>>

\* One turn of the while loop: pop the next chunk, collect it, yield it.
Drain(r) ==
  /\ At(r, "drain")
  /\ \E p \in stream[r].buffer :
       /\ p.seq = stream[r].next
       /\ stream' = [stream EXCEPT ![r].buffer = @ \ {p},
                                   ![r].chunks = Append(@, p),
                                   ![r].next = @ + 1]
  /\ UNCHANGED <<dbVars, pending, events, queueVars, workerVars>>

DrainDone(r) ==
  /\ At(r, "drain")
  /\ \A p \in stream[r].buffer : p.seq # stream[r].next
  /\ Goto(r, "wait")
  /\ UNCHANGED <<dbVars, pending, events, queueVars, workerVars>>

HandleTerminal(r) ==
  /\ At(r, "got")
  /\ stream[r].ev.type \in Terminal
  /\ Goto(r, "flush")
  /\ StopReading(r)
  /\ UNCHANGED <<dbVars, pending, queueVars, workerVars>>

\* One turn of the loop over sorted(pending_chunks).
Flush(r) ==
  /\ At(r, "flush")
  /\ \E p \in stream[r].buffer :
       /\ \A q \in stream[r].buffer : p.seq <= q.seq
       /\ stream' = [stream EXCEPT ![r].buffer = @ \ {p},
                                   ![r].chunks = Append(@, p)]
  /\ UNCHANGED <<dbVars, pending, events, queueVars, workerVars>>

\* Variant: the terminal event is yielded before the row is written.
FlushDone_tellFirst(r) ==
  /\ At(r, "flush")
  /\ stream[r].buffer = {}
  /\ stream' = [stream EXCEPT ![r].pc = "storing", ![r].told = stream[r].ev.type]
  /\ UNCHANGED <<dbVars, pending, events, queueVars, workerVars>>

FlushDone(r) ==
  /\ At(r, "flush")
  /\ stream[r].buffer = {}
  /\ Goto(r, "storing")
  /\ UNCHANGED <<dbVars, pending, events, queueVars, workerVars>>

\* payload.content or "".join(chunks), and a fixed text for a failure.
FinalContent(s) ==
  CASE s.ev.type = "failed" ->
         [from |-> "error", pieces |-> <<>>, attempt |-> 0]
    [] s.ev.type # "failed" /\ s.ev.text ->
         [from |-> "payload", pieces |-> <<>>, attempt |-> s.ev.attempt]
    [] OTHER ->
         [from |-> "chunks", pieces |-> s.chunks, attempt |-> s.ev.attempt]

InsertFinal(r) ==
  assistant' = [assistant EXCEPT ![r] =
                 Append(@, [status |-> stream[r].ev.type,
                            content |-> FinalContent(stream[r])])]

\* The commit of create_message, which then awaits the refresh.
Store(r) ==
  /\ At(r, "storing")
  /\ InsertFinal(r)
  /\ Goto(r, "stored")
  /\ UNCHANGED <<userMsg, pending, events, queueVars, workerVars>>

\* The refresh returns; the terminal event is yielded and the handler breaks out
\* of the loop.
Announce(r) ==
  /\ At(r, "stored")
  /\ stream' = [stream EXCEPT ![r].pc = "ended", ![r].told = stream[r].ev.type]
  /\ UNCHANGED <<dbVars, pending, events, queueVars, workerVars>>

-----------------------------------------------------------------------------
(***************************************************************************)
(* Backend: the stream ends early                                          *)
(***************************************************************************)
\* Variant: completed is set after create_message instead of before.
SavesPartial_lateFlag(r) ==
  /\ stream[r].pc # "stored"
  /\ stream[r].chunks # <<>>

\* The test of the finally block: not completed and chunks.
SavesPartial(r) ==
  /\ stream[r].pc \notin {"flush", "storing", "stored"}
  /\ stream[r].chunks # <<>>

Finish(r) == Goto(r, IF SavesPartial(r) THEN "partial" ELSE "ended")

\* The client is found gone: the event just received is dropped.
Disconnected(r) ==
  /\ At(r, "got")
  /\ Finish(r)
  /\ StopReading(r)
  /\ UNCHANGED <<dbVars, pending, queueVars, workerVars>>

\* The response task is cancelled while the broker's generator is awaiting.
CancelInBroker(r) ==
  /\ stream[r].pc \in {"publish", "wait"}
  /\ Unregister(r)
  /\ Finish(r)
  /\ UNCHANGED <<dbVars, queueVars, workerVars>>

\* The response task is cancelled in the handler, or dropped at a yield.  The
\* broker's generator is left suspended and its entry stays registered.
CancelInHandler(r) ==
  /\ stream[r].pc \in {"accepted", "got", "drain", "flush", "storing", "stored"}
  /\ Finish(r)
  /\ StopReading(r)
  /\ UNCHANGED <<dbVars, pending, queueVars, workerVars>>

\* A cancelled create_message whose commit the database had already received.
CancelAfterCommit(r) ==
  /\ At(r, "storing")
  /\ InsertFinal(r)
  /\ Finish(r)
  /\ UNCHANGED <<userMsg, pending, events, queueVars, workerVars>>

\* Variant: a failing create_message falls back to saving the chunks.
StoreRaises_savesPartial(r) ==
  /\ stream[r].pc \in {"storing", "stored"}
  /\ stream' = [stream EXCEPT ![r].told = "broken", ![r].pc = "partial"]
  /\ UNCHANGED <<dbVars, pending, events, queueVars, workerVars>>

\* create_message raises: before its COMMIT took effect, or after it, when the
\* reply to the COMMIT is lost or the refresh fails.  The response breaks off
\* and the generator ends; completed is already set.
StoreRaises(r) ==
  /\ stream[r].pc \in {"storing", "stored"}
  /\ stream' = [stream EXCEPT ![r].told = "broken",
                   ![r].pc = IF SavesPartial(r) THEN "partial" ELSE "ended"]
  /\ UNCHANGED <<dbVars, pending, events, queueVars, workerVars>>

\* The task created by the finally block writes what was shown.
SavePartial(r) ==
  /\ At(r, "partial")
  /\ Goto(r, "ended")
  /\ assistant' = [assistant EXCEPT ![r] =
       Append(@, [status |-> "interrupted",
                  content |-> [from |-> "chunks", pieces |-> stream[r].chunks,
                               attempt |-> 0]])]
  /\ UNCHANGED <<userMsg, pending, events, queueVars, workerVars>>

\* The exception of a background task is never looked at.
SavePartialRaises(r) ==
  /\ At(r, "partial")
  /\ Goto(r, "ended")
  /\ UNCHANGED <<dbVars, pending, events, queueVars, workerVars>>

\* Variant: the entry is dropped only when the terminal event was yielded.
Release_onlyTold(r) ==
  /\ At(r, "ended")
  /\ stream[r].told \in Terminal
  /\ r \in pending
  /\ Unregister(r)
  /\ UNCHANGED <<dbVars, stream, queueVars, workerVars>>

\* The event loop closes the abandoned generator of the broker.
Release(r) ==
  /\ stream[r].pc \in {"partial", "ended"}
  /\ r \in pending
  /\ Unregister(r)
  /\ UNCHANGED <<dbVars, stream, queueVars, workerVars>>

\* The backend process dies and is restarted: every stream and every entry of
\* _pending is gone, the rows and the queues survive.
Live(r) == stream[r].pc \notin {"idle", "ended", "down"}

BackendCrash ==
  /\ \E r \in Request : Live(r)
  /\ stream' = [r \in Request |->
                  IF Live(r) THEN [stream[r] EXCEPT !.pc = "down"] ELSE stream[r]]
  /\ pending' = {}
  /\ events' = [r \in Request |-> <<>>]
  /\ UNCHANGED <<dbVars, queueVars, workerVars>>

-----------------------------------------------------------------------------
(***************************************************************************)
(* Worker: one coroutine per delivery of the request                       *)
(***************************************************************************)
Deliver(r) ==
  /\ requestMsg[r] = "ready"
  /\ delivered[r] <= MaxLosses
  /\ requestMsg' = [requestMsg EXCEPT ![r] = "unacked"]
  /\ delivered' = [delivered EXCEPT ![r] = @ + 1]
  /\ job' = [job EXCEPT ![r][delivered[r] + 1].pc = "agent"]
  /\ UNCHANGED <<dbVars, backendVars, replies, dups, losses>>

JobAt(r, a, pc) == job[r][a].pc = pc
JobGoto(r, a, pc) == job' = [job EXCEPT ![r][a].pc = pc]
Reply(r, e) == replies' = [replies EXCEPT ![r] = Append(@, e)]

\* The agent answers, with an empty text when it caught an exception without
\* a message, or asks for a confirmation, which always has a text.
AgentReturns(r, a) ==
  /\ JobAt(r, a, "agent")
  /\ \E kind \in Kind, size \in Size :
       /\ kind = "confirmation_required" => size > 0
       /\ job' = [job EXCEPT ![r][a] = [pc |-> "send", kind |-> kind,
                                        size |-> size, sent |-> 0]]
  /\ UNCHANGED <<dbVars, backendVars, queueVars, delivered, losses>>

AgentRaises(r, a) ==
  /\ JobAt(r, a, "agent")
  /\ JobGoto(r, a, "failing")
  /\ UNCHANGED <<dbVars, backendVars, queueVars, delivered, losses>>

\* _chunk_response: an empty answer still makes one, empty, chunk.
ChunkCount(size) == IF size = 0 THEN 1 ELSE size

ChunkOf(r, a) ==
  [type |-> "chunk", piece |-> [seq |-> job[r][a].sent + 1, attempt |-> a,
                                text |-> job[r][a].size > 0]]
EndOf(r, a) ==
  [type |-> job[r][a].kind, attempt |-> a, text |-> job[r][a].size > 0]

PublishChunk(r, a) ==
  /\ JobAt(r, a, "send")
  /\ job[r][a].sent < ChunkCount(job[r][a].size)
  /\ Reply(r, ChunkOf(r, a))
  /\ job' = [job EXCEPT ![r][a].sent = @ + 1]
  /\ UNCHANGED <<dbVars, backendVars, requestMsg, dups, delivered, losses>>

\* Variant: the end is published without waiting for the last chunk.
PublishEnd_early(r, a) ==
  /\ JobAt(r, a, "send")
  /\ job[r][a].sent > 0
  /\ Reply(r, EndOf(r, a))
  /\ JobGoto(r, a, "ack")
  /\ UNCHANGED <<dbVars, backendVars, requestMsg, dups, delivered, losses>>

PublishEnd(r, a) ==
  /\ JobAt(r, a, "send")
  /\ job[r][a].sent = ChunkCount(job[r][a].size)
  /\ Reply(r, EndOf(r, a))
  /\ JobGoto(r, a, "ack")
  /\ UNCHANGED <<dbVars, backendVars, requestMsg, dups, delivered, losses>>

\* A publish, or the checkpoint's transaction, raises; the event may have
\* reached the queue all the same.
SendRaises(r, a) ==
  /\ JobAt(r, a, "send")
  /\ \/ UNCHANGED replies
     \/ Reply(r, IF job[r][a].sent < ChunkCount(job[r][a].size)
                   THEN ChunkOf(r, a) ELSE EndOf(r, a))
  /\ JobGoto(r, a, "failing")
  /\ UNCHANGED <<dbVars, backendVars, requestMsg, dups, delivered, losses>>

PublishFailed(r, a) ==
  /\ JobAt(r, a, "failing")
  /\ Reply(r, [type |-> "failed", attempt |-> a, text |-> FALSE])
  /\ JobGoto(r, a, "ack")
  /\ UNCHANGED <<dbVars, backendVars, requestMsg, dups, delivered, losses>>

\* Variant: only the first delivery is settled.
Settle_firstOnly(r, a) ==
  requestMsg' = IF requestMsg[r] = "unacked" /\ delivered[r] = a /\ a = 1
                  THEN [requestMsg EXCEPT ![r] = "gone"]
                  ELSE requestMsg

\* The exit of message.process() settles the delivery; a coroutine that has
\* outlived its channel settles nothing.
Settle(r, a) ==
  requestMsg' = IF requestMsg[r] = "unacked" /\ delivered[r] = a
                  THEN [requestMsg EXCEPT ![r] = "gone"]
                  ELSE requestMsg

Ack(r, a) ==
  /\ JobAt(r, a, "ack")
  /\ JobGoto(r, a, "done")
  /\ Settle(r, a)
  /\ UNCHANGED <<dbVars, backendVars, replies, dups, delivered, losses>>

\* Publishing the failure raises too: the message is rejected, not requeued.
Reject(r, a) ==
  /\ JobAt(r, a, "failing")
  /\ JobGoto(r, a, "done")
  /\ Settle(r, a)
  /\ UNCHANGED <<dbVars, backendVars, replies, dups, delivered, losses>>

Requeue ==
  requestMsg' = [r \in Request |->
                   IF requestMsg[r] = "unacked" THEN "ready" ELSE requestMsg[r]]

\* The worker process dies; its unacknowledged deliveries go back.
WorkerCrash ==
  /\ losses < MaxLosses
  /\ losses' = losses + 1
  /\ Requeue
  /\ job' = [r \in Request |-> [a \in Attempt |->
               IF job[r][a].pc = "none" THEN job[r][a]
               ELSE [job[r][a] EXCEPT !.pc = "done"]]]
  /\ UNCHANGED <<dbVars, backendVars, replies, dups, delivered>>

\* The robust connection drops and comes back: the deliveries go back while
\* the coroutines that serve them keep running and publishing.
ChannelLost ==
  /\ losses < MaxLosses
  /\ losses' = losses + 1
  /\ Requeue
  /\ UNCHANGED <<dbVars, backendVars, replies, dups, delivered, job>>

-----------------------------------------------------------------------------
\* What RabbitMQ does for a publish, and need not: it is awaited without a timeout.
PublishStep(r) == PublishArrives(r) \/ PublishReturns(r)

\* What the backend's event loop and its database will do for a stream if it is
\* left alone.
StreamStep(r) ==
  \/ StartStream(r)
  \/ Receive(r) \/ Timeout(r) \/ HandleChunk(r) \/ Drain(r) \/ DrainDone(r)
  \/ HandleTerminal(r) \/ Flush(r) \/ FlushDone(r) \/ Store(r) \/ Announce(r)
  \/ SavePartial(r)

\* What a client, the database or RabbitMQ may do to it, never has to.
StreamFault(r) ==
  \/ SubmitRaises(r) \/ PublishRaises(r) \/ Disconnected(r) \/ CancelInBroker(r)
  \/ CancelInHandler(r) \/ CancelAfterCommit(r) \/ StoreRaises(r)
  \/ SavePartialRaises(r)

JobStep(r, a) ==
  \/ AgentReturns(r, a) \/ PublishChunk(r, a) \/ PublishEnd(r, a)
  \/ PublishFailed(r, a) \/ Ack(r, a)

JobFault(r, a) == AgentRaises(r, a) \/ SendRaises(r, a) \/ Reject(r, a)

Next ==
  \/ \E r \in Request : Submit(r) \/ PublishStep(r) \/ StreamStep(r)
                         \/ StreamFault(r) \/ Release(r)
  \/ \E r \in Request : ConsumeReply(r) \/ Deliver(r)
  \/ \E r \in Request, a \in Attempt : JobStep(r, a) \/ JobFault(r, a)
  \/ BackendCrash \/ WorkerCrash \/ ChannelLost

Spec == Init /\ [][Next]_vars

\* The event loop, the database and the consumers go on; the agent answers and
\* the reply queue takes what the worker publishes.  Nothing makes the publish of
\* a request return, a fault happen or a client stay or leave.
Fairness ==
  \A r \in Request :
    /\ WF_vars(StreamStep(r)) /\ WF_vars(Release(r))
    /\ WF_vars(ConsumeReply(r)) /\ WF_vars(Deliver(r))
    /\ \A a \in Attempt : WF_vars(JobStep(r, a))

FairSpec == Spec /\ Fairness
-----------------------------------------------------------------------------
TypeOK ==
  /\ userMsg \in [Request -> {"none", "submitted"}]
  /\ assistant \in [Request -> Seq(Row)]
  /\ stream \in [Request -> Stream]
  /\ pending \subseteq Request
  /\ events \in [Request -> Seq(Event)]
  /\ requestMsg \in [Request -> {"absent", "ready", "unacked", "gone"}]
  /\ replies \in [Request -> Seq(Event)]
  /\ delivered \in [Request -> 0 .. MaxLosses + 1]
  /\ job \in [Request -> [Attempt -> Job]]
  /\ losses \in 0 .. MaxLosses
  /\ dups \in 0 .. MaxDuplicates

\* However the end of a stream races its cancellation, a failing store, a
\* late or repeated reply and the background save, a request never gets two
\* assistant rows.
AtMostOneAnswer == \A r \in Request : Len(assistant[r]) <= 1

\* A client that was told how its request ended finds exactly that outcome in
\* the history it reloads: the row is committed before the event is yielded.
AnnouncedIsStored ==
  \A r \in Request : stream[r].told \in Terminal =>
    Len(assistant[r]) = 1 /\ assistant[r][1].status = stream[r].told

\* Whatever attempts, duplicates and reorderings the replies come from, the
\* fragments are shown in strictly increasing order, and without a gap until
\* the terminal event has arrived.
ChunksInOrder ==
  \A r \in Request :
    /\ \A i, j \in 1 .. Len(stream[r].chunks) :
         i < j => stream[r].chunks[i].seq < stream[r].chunks[j].seq
    /\ stream[r].next - 1 <= Len(stream[r].chunks)
    /\ \A i \in 1 .. stream[r].next - 1 : stream[r].chunks[i].seq = i
    /\ stream[r].pc \in {"wait", "got", "drain", "partial"} =>
         Len(stream[r].chunks) = stream[r].next - 1

\* From before the request can reach a worker until its terminal event is
\* handled, _consume_reply finds the entry of the stream, so no reply that the
\* stream still needs is dropped.
ListenerRegistered ==
  \A r \in Request :
    Reading(r) => r \in pending

\* A row that holds an answer was caused by a delivery of this request whose
\* worker had published all of its chunks and this kind of end.
AnswerHasSource ==
  \A r \in Request : \A i \in 1 .. Len(assistant[r]) :
    LET row == assistant[r][i]
        a == row.content.attempt
    IN  row.status \in {"completed", "confirmation_required"} =>
          /\ a \in 1 .. delivered[r]
          /\ job[r][a].kind = row.status
          /\ job[r][a].sent = ChunkCount(job[r][a].size)

\* What is kept of an interrupted answer is a prefix of it without gaps.
InterruptedIsPrefix ==
  \A r \in Request : \A i \in 1 .. Len(assistant[r]) :
    LET ps == assistant[r][i].content.pieces
    IN  assistant[r][i].status = "interrupted" =>
          ps # <<>> /\ \A k \in 1 .. Len(ps) : ps[k].seq = k

\* The inductive form of AtMostOneAnswer and AnnouncedIsStored: which rows and
\* which notification go with each place the handler of a request can be at.
RequestInv(r) ==
  /\ userMsg[r] = "none" <=> stream[r].pc = "idle"
  /\ stream[r].pc \in {"flush", "storing", "stored"} => stream[r].ev.type \in Terminal
  /\ stream[r].pc \notin {"stored", "ended", "down"} => assistant[r] = <<>>
  /\ stream[r].pc \notin {"ended", "down"} => stream[r].told = "none"
  /\ stream[r].pc = "stored" =>
       Len(assistant[r]) = 1 /\ assistant[r][1].status = stream[r].ev.type
  /\ stream[r].pc \in {"ended", "down"} => Len(assistant[r]) <= 1
  /\ stream[r].told \in Terminal =>
       Len(assistant[r]) = 1 /\ assistant[r][1].status = stream[r].told

StreamInv == \A r \in Request : RequestInv(r)

\* The rows and the notifications of this module are a behaviour of the
\* abstract promise: one row at most, no end told that is not on record, and
\* nothing recorded after the client was told an end or its response broke off.
Outcome == INSTANCE ChatOutcome WITH
  accepted <- {r \in Request : userMsg[r] # "none"},
  rows <- [r \in Request |-> [i \in 1 .. Len(assistant[r]) |-> assistant[r][i].status]],
  told <- [r \in Request |-> stream[r].told]

ImplementsOutcome == Outcome!Spec

\* With a timeout on every event, a stream that was accepted always ends,
\* whatever the worker does and whatever becomes of the replies.  It is the wait
\* for RabbitMQ's confirm alone that nothing bounds: a stream that never ends is
\* one whose publish never returns.
StreamEnds == \A r \in Request : Live(r) ~> ~Live(r) \/ At(r, "publish")

\* No entry of _pending outlives its stream for good, but for a publish that
\* never returns.
RegistrationReleased ==
  \A r \in Request : r \in pending ~> r \notin pending \/ At(r, "publish")

\* Every request that reached RabbitMQ is settled in the end, across crashes
\* and redeliveries, and every reply is consumed.
QueuesDrain ==
  \A r \in Request :
    /\ requestMsg[r] \in {"ready", "unacked"} ~> requestMsg[r] = "gone"
    /\ replies[r] # <<>> ~> replies[r] = <<>>
=============================================================================
