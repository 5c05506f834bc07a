----------------------------- MODULE ChatClient -----------------------------
(***************************************************************************)
(* The customer's page: the session, the workspace with its list of chats, *)
(* the thread on display, and the reader of the event stream.              *)
(*                                                                         *)
(* A coroutine of the page is split where it awaits: a request is made,    *)
(* the server answers it, and the page goes on with that answer later,     *)
(* when other answers and clicks may have come in between.  A state        *)
(* update of a component that is no longer mounted has no effect, so what  *)
(* an unmounted thread would still do to itself is left out; what it does  *)
(* to the workspace above it is not.                                       *)
(***************************************************************************)
EXTENDS Integers, Sequences, FiniteSets

CONSTANTS
  MaxChats,    \* bound: chats the customer may have
  MaxSends,    \* bound: messages sent
  MaxChunks,   \* bound: chunks of one reply
  MaxUses,     \* bound: clicks that change what is displayed
  MaxFaults,   \* bound: requests and connections that fail, reads that end
               \* inside an event
  InitialChats, \* chats there are before the first login
  Contents     \* bound: what the end of the reply to a message may carry as
               \* its content

Full == MaxChunks + 1   \* the text of a stored row; below it, chunks so far
NoContent == -1         \* an event need not carry a content

ASSUME ClientAssumption ==
  /\ {MaxChats, MaxSends, MaxChunks, MaxUses, MaxFaults} \subseteq Nat
  /\ InitialChats \in 0..MaxChats
  /\ Contents \in [1..MaxSends -> SUBSET (NoContent..Full)]

Chat == 1..MaxChats   \* numbered as created; the list shows the newest first
Send == 1..MaxSends   \* messages, and the checkpoints their replies may name

VARIABLES
  created,   \* server: chats there are
  rows,      \* server: the messages of each chat
  post,      \* the POST of each message, its stream and its reader
  session,   \* "out", "signing" or "in"; kept in localStorage
  page,      \* activePage
  list,      \* how many chats the sidebar shows
  active,    \* activeChat: a chat and how many of its rows were read
  failed,    \* error: the pane shows it instead of the thread
  loading,   \* the first list is awaited
  thread,    \* the mounted ChatThread
  tasks,     \* requests the workspace's coroutines await
  uses, faults,
  newest,    \* history: the most rows of each chat that were ever displayed
  unseen     \* history: messages whose rows this workspace may not have read

server == <<created, rows>>
bounds == <<uses, faults>>
history == <<newest, unseen>>
workspace == <<page, list, active, failed, loading>>
vars == <<server, post, session, workspace, thread, tasks,
          bounds, history>>

Terminal == {"completed", "confirmation_required", "failed"}
Event == {"chunk"} \cup Terminal
Row == [role : {"user", "assistant"}, send : Send,
        status : {"submitted", "interrupted"} \cup Terminal]

Message ==
  [role : {"user", "assistant"}, send : Send, text : 0..Full,
   status : {"none", "running", "complete", "error"}]

(***************************************************************************)
(* The event stream is a sequence of symbols: what "data: " and one event  *)
(* come to, and the two newlines after it.                                 *)
(***************************************************************************)
Newline == "newline"
Bytes(events) ==
  [i \in 1..(3 * Len(events)) |->
     IF i % 3 = 1 THEN events[(i \div 3) + 1] ELSE Newline]

\* Where two newlines end a block, and what is behind the last such end.
BlockEnds(buffer) ==
  {i \in 2..Len(buffer) : buffer[i - 1] = Newline /\ buffer[i] = Newline}

Remainder(buffer) ==
  LET last == CHOOSE i \in BlockEnds(buffer) \cup {0} :
                \A j \in BlockEnds(buffer) : j <= i
  IN  SubSeq(buffer, last + 1, Len(buffer))

\* The symbols of a sequence at some places, in their order.
Picked(seq, places) ==
  [k \in 1..Cardinality(places) |->
     seq[CHOOSE i \in places : Cardinality({j \in places : j <= i}) = k]]

\* The events of the blocks that are whole: their lines that are not empty.
Lines(buffer) ==
  Picked(buffer, {i \in 1..(Len(buffer) - Len(Remainder(buffer))) : buffer[i] # Newline})

\* Variant: the remainder of a read is forgotten.
Parsed_forgetful(buffer) == [events |-> Lines(buffer), buffer |-> <<>>]

\* One turn of the reader's loop: the blocks that are whole are handed on, the
\* remainder waits for the next read.
Parsed(buffer) == [events |-> Lines(buffer), buffer |-> Remainder(buffer)]

(***************************************************************************)
(* Records of the page.                                                    *)
(***************************************************************************)
NoChat == [chat |-> 0, upTo |-> 0]
NoThread == [chat |-> 0, messages |-> <<>>, sending |-> 0,
             checkpoint |-> 0, confirming |-> 0]

Unsent == [chat |-> 0, server |-> "idle", net |-> "none",
           sent |-> <<>>, content |-> NoContent,
           read |-> 0, buffer |-> <<>>, handed |-> <<>>]

\* Variant: the thread starts empty and waits for events.
Fresh_empty(a) == [NoThread EXCEPT !.chat = a.chat]

\* What a newly mounted thread shows: the rows of the chat as last read.
Fresh(a) ==
  [NoThread EXCEPT !.chat = a.chat,
     !.messages = [i \in 1..a.upTo |->
        LET row == rows[a.chat][i] IN
        [role |-> row.role, send |-> row.send, text |-> Full,
         status |-> IF row.role = "assistant" THEN "complete" ELSE "none"]]]

\* The chat whose thread is displayed, if any.
Displayed(p, f, a) == IF p = "chat" /\ ~f THEN a.chat ELSE 0

\* Variant: the thread that is there stays, whatever is to be displayed.
Rendered_kept(p, f, a, t) ==
  CASE t.chat # 0 -> t
    [] t.chat = 0 /\ Displayed(p, f, a) = 0 -> NoThread
    [] OTHER -> Fresh(a)

\* Variant: without the key a new chat keeps the thread of the old one.
Rendered_unkeyed(p, f, a, t) ==
  LET c == Displayed(p, f, a) IN
  CASE c = 0 -> NoThread
    [] c # 0 /\ t.chat # 0 -> [t EXCEPT !.chat = c]
    [] OTHER -> Fresh(a)

\* A thread keeps its state as long as the same chat stays on display.
Rendered(p, f, a, t) ==
  LET c == Displayed(p, f, a) IN
  CASE c = 0 -> NoThread
    [] c # 0 /\ c = t.chat -> t
    [] OTHER -> Fresh(a)

Request(op, for, c, s) ==
  [op |-> op, for |-> for, chat |-> c, send |-> s, state |-> "asked", n |-> 0]

Task == [op : {"list", "create", "open", "confirm"},
         for : {"mount", "new", "click", "reply", "confirm", "gone"},
         chat : 0..MaxChats, send : 0..MaxSends,
         state : {"asked", "answered", "failed"}, n : Nat]

TypeOK ==
  /\ created \in 0..MaxChats
  /\ rows \in [Chat -> Seq(Row)]
  /\ post \in [Send -> [chat : 0..MaxChats,
                        server : {"idle", "asked", "working", "done"},
                        net : {"none", "open", "closed", "cut", "gone", "over"},
                        sent : Seq(Event), content : NoContent..Full, read : Nat,
                        buffer : Seq(Event \cup {Newline}), handed : Seq(Event)]]
  /\ session \in {"out", "signing", "in"}
  /\ page \in {"chat", "other"} /\ list \in 0..MaxChats
  /\ active \in [chat : 0..MaxChats, upTo : Nat]
  /\ {failed, loading} \subseteq BOOLEAN
  /\ thread \in [chat : 0..MaxChats, messages : Seq(Message),
                 sending : 0..MaxSends, checkpoint : 0..MaxSends,
                 confirming : 0..MaxSends]
  /\ thread.chat = Displayed(page, failed, active)
  /\ tasks \subseteq Task
  /\ uses \in 0..MaxUses /\ faults \in 0..MaxFaults
  /\ newest \in [Chat -> Nat] /\ unseen \subseteq Send

Init ==
  /\ created = InitialChats /\ rows = [c \in Chat |-> <<>>]
  /\ post = [s \in Send |-> Unsent]
  /\ session = "out" /\ page = "chat" /\ list = 0 /\ active = NoChat
  /\ failed = FALSE /\ loading = FALSE /\ thread = NoThread /\ tasks = {}
  /\ uses = 0 /\ faults = 0
  /\ newest = [c \in Chat |-> 0] /\ unseen = {}

\* The thread after a render; a message whose thread goes away while its reply
\* is awaited is from then on nobody's.
Render(t, missed) ==
  /\ thread' = Rendered(page', failed', active', t)
  /\ unseen' = unseen \cup missed \cup
       (IF t.sending # 0 /\ thread'.chat # t.chat THEN {t.sending} ELSE {})

(***************************************************************************)
(* Session.                                                                *)
(***************************************************************************)
\* A request that was made cannot be taken back: a chat may still be created.
Abandoned ==
  {[t EXCEPT !.for = "gone"] : t \in {u \in tasks : u.op = "create"}}
\* Nobody follows the streams any more: what they bring has no effect.
Dropped(net) ==
  [s \in Send |-> IF post[s].server # "idle" /\ post[s].net # "over"
                  THEN [post[s] EXCEPT !.net = net] ELSE post[s]]

EnterWorkspace ==
  /\ session' = "in"
  /\ thread' = NoThread
  /\ unseen' = {s \in Send : post[s].server \in {"asked", "working"}}
  /\ page' = "chat" /\ list' = 0 /\ active' = NoChat
  /\ failed' = FALSE /\ loading' = TRUE
  /\ tasks' = Abandoned \cup {Request("list", "mount", 0, 0)}

LeaveWorkspace ==
  /\ thread' = NoThread /\ unseen' = {}
  /\ page' = "chat" /\ list' = 0 /\ active' = NoChat
  /\ failed' = FALSE /\ loading' = FALSE
  /\ tasks' = Abandoned

\* The button is disabled while the answer is awaited.
SubmitLogin ==
  /\ session = "out" /\ uses < MaxUses
  /\ session' = "signing" /\ uses' = uses + 1
  /\ UNCHANGED <<server, post, workspace, thread, tasks, faults, history>>

LoginAnswered ==
  /\ session = "signing"
  /\ \/ EnterWorkspace /\ UNCHANGED faults
     \/ /\ session' = "out" /\ faults < MaxFaults /\ faults' = faults + 1
        /\ UNCHANGED <<workspace, thread, tasks, unseen>>
  /\ UNCHANGED <<server, post, uses, newest>>

Logout ==
  /\ session = "in"
  /\ session' = "out" /\ LeaveWorkspace
  /\ post' = Dropped("over")
  /\ UNCHANGED <<server, bounds, newest>>

\* The page is loaded anew: its connections break, localStorage stays.
Reload ==
  /\ session = "in" /\ uses < MaxUses /\ uses' = uses + 1
  /\ EnterWorkspace
  /\ post' = Dropped("gone")
  /\ UNCHANGED <<server, faults, newest>>

(***************************************************************************)
(* Workspace.                                                              *)
(***************************************************************************)
\* openChat: the error is cleared, then the chat is requested.
Open(for, c, s, others) ==
  /\ failed' = FALSE
  /\ tasks' = others \cup {Request("open", for, c, s)}

ShowPage(p) ==
  /\ session = "in" /\ page # p /\ uses < MaxUses
  /\ page' = p /\ uses' = uses + 1
  /\ UNCHANGED <<list, active, failed, loading>>
  /\ Render(thread, {})
  /\ UNCHANGED <<server, post, session, tasks, faults, newest>>

ClickChat(c) ==
  /\ session = "in" /\ page = "chat" /\ uses < MaxUses
  /\ c \in 1..list
  /\ uses' = uses + 1
  /\ Open("click", c, 0, tasks)
  /\ UNCHANGED <<page, list, active, loading>>
  /\ Render(thread, {})
  /\ UNCHANGED <<server, post, session, faults, newest>>

NewChat ==
  /\ session = "in" /\ page = "chat" /\ uses < MaxUses
  /\ uses' = uses + 1
  /\ tasks' = tasks \cup {Request("create", "new", 0, 0)}
  /\ UNCHANGED <<server, post, session, workspace, thread, faults, history>>

(***************************************************************************)
(* Requests of the workspace.                                              *)
(***************************************************************************)
\* The server answers from what it holds at that moment.
Serve(t) ==
  /\ t.state = "asked"
  /\ t.op = "create" => created < MaxChats
  /\ created' = IF t.op = "create" THEN created + 1 ELSE created
  /\ LET n == CASE t.op = "open" -> Len(rows[t.chat])
               [] t.op = "confirm" -> 0
               [] OTHER -> created'
     IN  tasks' = (tasks \ {t}) \cup {[t EXCEPT !.state = "answered", !.n = n]}
  /\ UNCHANGED <<rows, post, session, workspace, thread,
                 bounds, history>>

\* The answer is an error, or is lost after the request was carried out.
Refuse(t) ==
  /\ t.state = "asked" /\ faults < MaxFaults
  /\ faults' = faults + 1
  /\ created' \in {created} \cup
       (IF t.op = "create" /\ created < MaxChats THEN {created + 1} ELSE {})
  /\ tasks' = (tasks \ {t}) \cup {[t EXCEPT !.state = "failed"]}
  /\ UNCHANGED <<rows, post, session, workspace, thread, uses, history>>

Rest(t) == tasks \ {t}

\* refreshChats has returned: the first load opens the newest chat, newChat
\* the chat it created.
Listed(t) ==
  /\ t.op = "list" /\ t.state = "answered"
  /\ list' = t.n
  /\ LET next == IF t.for = "new" THEN t.chat ELSE t.n IN
     IF next = 0
     THEN /\ loading' = FALSE /\ tasks' = Rest(t) /\ UNCHANGED failed
     ELSE /\ Open(t.for, next, 0, Rest(t)) /\ UNCHANGED loading
  /\ UNCHANGED <<page, active>>
  /\ Render(thread, {})
  /\ UNCHANGED <<server, post, session, bounds, newest>>

ChatCreated(t) ==
  /\ t.op = "create" /\ t.state = "answered"
  /\ tasks' = Rest(t) \cup
       (IF t.for = "gone" THEN {} ELSE {Request("list", "new", t.n, 0)})
  /\ UNCHANGED <<server, post, session, workspace, thread,
                 bounds, history>>

\* Only the first load shows its error; a click's is an unhandled rejection.
LoadFailed(t) ==
  /\ t.state = "failed" /\ t.op # "confirm" /\ t.for # "reply"
  /\ tasks' = Rest(t)
  /\ failed' = IF t.for = "mount" THEN TRUE ELSE failed
  /\ loading' = IF t.for = "mount" THEN FALSE ELSE loading
  /\ UNCHANGED <<page, list, active>>
  /\ Render(thread, {})
  /\ UNCHANGED <<server, post, session, bounds, newest>>

\* The rows between an answer and a newer one that overtook it.
Overtaken(c, n) == {rows[c][i].send : i \in (n + 1)..newest[c]}

ShowChat(t) ==
  /\ active' = [chat |-> t.chat, upTo |-> t.n]
  /\ newest' = [newest EXCEPT ![t.chat] = IF t.n > @ THEN t.n ELSE @]
  /\ UNCHANGED <<page, list>>

\* openChat goes on: whatever was asked for last, the answer that comes last
\* is displayed.
Opened(t) ==
  /\ t.op = "open" /\ t.state = "answered" /\ t.for # "reply"
  /\ ShowChat(t)
  /\ loading' = IF t.for = "mount" THEN FALSE ELSE loading
  /\ tasks' = Rest(t) /\ UNCHANGED failed
  /\ Render(thread, Overtaken(t.chat, t.n))
  /\ UNCHANGED <<server, post, session, bounds>>

(***************************************************************************)
(* The thread: sending a message and following its reply.                  *)
(***************************************************************************)
\* The runtime is running while a reply is awaited, and then offers no Send.
CanSend == thread.chat # 0 /\ thread.sending = 0

\* onNew.
SendMessage(s) ==
  /\ CanSend
  /\ post[s].server = "idle" /\ \A r \in 1..(s - 1) : post[r].server # "idle"
  /\ thread' = [thread EXCEPT !.sending = s,
       !.messages = @ \o
         <<[role |-> "user", send |-> s, text |-> Full, status |-> "none"],
           [role |-> "assistant", send |-> s, text |-> 0, status |-> "running"]>>]
  /\ post' = [post EXCEPT ![s].chat = thread.chat, ![s].server = "asked"]
  /\ UNCHANGED <<server, session, workspace, tasks, bounds, history>>

Replying(message, s) == message.role = "assistant" /\ message.send = s

WithReply(t, s, Change(_)) ==
  [t EXCEPT !.messages = [i \in DOMAIN @ |->
     IF Replying(@[i], s) THEN Change(@[i]) ELSE @[i]]]

\* Variant: an end without content empties the message.
Finished_blank(m, content) ==
  [m EXCEPT !.text = IF content = NoContent THEN 0 ELSE content, !.status = "complete"]

\* The content of the event, or what was shown so far: a content that is empty
\* or shorter takes back text that was shown.
Finished(m, content) ==
  [m EXCEPT !.text = IF content = NoContent THEN @ ELSE content, !.status = "complete"]

\* What an event does to the message it answers, and to the thread.
Shown(t, s, event) ==
  CASE event = "chunk" ->
         WithReply(t, s, LAMBDA m : [m EXCEPT !.text = @ + 1])
    [] event = "completed" ->
         WithReply(t, s, LAMBDA m : Finished(m, post[s].content))
    [] event = "confirmation_required" ->
         [WithReply(t, s, LAMBDA m : Finished(m, post[s].content))
            EXCEPT !.checkpoint = s]
    [] event = "failed" ->
         WithReply(t, s, LAMBDA m : [m EXCEPT !.status = "error"])

\* The events of a read, one after the other.
Followed(t, s, events) ==
  LET after[n \in 0..Len(events)] ==
        IF n = 0 THEN t ELSE Shown(after[n - 1], s, events[n])
  IN  after[Len(events)]

Unread(s) == 3 * Len(post[s].sent) - post[s].read

\* reader.read returns any part of what has arrived.
Read(s) ==
  /\ post[s].net \in {"open", "closed"} /\ Unread(s) > 0
  /\ \E n \in 1..Unread(s) :
       LET p == post[s]
           new == SubSeq(Bytes(p.sent), p.read + 1, p.read + n)
           parsed == Parsed(p.buffer \o new)
       IN  /\ \/ (p.read + n) % 3 = 0 /\ UNCHANGED faults
              \/ (p.read + n) % 3 # 0 /\ faults < MaxFaults /\ faults' = faults + 1
           /\ post' = [post EXCEPT ![s].read = @ + n,
                                   ![s].buffer = parsed.buffer,
                                   ![s].handed = @ \o parsed.events]
           /\ thread' = IF thread.sending = s
                        THEN Followed(thread, s, parsed.events) ELSE thread
  /\ UNCHANGED <<server, session, workspace, tasks, uses, history>>

\* The stream has ended: the chat is read again, whichever is displayed by now.
\* (Nobody reads a content again, so it is not kept.)
StreamEnded(s) ==
  /\ post[s].net = "closed" /\ Unread(s) = 0
  /\ post' = [post EXCEPT ![s].net = "over", ![s].content = NoContent]
  /\ Open("reply", post[s].chat, s, tasks)
  /\ UNCHANGED <<page, list, active, loading>>
  /\ Render(thread, {})
  /\ UNCHANGED <<server, session, bounds, newest>>

\* Variant: the end of a stream also ends the decision that is pending.
Settled_decided(t, s) ==
  IF t.sending = s THEN [t EXCEPT !.sending = 0, !.checkpoint = 0] ELSE t

Settled(t, s) == IF t.sending = s THEN [t EXCEPT !.sending = 0] ELSE t

\* The catch block: whatever was shown, the message is now an error.
Failed(t, s) ==
  IF t.sending = s
  THEN [WithReply(t, s, LAMBDA m : [m EXCEPT !.status = "error"])
          EXCEPT !.sending = 0]
  ELSE t

StreamFailed(s) ==
  /\ post[s].net = "cut"
  /\ post' = [post EXCEPT ![s].net = "over", ![s].content = NoContent]
  /\ thread' = Failed(thread, s)
  /\ unseen' = unseen \cup {s}
  /\ UNCHANGED <<server, session, workspace, tasks, bounds, newest>>

Reloaded(t) ==
  /\ t.op = "open" /\ t.for = "reply"
  /\ \/ /\ t.state = "answered" /\ ShowChat(t)
        /\ UNCHANGED <<failed, loading>>
        /\ Render(Settled(thread, t.send), Overtaken(t.chat, t.n))
     \/ /\ t.state = "failed"
        /\ UNCHANGED <<workspace, newest>>
        /\ Render(Failed(thread, t.send), {t.send})
  /\ tasks' = Rest(t)
  /\ UNCHANGED <<server, post, session, bounds>>

(***************************************************************************)
(* The confirmation bar: Confirmar and Cancelar post to the same route.    *)
(***************************************************************************)
ConfirmAction(c, checkpoint) == Request("confirm", "confirm", c, checkpoint)

HandleConfirm ==
  /\ thread.checkpoint # 0 /\ thread.confirming = 0
  /\ thread' = [thread EXCEPT !.confirming = thread.checkpoint]
  /\ tasks' = tasks \cup {ConfirmAction(thread.chat, thread.checkpoint)}
  /\ UNCHANGED <<server, post, session, workspace, bounds, history>>

\* Whatever the answer, no checkpoint is pending afterwards.
Answered(t, s) ==
  IF t.confirming = s
  THEN [t EXCEPT !.checkpoint = 0, !.confirming = 0] ELSE t

Confirmed(t) ==
  /\ t.op = "confirm" /\ t.state # "asked"
  /\ IF t.state = "answered"
     THEN Open("confirm", t.chat, 0, Rest(t))
     ELSE tasks' = Rest(t) /\ UNCHANGED failed
  /\ UNCHANGED <<page, list, active, loading>>
  /\ Render(Answered(thread, t.send), {})
  /\ UNCHANGED <<server, post, session, bounds, newest>>

(***************************************************************************)
(* The server's side of a POST, as the page can tell it apart.             *)
(***************************************************************************)
Put(c, s, role, status) ==
  rows' = [rows EXCEPT ![c] =
             Append(@, [role |-> role, send |-> s, status |-> status])]

Accept(s) ==
  /\ post[s].server = "asked"
  /\ Put(post[s].chat, s, "user", "submitted")
  /\ post' = [post EXCEPT ![s].server = "working",
                          ![s].net = IF @ = "none" THEN "open" ELSE @]
  /\ UNCHANGED <<created, session, workspace, thread, tasks,
                 bounds, history>>

\* An error status, before or after the user's row is stored, or no answer.
Reject(s) ==
  /\ post[s].server = "asked" /\ faults < MaxFaults /\ faults' = faults + 1
  /\ \/ Put(post[s].chat, s, "user", "submitted")
     \/ UNCHANGED rows
  /\ post' = [post EXCEPT ![s].server = "done",
                          ![s].net = IF @ = "none" THEN "cut" ELSE @]
  /\ UNCHANGED <<created, session, workspace, thread, tasks,
                 uses, history>>

Closed(net) == IF net = "open" THEN "closed" ELSE net

\* The content of the end is independent of the chunks before it: the agent's
\* last text may be empty, and a reply that is processed again may differ.
Emit(s, event) ==
  /\ post[s].server = "working"
  /\ \E content \in (IF event \in {"completed", "confirmation_required"}
                     THEN Contents[s] ELSE {NoContent}) :
     post' = [post EXCEPT ![s].sent = Append(@, event), ![s].content = content,
       ![s].server = IF event = "chunk" THEN @ ELSE "done",
       ![s].net = IF event = "chunk" THEN @ ELSE Closed(@)]
  /\ IF event = "chunk"
     THEN Len(post[s].sent) < MaxChunks /\ UNCHANGED rows
     ELSE Put(post[s].chat, s, "assistant", event)
  /\ UNCHANGED <<created, session, workspace, thread, tasks,
                 bounds, history>>

\* The handler is cancelled or finds the client gone: the stream ends without a
\* terminal event, and what was streamed may be kept as an interrupted answer.
CutShort(s) ==
  /\ post[s].server = "working"
  /\ \/ post[s].net \in {"cut", "gone"} /\ UNCHANGED faults
     \/ post[s].net \notin {"cut", "gone"} /\ faults < MaxFaults /\ faults' = faults + 1
  /\ post' = [post EXCEPT ![s].server = "done", ![s].net = Closed(@)]
  /\ \/ /\ "chunk" \in {post[s].sent[i] : i \in DOMAIN post[s].sent}
        /\ Put(post[s].chat, s, "assistant", "interrupted")
     \/ UNCHANGED rows
  /\ UNCHANGED <<created, session, workspace, thread, tasks,
                 uses, history>>

\* The connection is lost with whatever has not been read.
Disconnect(s) ==
  /\ post[s].net \in {"open", "closed"}
  /\ faults < MaxFaults /\ faults' = faults + 1
  /\ post' = [post EXCEPT ![s].net = "cut"]
  /\ UNCHANGED <<server, session, workspace, thread, tasks,
                 uses, history>>

TaskStep(t) ==
  \/ Listed(t) \/ ChatCreated(t) \/ LoadFailed(t) \/ Opened(t)
  \/ Reloaded(t) \/ Confirmed(t)

Next ==
  \/ SubmitLogin \/ LoginAnswered \/ Logout \/ Reload
  \/ \E p \in {"chat", "other"} : ShowPage(p)
  \/ \E c \in Chat : ClickChat(c)
  \/ NewChat
  \/ \E t \in tasks : Serve(t) \/ Refuse(t) \/ TaskStep(t)
  \/ \E s \in Send : SendMessage(s) \/ Read(s) \/ StreamEnded(s) \/ StreamFailed(s)
  \/ HandleConfirm
  \/ \E s \in Send : Accept(s) \/ Reject(s) \/ CutShort(s) \/ Disconnect(s)
  \/ \E s \in Send, event \in Event : Emit(s, event)

Spec == Init /\ [][Next]_vars

(***************************************************************************)
(* What is promised.                                                       *)
(***************************************************************************)
\* Wherever the reads cut the stream (api.ts, streamMessage), onEvent gets the
\* events that were sent, whole and in order, and all of them when the stream
\* was read to its end.
EventsWhole ==
  \A s \in Send :
    /\ post[s].handed = SubSeq(post[s].sent, 1, Len(post[s].handed))
    /\ post[s].read = 3 * Len(post[s].sent) => post[s].handed = post[s].sent

\* An answer the thread shows as complete is on record in the chat it is shown
\* in: the stream of one chat never reaches the thread of another (the key of
\* ChatThread), and the row is stored before its event is sent.
CompleteIsStored ==
  \A i \in DOMAIN thread.messages :
    LET m == thread.messages[i] IN
    m.status = "complete" =>
      \E j \in DOMAIN rows[thread.chat] :
        /\ rows[thread.chat][j].role = "assistant"
        /\ rows[thread.chat][j].send = m.send

\* At any time the thread shows every row of its chat, a running message for an
\* answer that is stored before its event has come, except for messages whose
\* reply ended while their thread was away, whose stream or reload failed, or
\* whose chat was overwritten by an older answer.
RowsShown ==
  thread.chat # 0 =>
    \A j \in DOMAIN rows[thread.chat] :
      LET row == rows[thread.chat][j] IN
      \/ row.send \in unseen
      \/ \E i \in DOMAIN thread.messages :
           /\ thread.messages[i].role = row.role
           /\ thread.messages[i].send = row.send

\* A thread on display loses no message, and no text but once: when the end of
\* a running reply brings a content of its own, which takes the place of what
\* the chunks showed (App.tsx, event.payload.content ?? item.content).  A
\* complete answer keeps its text, and stays complete unless the connection was
\* lost behind it or the reload after it failed (the catch block of onNew does
\* not look at the status the message has).
ThreadGrows ==
  [][thread.chat # 0 /\ thread'.chat = thread.chat =>
       \A i \in DOMAIN thread.messages :
         LET old == thread.messages[i]
             new == thread'.messages[i]
         IN  /\ i \in DOMAIN thread'.messages
             /\ new.send = old.send /\ new.role = old.role
             /\ \/ new.text >= old.text
                \/ /\ old.status = "running" /\ new.status = "complete"
                   /\ new.text = post[old.send].content
             /\ old.status = "complete" /\ new.status # "complete" =>
                  \/ post[old.send].net = "cut"
                  \/ \E t \in tasks \ tasks' : t.send = old.send /\ t.state = "failed"
    ]_thread

\* A pending checkpoint leaves the screen, in a thread that stays, only when a
\* newer one takes its place or the answer to a decision comes in, be it about
\* another one (setPendingCheckpoint(null) does not look which is pending): no
\* reload and no end of a stream takes the bar away from the customer.
CheckpointKept ==
  [][thread.checkpoint # 0 /\ thread'.chat = thread.chat
     /\ thread'.checkpoint # thread.checkpoint =>
       \/ thread'.checkpoint > thread.checkpoint
       \/ thread.confirming # 0 /\ thread'.confirming = 0
    ]_thread
=============================================================================
