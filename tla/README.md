# TLA+ models of the banking customer service

TLA+ specifications of the services of this repository, TLC configurations that
model-check them on small instances, and TLAPS proofs of what matters most for
every value of the constants.

## 1. The system

A customer chats in the `frontend`. The `backend` stores the message, sends a
request over RabbitMQ to an `agents` worker and streams the reply events back as
server-sent events. The worker runs an LLM agent whose tools reach the
`banking_api` and `identity` services through `mcp_proxy`; a critical operation
(card limit, PIX) is first stored as a checkpoint and executed when the user
confirms it. The backend also keeps a knowledge base of uploaded documents, whose
chunks live in Chroma and whose versions live in PostgreSQL. The pages of the
`frontend` are the customer's chat, its thread's views, and two pages of
administration; `docs/site` is the generated documentation, whose diagrams and
whose search carry scripts of their own.

| Component | State | Operations | Hard behaviour |
|---|---|---|---|
| Chat request and stream (`backend/app.py`, `broker.py`, `agents/worker.py`) | message rows, `_pending` queues, chunk buffer, RabbitMQ queues, deliveries | submit, publish, consume reply, order chunks, store, interrupt, time out, deliver, answer, acknowledge | cancellation at each await, crash and redelivery, overlapping attempts, lost and duplicated replies, timeouts |
| Banking API (`banking_api/app.py`) | customers, accounts, cards, PIX transfers | open, profile, balance, limit, PIX | concurrent transactions at READ COMMITTED, retries after a lost reply, stale balances |
| Rate limiter (`backend/rate_limit.py`) | a token bucket per address | consume | exactness at boundaries, refusals |
| Chat memory (`backend/memory.py`, `repository.py`) | the chat's summary and `covered_until` | build the context, compress | background tasks that overlap, stale summaries, rows that commit out of order |
| Confirmation (`agents/worker.py`, `customer_service.py`, `tools.py`, `repository.py`) | checkpoints, attempts, the bank's transfers | propose, resume, execute, give up, complete, redeliver | ambiguous timeouts, double confirmation, checkpoint and operation in two transactions |
| Knowledge base (`backend/knowledge/`) | documents, versions, chunks in Chroma | ingest, reprocess, activate, remove | two stores without a transaction, concurrent versions |
| Identity (`identity/`) | users, roles, permissions | authorize a tool call, administer roles | any/own/none scopes, failing closed |
| Audit buffer (`observability/audit_buffer.py`) | a bounded deque | append, query | eviction, limits |
| MCP proxy (`mcp_proxy/`) | none | forward a call | timeouts after the call was executed |
| Chat client page (`frontend/src/App.tsx`, `api.ts`) | session, list of chats, thread, the reader's buffer, requests awaited | log in, open, create, send, read, confirm, log out, reload | answers that cross, streams that go on under a thread that is gone, events split over reads |
| Administration pages (`components/admin/`) | list, dialog or details, calls awaited | open, edit, save; upload, reprocess, (de)activate, remove | answers that come late, for another user or document, or never |
| Views of a thread (`components/assistant-ui/`) | disclosures, prompts, object URLs, groups, timers | approve, fold, attach, edit, copy, switch | state that unmounting loses, effects after rendering, a host that changes underneath |
| Diagrams of the documentation (`docs/site/.../zoompan.js`) | place and zoom, timers, localStorage | activate, zoom, pan, reset, full screen | timers that save late, two keys for one state |
| Search of the documentation (`docs/site/.../lunr/wordcut.js`) | dictionary, acceptors, path | init, cut | searches and merge marks that one character leaves to the next |
| Login, telemetry, migrations | tokens, counters, schemas | | none that a model would show |

What makes each correct: one answer per request that the client can reload; a
transfer paid once per `request_id` and debits that match the record; a rate
that no window exceeds and no refused request pays for; a summary that tells
exactly of the messages it claims to cover; a confirmed operation executed at
most once, with the proposed parameters, by somebody still allowed to; retrieval
that sees the chunks of the active version only; an authorization that never
widens a scope; a page that shows what the server holds, of the object that is
open, and tells the server what was clicked, once; a text that is cut into its
own words.

## 2. The modules

| Module | Stands for |
|---|---|
| `ChatStream` | one submitted message from the POST handler through both queues and the worker and back |
| `ChatOutcome` | what `ChatStream` promises: one row at most, told only what is on record |
| `ChatStreamProofs` | proofs about `ChatStream` |
| `BankingApi` | the Banking API's handlers as concurrent transactions |
| `BankLedger` | what the Banking API is there for: whole operations on a ledger |
| `BankingApiProofs` | proofs about `BankingApi` |
| `RateLimit` | the token buckets and the middleware |
| `RateContract` | what they promise: sliding windows over the requests let through |
| `RateLimitProofs` | proofs about `RateLimit`, among them that it implements `RateContract` |
| `ChatMemory` | one chat's summary, the context sent to the agents, and the compression |
| `ChatMemoryProofs` | proofs about `ChatMemory` |
| `KnowledgeBase` | one document, its versions in PostgreSQL and its chunks in Chroma |
| `KnowledgeBaseProofs` | proofs about `KnowledgeBase` |
| `Confirmation` | proposals, confirmations and the calls they make to the bank |
| `ConfirmationProofs` | proofs about `Confirmation` |
| `ChatClient` | the customer's page: session, chats, thread and stream reader |
| `ChatClientProofs` | proofs about `ChatClient` |
| `AdminUsers`, `KnowledgePage` | the two pages of administration, with the server behind each |
| `AdminPages` (`AdminClicks`) | one of the two mounted at a time; their common bounds |
| `ToolCard` | a tool call's group, card and approval prompt |
| `Reasoning`, `Attachments`, `ThreadList`, `ThreadPage`, `CodeHeader` | the other views of a thread |
| `ZoomPan` | the diagrams of the documentation's site |
| `Wordcut` | the word breaker of the documentation's search |
| `PageParts` | the last ten side by side |
| `PagePartsProofs` | proofs about the ten parts, stated for the whole of `PageParts` |
| `MC*` | instances for TLC |

Operators whose name has an underscore and a comment "Variant" are changed
versions of the definition below them; they show that a property would notice
the change, and no specification uses them.

### 2.1 ChatStream

A request is one POST. `stream[r].pc` is where its handler
(`_submit_message_route`, `_event_stream` and the broker's generator `stream`)
can be: `accepted` (the user's row is committed), `publish` (awaiting the
publish), `wait` (awaiting `events.get()`), `got` (an event was yielded, awaiting
`is_disconnected`), `drain` (yielding chunks in order), `flush` (yielding what is
left in the buffer), `storing` (awaiting `create_message`), `stored` (yielding
the terminal event), `partial` (the background task that saves an interrupted
answer), `ended`, or `down` (the process died). Each await and each yield is a
step boundary, so a cancellation, a disconnect or a crash can hit any of them.
`create_message` can raise before its COMMIT and after it (the reply is lost, or
the refresh fails), so a response may break off with its row on record. The
publish is awaited without a timeout (`broker.py:67`): nothing makes it return.
`pending` is `_pending`, `events` the asyncio queue of the request, `replies` its
messages in the reply queue, `requestMsg` its message in the request queue, and
`job[r][a]` the coroutine of the a-th delivery. A lost channel requeues the
delivery while the old coroutine keeps publishing; a crash of the worker ends its
coroutines.

Contents are abstract: a fragment is its attempt, its number and whether it has
text. What the agent answers is free: completed or confirmation required, some
number of slices, or an exception. RabbitMQ's reply queue is taken from a window
of its first `Window` messages, because `_consume_reply` callbacks run
concurrently. Once a handler has stopped reading, what its queue still gets is
not kept, since nothing reads it again.

### 2.2 BankingApi

A handler reads (`Find`, `Load`) and commits (`Commit`) in separate statements of
one transaction at READ COMMITTED; `Fail` is any exception before the commit, the
unique key included. A commit writes the attributes that differ from the loaded
ones (`Written`), as SQLAlchemy's unit of work does, and its reply may be lost.
`Wanted`, `Refusal` and `Load` hold what the routes do, one case per route.

A customer's rows in three tables are one record, and amounts are whole cents.
The upper bounds of the schemas and `Numeric(14, 2)` are not modelled: balances
only go down or are set to a validated value.

### 2.3 RateLimit

Time is counted in ticks that refill one unit; `Token` is the price of a request
(the code's 1.0) and `Burst` the capacity. `admitted` and `refusals` are what the
outside sees. `dispatch` awaits nothing before `consume` returns, so a request is
one step. The rounding of floats is left out.

### 2.4 ChatMemory

A message is its `created_at`, set when the INSERT is sent; `Settle` is the
COMMIT. A POST loads the chat (and its summary, which the session keeps), inserts
the user's row, reads the memory, publishes, stores the answer; afterwards the
same entry of `post` is the background task `_compress_memory_task`. A summary is
the set of messages that went into its text. `late` is a history variable: the
messages that were committed when a newer one was on record already.

### 2.5 KnowledgeBase

Documents share nothing, so the module is about one. A version is named by the
request that inserts it, and its chunks are one entry of `chroma`, because they
are written, marked and deleted together. `handler[q].pc` is where the coroutine
of `KnowledgeService` can be: `get` and `load` (the two reads of `get_document`),
`create`, `retire` (parse, and mark what was read), `upsert`, `complete`
(`complete_version`), `cleanup`, `restore` and `mark` (the except block and
`fail_version`), `change` and `commit` (a change of status), `delete` and `soft`
(a removal). A step ends at an await that yields: Chroma's `collection.update` is
called synchronously, so parsing and marking are one step; `upsert` and `delete`
run in an executor. A call of Chroma may raise with or without having had its
effect; a transaction commits or fails as a whole. That of `complete_version` may
commit and still raise, when the reply to its COMMIT is lost: the except block
then takes the chunks of a version away that is on record as completed.
`Acknowledged` are the completed versions whose request knows that they are.

Two fields follow the SQLAlchemy session, because the except block depends on it.
`begun`: the session is in a transaction when `fail_version` rolls back, which
expires every object, so that reading `version.id` afterwards is I/O outside of
an await and raises. `expired`: a failed flush has rolled back by itself and
`document.is_active` cannot be read. `overlap` is a history variable that a
property uses; no action reads it.

### 2.6 Confirmation

`attempt[a]` is the coroutine of the a-th delivery (`_consume_request` and
`_handle_request`), and its `pc` the await it is at: `agent` (the agents answer a
question), `load` (`_resume_from_checkpoint` reads the checkpoint), `call` and
`wait` (the MCP call to the bank), `publish`, `mark` (`mark_checkpoint_completed`
in a transaction of its own), `create` (`create_checkpoint`), `end`. A question
(`Send`) may end in a proposal; `Confirm` is a request that names a checkpoint.
`calls[a]` is the call on its way: the bank may serve it late, its answer may be
lost, and the caller may give up before or after it was served. The bank is the
rule that `BankingApi` is about, one transfer per `request_id` while the balance
lasts, as one step. `Crash` kills the worker's attempts and `ChannelLost` requeues
their deliveries while the coroutines go on. `by` in a transfer is a history
variable. The documents describe a confirmation through the backend; the backend
has no such route, so `Confirm` is the worker's contract and marked external.

### 2.7 ChatClient

`thread` is the mounted `ChatThread`, `tasks` the requests that the coroutines of
the workspace await (`Serve` and `Refuse` answer them, `TaskStep` goes on with the
answer when the event loop comes to it, which may be after other clicks). `post[s]`
is the POST of a message: the server's end (`Emit`), the bytes on the way, and the
reader's buffer. An event is three pieces (its line, and the two newlines that
end the block), so that `Read` may take bytes up to any of the places where a
read makes a difference to `streamMessage`. A text is its length up to `Full`.
The `content` of a terminal event is a length, the empty text, or none
(`NoContent`): `event.payload.content ?? item.content` puts any content in the
place of what the chunks showed, so an empty or a shorter one takes text back.
The row keeps the chunks when the content is empty (`app.py:391`), which the page
shows when the chat is opened again. `Contents` are those of an instance, for
each message; TLC takes none, and for the first message the empty text too, the
proofs take any.
Changing the `key` of `ChatThread` replaces `thread`; the coroutine of the old one
goes on, and what it does to the workspace is modelled, while state updates of an
unmounted component have no effect.

### 2.8 Pages of administration

`calls` (users) and `tasks` (documents) hold each request with the closure its
answer will be handled in: which user or document, what was selected when it was
sent. The server's step and the page's step are separate, so an answer may be
overtaken by a click, another answer or the page's unmounting. `adrift`, `crossed`
and `overdue` are history: they say where the code makes no promise.

### 2.9 Views of a thread

`ToolCard` takes the host (assistant-ui's runtime and the backend behind it) as
the environment: it asks, changes its option list, decides or ends the call at any
time. `group`, `card` and `prompt` are React state and are lost when their
parent's closing animation ends (`GroupGone`, `CardGone`). `Attachments` splits an
effect from the rendering before it (`UrlEffects`), so that a holder may show the
last file's URL in between. `ThreadList` computes its groups when the threads
change, not when the clock does, as the memo does. `ThreadPage` takes what a click
does to the messages from the runtime (external) and models which clicks there
are; `Reasoning` and `CodeHeader` are the disclosures and the copy mark.

### 2.10 ZoomPan

`stored` is localStorage under both keys the script uses: state is saved under a
box's number and cleared under its `id`. `zoomSave` and `panSave` are the timers
that movements start anew; `SaveDue` fires one. `old` marks an entry of more than
thirty days. A save or a read of localStorage may throw, which the script only
warns of: the place is then not remembered, and `failed` (history) says so.
`InitialPlace` is the configured `initial_zoom_level`, where a diagram begins and
where a read that finds nothing leaves it.

### 2.11 Wordcut

The search of the documentation breaks a text that has no spaces between its
words, Thai first of all. `BuildPath` is one turn of `buildPath`: the acceptors of
the dictionary and of the rules take the next character (`TransitAll`), those that
are final offer a piece that ends here (`InfoOf`, or `Fallback` when there is
none), and the best offer goes onto `path`. `PathToRanges` is one turn of
`pathToRanges`, from the end of the text. A character is a number in the order of
the codes, and the constants say which of them each rule accepts, so that a few
characters stand for all: the rules only compare, order and classify. The words
of the file are a constant, since the file is part of the script. The field `mw`
of a path is left out, because no acceptor has one. `cut`, `cutIntoRanges` and
`cutIntoArray` differ in what they return of the ranges. `DictSeek` is the loop of `dictSeek`: a recursive
function of its `l`, `r` and `ans`, one turn of which is `Narrowed`. The acceptors of the last
text stay until the next one resets them, and `init` may be called again with
other words.

An unknown piece begins at `leftBoundary`, which is the index of the last character that is
known: it may swallow that character from the word before. No document speaks
of it, and `CutRight` says nothing of the places of unknown pieces.

`PageParts` puts the ten parts side by side; they share nothing, so `shown` picks
one of them at the start and only that one moves; the others begin in one way
only. The run explores each part in full, not their product.

## 3. The runs

| Run | Shows | Bounds |
|---|---|---|
| `chat_order` | `AnswerHasSource`, `ChunksInOrder`, `InterruptedIsPrefix` | one request, three chunks, replies that overtake and one duplicate |
| `chat_live` | `AnnouncedIsStored`, `ImplementsOutcome`, `StreamEnds`, `RegistrationReleased`, `QueuesDrain` | one request, one slice, two attempts |
| `bank_pix` | `TypeOK`, `RetryPaysOnce`, `AnswersAgree`, `MoneyNeverLost` | four PIX calls, three threads, two `request_id`s, two customers |
| `bank_serial` | `ImplementsLedger` | three calls of any route, two threads |
| `rate_windows` | `WindowBound`, `ImplementsContract` | two addresses, price 2, capacity 5, five ticks |
| `memory_summary` | `SummaryExact`, `ContextTail` | four POSTs, two open and two INSERTs on their way at once, a window of two messages |
| `kb_versions` | `VersionNumbersConsecutive`, `CompletedIsIndexed`, `LeftoversNeedTwoFailures`, `StoresAgree` | four requests of any kind, one failing call, one crash |
| `kb_doc_status` | violates `FinalStatusRecorded` | two requests, nothing fails |
| `kb_doc_inactive` | violates `InactiveNotRetrieved` | an upload and a change of status, nothing fails |
| `confirm_pix` | `OncePerConfirmation`, `SaidIsDone`, `SettledStays` | three requests, four attempts, one lost worker or channel, two checkpoints |
| `web_page` | `TypeOK`, `EventsWhole`, `CompleteIsStored`, `RowsShown`, `ThreadGrows`, `CheckpointKept` | two chats, two messages, one chunk, two clicks, one fault |
| `page_parts` | `ViewTypeOK`, `DeclaredListKept`, `OneAnswerPerShowing`, `UrlsHeld`, `GroupsKeyed`, `ListedAsStored`, `DialogIsOfUser`, `PageIsCurrent`, `ZoomRemembered`, `CutRight` | two users, documents, files and diagrams, three threads, four clicks, one failing call, texts of up to five characters |

The type invariants of `ChatStream`, `RateLimit`, `KnowledgeBase` and
`Confirmation`, and the inductive invariants `StreamInv`, `ListenerRegistered`,
`BucketInv` and `DebitCovered`, are proved (section 4) and not repeated in a run;
`AtMostOneAnswer` is proved too, and part of what `ImplementsOutcome` says.

Why the bounds are enough. Two attempts of the worker are what a redelivery
takes, and overlapping ones need no third; three chunks are the least of which
one can be missing between two others. One request is enough because requests
share nothing but the crashes; the theorems are about every set of requests.
Four PIX calls on three threads contain two that race on one `request_id` while a
third debits the same account and a fourth retries. Of the routes that write, two handlers at a time are
what one can overtake the other with, and the third call opens the account. A capacity of two and a half
requests makes a bucket hold part of a token at its limit. A window of two
messages is the least whose half is not zero; four POSTs are what it takes for a
summary to exist and two later tasks to overwrite each other. An upload and two
reprocessings race on a version's number, and the fourth request is a removal or
a change of status among them; one failing call reaches every except block, and
`LeftoversNeedTwoFailures` says that one is not enough for chunks to stay behind
(with two failures they do). A question and two confirmations are the least in
which a settled proposal may be confirmed again; the fourth attempt is the redelivery of
one of them after a loss, and two checkpoints let a confirmation name either. On
the customer's page two chats let the answers of one come to the other, two
messages let a confirmation and an answer cross, and one fault is a lost
connection, a failed call or a read that ends inside an event. An administrator's
dialog can be opened, left, opened for the other user and saved in four clicks; a
prompt can be shown twice, so that the second showing has seen the first's answer;
three threads and a clock of four days (`Day = 1`) give one thread to each of the
list's three labels, and days that pass after the groups were made. Texts of five
Thai characters hold two syllables that overlap and three words that contend, in
every order; texts of up to three over all classes put every rule beside every
other; each is cut after every other, with and without additional words.

### Fairness

Only `chat_live` needs it. `FairSpec` assumes weak fairness of each stream's
steps but the publish (the event loop runs ready tasks, `wait_for` expires, the
database answers), of the closing of abandoned generators (the event loop's
asyncgen hooks), of the reply consumer and of deliveries (RabbitMQ redelivers),
and of each job's steps (the agent answers, RabbitMQ takes a reply). The publish
of a request waits for RabbitMQ's confirm without a timeout and is not assumed to
return: `StreamEnds` and `RegistrationReleased` say of a stream that does not end
that it stays at `publish`. `QueuesDrain` is about requests that have arrived, and
rests on the worker's publishes and the agent's answer, which the worker awaits
without a bound of its own. No fault is fair: users, crashes and exceptions may or may not come.
The number of losses is bounded, so a request is not redelivered for ever.

### Where code and documents differ

* `FinalStatusRecorded`: when a file cannot be parsed, `fail_version` raises
  before its UPDATE, because its own rollback has expired the version; the
  version stays `processing`, while `specs/features/12-file-ingestion.md:112`
  wants the final status registered.
* `InactiveNotRetrieved`: a change of status marks the chunks of the versions that
  were completed when it loaded its document. An upload that has upserted its
  chunks as active and not yet completed its version is missed: the document is
  set inactive, the upload completes, and the agents, who select by the mark in
  Chroma alone, retrieve its chunks; `specs/features/12-file-ingestion.md:111` says
  that inactive documents cannot be retrieved.

Noted without a run, in the services:

* when an attempt dies after some chunks and the redelivered one ends with an
  empty text, the dead attempt's chunks are stored as the completed answer
  (`app.py:391`); `specs/features/01-chat-experience.md:79-80` wants them kept as
  an incomplete one;
* after partial chunks a `failed` event stores a fixed apology instead of the
  chunks; the same lines;
* the summary is updated after the response (`app.py:291`), not before the
  request is published (`01-chat-experience.md:69`), so the message that has just
  left the window may be in neither part of the context;
* a `completed` event that was received is dropped without a row when the client
  is gone, the response cancelled or the store fails; line 64 says the backend
  persists on `completed`;
* a publish that fails leaves the message `submitted`; line 77 wants it marked as
  failed;
* no request cancels an answer, which line 71 speaks of;
* a reprocessing reads `is_active` before it parses and embeds; when the document
  is made inactive meanwhile, the new chunks are active as well
  (`knowledge/service.py:137`);
* a confirmation does not ask Identity again before it executes, which
  `05-critical-pix.md:169` wants; the checkpoint is completed whatever the
  outcome was (`worker.py:129`), and `mark_checkpoint_failed` is never called;
* `docs/docs/backend.md:13` lists `POST /api/chats/{chat_id}/confirm`; the backend
  has no such route and puts no `checkpoint_id` into a request. Whoever
  confirms one proposal by two requests pays it twice, since each confirmation is
  executed under its own `request_id`; no code here sends even one, so nothing is
  checked per proposal, only per confirmation (`OncePerConfirmation`);
* `docs/docs/backend.md:106` gives the rate limit as 100 requests a minute,
  configurable, and `app.py:129` installs 10 a second with bursts of 20, fixed;
* a bucket is kept for every address ever seen (`rate_limit.py:45`); a limit of 1
  or 0 makes the slice of `memory.py:48` empty and raises; a limit of 0 returns
  the whole audit buffer (`audit_buffer.py:36`).

In the pages:

* rows stored as interrupted are shown as complete when a chat is opened again
  (`App.tsx:354-361`); `01-chat-experience.md:79-80`;
* a chat opened while its stream is read shows the rows of that moment and not
  the rest of the answer; line 72 speaks of going on with the display;
* when the dialog of roles is closed for one user and opened for another while
  the first one's roles are awaited, it may show the wrong ones; Save can be
  clicked while roles are still awaited (`AdminUsersPage.tsx`);
* on the knowledge page, a document that was selected while another was being
  removed is deselected when the removal is over;
* a declared option list that is empty gives the general Allow and Deny buttons
  (`tool-fallback.tsx:459`; its comment at 358-361 says the kit never adds an
  approval beyond a declared list); a prompt that was answered, folded away and
  opened again can be answered again; a prompt inside a folded group is not seen;
* two copies of a block of code share one mark, and the first one's timer takes
  it away; a preview whose source changes keeps the loaded mark of the last one;
* a reset of a diagram clears the state under the box's `id` and not under the
  number it is saved under (`zoompan.js:84-85`); leaving within the 200 ms before
  the next save brings the old zoom back; Escape over a diagram that is not on
  the full screen resets it and scrolls the page.

### What does not hold

* `ImplementsLedger` has one exception, the PIX that is overtaken: another handler
  changed the balance between its SELECT and its COMMIT, and
  `account.balance -= amount` writes what it computed from the old one. Two
  transfers on record may then debit once, and a balance that was set may be lost.
  `MoneyNeverLost` says what is left for an API of PIX calls: nothing is debited
  without a transfer.
* `SummaryExact` and `ContextTail` say nothing of `late` messages. With two INSERTs
  of one chat in flight a message may be committed behind a newer one that a
  summary covers already; it is then in no summary and in no window.
* `CompletedIsIndexed` and `StoresAgree` are about acknowledged versions: when the
  reply to the COMMIT of `complete_version` is lost, its except block deletes the
  chunks, and marks the previous ones active again, while the record names the new version as completed.
* `StoresAgree` fails without each part of `Undisturbed`:
  a failure or a crash between marking the chunks and committing `is_active`
  leaves a half change of status; a failed INSERT of `complete_version` expires the document,
  and the old chunks stay inactive; two reprocessings that overlap both leave
  their version active; a change of status during an upload misses its chunks. A
  crash after the upsert leaves chunks that no record names. An activation marks the chunks of superseded versions too, which is why
  `StoresAgree` asks for the newest version only.

`specs/features/12-file-ingestion.md` asks for indexing that avoids a divergence of
the database and Chroma (line 103) and for tests of atomicity (line 137), without
saying what must hold after a failure; of the balance under overlapping transfers
and of messages that commit late no document speaks. These are hazards here; a
finding is only what contradicts a line that says what must be.

## 4. The proofs

All hold for every value of the constants that the named assumptions admit.

`ChatStreamProofs`: `StreamInvariant` proves `StreamInv`, the conjunction that
fixes, for each place a handler can be at, which rows and which notification
exist: no row before `stored`, one with the terminal event's status at `stored`,
at most one when the stream broke off, since it may have done so behind the
COMMIT. `AtMostOneAnswer` alone is not inductive, because
whether `Store` may append depends on no row having been stored before, and
`AnnouncedIsStored` is not, because `Announce` relies on what `Store` wrote.
`OneAnswer` and `ToldIsStored` follow from it. `TypeCorrect` and `ListenersStay`
are inductive as they stand, the latter because every step that removes an entry
of `_pending` also leaves the places where events are read.

The other properties of `ChatStream` rest on invariants of their own. `OutcomeKept`
shows that it implements `ChatOutcome`: `Store`, `CancelAfterCommit` and
`SavePartial` are its `Record`, `Announce` its `Tell`, `PublishRaises` and
`StoreRaises` its `Break` (`Store` has recorded, if its COMMIT took effect), and every other step stutters; that a recording step
finds nothing recorded is `StreamInv`. `FragmentsInOrder` needs `Ordered`: the
numbers in the buffer are distinct and not below the next one to show, so what
waits comes after what was shown. `PartsArePrefixes` uses it: an interrupted row is
written only from a place at which the fragments gathered are numbered without a gap. `AnswersHaveSources` needs
`SourceInv`: every reply in the queue, every event of a stream, every event a
handler holds and every row comes from an attempt that had published its answer,
and such an attempt stays on record (`JobsDelivered`).

`BankingApiProofs`: `TypeCorrect` proves `TypeOK` with `DebitCovered`: a balance
is a natural number because the amount was compared with the loaded balance and
the loaded balance is what the debit is computed from, whatever was committed in
between. `PaysOnce` rests on the unique key at the commit. `PaidIsOnRecord`
rests on transfers never being removed. `MoneyStays` is about an API of which only
`/v1/pix` is called, as in `bank_pix`, for a card payment takes money without a
transfer. Its `MoneyInv` says of a handler that is about to commit that the
balance it loaded, together with all that is paid by now, was enough; since
transfers only become more, the commit keeps that, whatever balance it
overwrites. Cents that were paid are counted as the elements of a set
(`CentsPaid`), so that one transfer more is a union of disjoint sets
(`CentsAdded`). `ApiIsLedger` is for any number of threads
and needs `LoadedInv`: a handler that is about to commit has loaded a record that
allows its operation, and the customer is open by now if he was then, or the
record is the loaded one still. Nobody closes a customer again, and an UPDATE
holds only the columns the handler changed, so a commit over a record that others
have changed is still the ledger's operation (`CommitIsLedger`), but for the one
that computes what it writes from a balance that is not the account's any more;
every other step stutters.

`RateLimitProofs`: `BucketExact` proves the exact meaning of a bucket: for each
request let through, tokens plus the price of that request and the later ones are
within the capacity and the time since (`WindowsFit`), and for one of them, or
for the full bucket, with equality (`SomeWindowFull`). Neither half is inductive
without the other's type facts. `NeverOverRate` follows from the first half; that
`RateLimit` implements `RateContract` (`BucketsImplement`) needs both: the first
for what is let through, the second for what is refused.

`KnowledgeBaseProofs`: `Invariant` proves `IInv`. `CompletedIsIndexed` is not
inductive alone: `Complete` relies on the chunks of its version being in Chroma
and nobody having deleted them, which holds because a removal deletes what was
indexed when it read, a version is not indexed before it is completed, and the
except block that deletes them belongs to a request that has met a failure, so
that its version is not acknowledged.
`VersionNumbersConsecutive` needs that a number that was read is at most one more
than the versions there are when it is inserted (`NextNumberIs`, `PlaceInv`); the
unique constraint then leaves only that one. `TypeCorrect`, `NumbersConsecutive`
and `CompletedKeepsChunks` follow. `StoresInvariant` adds two invariants.
`LeftInv` counts: at every place of a handler it says how many failures that
handler has met at least, if chunks of its version may be there; at the end these
are two (`OneFailureLeavesNothing`). `SeqInv` is about requests that do not
overlap: it fixes, for the one request that is under way and the place it is at,
which versions have active chunks in relation to the document's record, and that
each except block restores the relation; between two requests it is what
`StoresAgree` says (`StoresAgreeBetween`).

`ChatMemoryProofs`: `SummaryIsExact` and `ContextHasTail` hold for any number of
INSERTs in flight. `ExactInv` says of every summary that a task or a POST holds
that it is exact about the messages on record but the late ones (`OnRecord`), of
what a task read that no others are missing before its last (`Complete`), and of a
window that what it leaves out lies before it (`Window`). A message that is
committed is later than all others (`LaterRow`), which changes nothing that is
held, or late (`LateRow`), which is excepted. An old summary that is written over
a newer one is still exact, and that is the argument.

`ConfirmationProofs`: `PaysOncePerConfirmation` rests on `Traced`: whatever names
a request (an attempt, a call, a transfer) carries the checkpoint and the amount
of the proposal that request named, and a transfer's `request_id` is unique
because the bank refuses a second. `SettledForGood` needs `Traced` too: a transfer
of a checkpoint is made from a call that names it, and none is on its way.
`SaidOnlyIfDone` adds `ServedKept`, `WaitKept`, `SaidKept` and `ToldKept`: success
that was told is traced back through the attempt that said it and the call it
waited for to what the bank did. The second confirmation of a proposal is a
different request, which is why no such theorem holds per proposal.

`ChatClientProofs`: `PageInvariant` proves `IInv`, from which all the properties
of `web_page` follow, for any number of chats, messages, chunks, clicks and faults.

* The reader: `StreamInv` says that the buffer is the stream from the start of the
  event the last read ended in, and that `handed` is all before it. That a read
  keeps it (`ParsedIs`, `ReadIs`) is a fact about `Parsed` for every stream and
  every cut: two newlines end a block at multiples of three only, and the lines
  of whole blocks are the events (`PickedFirsts`). `EventsArriveWhole` follows.
* The thread: `Followed` is a recursive function over the events of one read;
  `FollowedSteps` gives its value in closed form, since all but the last are
  chunks. `SendingInv` ties the message that is being answered to the chunks that
  were handed on, and the thread's chat to that of the post, which with "a
  terminal event is sent after its row is stored" (`PostInv`) gives
  `CompleteAnswersStored`.
* The workspace: `RowsShown` is not inductive. What is displayed next comes from
  an answer that may be old by then, so `ReadInv` says of the chat on display and
  of every answer that is on its way that each row behind it is of a message
  whose reply the thread awaits, or one of `unseen`, or one that a newer answer
  has brought already. `RenderedIs` splits a render into its three outcomes.
* `ThreadOnlyGrows` (text is taken back only by the content of a reply's end) and
  `CheckpointStays` are properties of single steps in states
  that satisfy `IInv`: that a message is still running when its terminal event is
  read (`ReplyInv`), and that a pending checkpoint is not newer than the message
  that is being answered.

`PagePartsProofs`: `AnswersOnce` needs `ShowingsKept`: no answer is of a showing
yet to come, and a prompt whose showing has answered is submitted. For
`DeclarationKept` each answer is judged when it is told, by the list of that moment
(`NoGeneralAllow`, `ConfirmWhileConfirming`); that a refusal is offered
(`AlwaysRefusable`) holds in every state in which the prompt is visible, whatever the list.
`UrlsAreHeld` needs `HooksOwn`: each hook has a URL if and only if it has a file, no
two hooks have the same one, and none has any while there is no tile.
`PlacesRemembered` is inductive with the types (`ZoomInv`): an active diagram with no
timer pending is where its key says, unless what the key holds is thirty days old
or localStorage failed the last time it was asked.
`ListIsAsStored` and `DialogShowsItsUser` need `UsersInv`, which says of every call
that is awaited whose roles it carries and whether its dialog is still there;
`PageShowsBackend` needs `KnowledgeInv`: whatever was changed since an answer was
given, a task that will read again is under way. `GroupsHaveKeys` needs facts
about what `ThreadList` computes, for any dates: the order exists and holds each
thread once (`SortedIs`, by counting the threads that stand above each), along it
labels only go from today to earlier (`LaterDays`), and so a label that was left
does not return while the groups are made (`GroupedOnce`, `MadeOnce`). Each part's invariant is kept by
the steps of the other parts because they leave its variables alone.

`TextsAreCutRight` assumes of the constants of `Wordcut` only that there are
finitely many words (`WordcutAssumption`). Its argument has four steps.

* The dictionary: a finite set of texts can be sorted (`RankedWords`), so what
  `SortUniq` chooses ascends (`WordsAscend`). Among words that agree up to a
  character the next characters ascend as well (`NextAscends`), so each of the two
  searches of `dictSeek` finds the first or the last word that goes on, if there is
  any (`SeekFinds`), and between the two are all of them (`WordsGoOn`).
* The acceptors (`AcceptorsRight`): for every word and pattern that the last k
  characters begin there is an acceptor that has got k of them, since one more of
  each starts at every character and `Transit` drops only what does not go on
  (`NextAcceptors`).
* The path (`PathRight`): each place refers to an earlier one; the places within a
  syllable are marked (`GrownMarked`); and a place up to which the text can be cut
  into words has no unknown piece and no more pieces than that (`GrownShort`): the
  last word ends there in a final acceptor, the path to where it begins is as
  short, and `selectPath` takes no worse one (`SelectIs`).
* The ranges (`Joined`): those made so far join from `e` to the end of the text,
  and what they begin with, the first one aside, is no marked place. When `e` is 0
  these are the three parts of `CutRight`.

`PartsAreTyped` puts the invariants of all parts together. Where a part has no
other theorem its type invariant is almost inductive: `CodeInv` adds that writes
and timers are no more than the copies, `PageInv` that nothing is on display while
the chat is loading, and `ToolTyped` says first what a prompt may be at all.

### Induction

The library's induction theorems take a predicate as a parameter, which these
provers cannot instantiate. Where a proof needs induction it takes the least
counterexample instead: the set of numbers that falsify the claim is a set of
naturals, and `NatMin` gives its least element from the library's `WFMin` and
`NatLessThanWellFounded`, which have no such parameter. A recursive function is a
`CHOOSE` of a function that satisfies its equation; that there is one is shown by
a closed form (`FollowedSteps`), or, where there is none, by counting up to its
length (`CountUp`, `MadeIs`), or to the number of words a search has left
(`SeekExists`).

### Only model-checked

The liveness properties `StreamEnds`, `RegistrationReleased` and `QueuesDrain`, which
are beyond the prover. Every other property of a passing run is a theorem.

## 5. Plan

1. `ChatStream`, `ChatOutcome` and their proofs: done.
2. `BankingApi`, `BankLedger` and their proofs: done.
3. `RateLimit`, `RateContract` and their proofs: done.
4. `ChatMemory` and its proofs: done.
5. `KnowledgeBase` and its proofs: done.
6. `Confirmation` and its proofs: done.
7. `ChatClient`, the administration pages, the views of a thread and `ZoomPan`,
   checked by `web_page` and `page_parts`, with their proofs: done.
8. `Authorization`: the scope rules of `identity/authorization.py` against a
   reference definition, and the tool gate of `agents/middleware.py`.
9. The audit buffer and the text chunker as functions against reference
   definitions.
10. `Wordcut`: done.
11. Proofs of `ViewTypeOK` and `CutRight`: done.

## 6. Not modelled

* Login and tokens (checks by a library, no state), telemetry (nothing reads it
  back), migrations (run once; the seed rows are the Banking API's initial
  state), the quality of what an LLM answers or retrieves (a free choice).
* Identity's decisions: which tools and scopes a token allows is part of the free
  choice of what the agents answer; the one UPDATE it makes is the server of
  `AdminUsers`. The MCP proxy has no state; what it loses or delays is in
  `Confirmation`. The chunker and the audit buffer are sequential functions.
* Listing and creating chats on the backend are single statements; the page's
  side of them is in `ChatClient`.
* Of the pages: layout, styles, wording, animations and scroll locks, the
  rendering of markdown, and the components under `components/ui`, which keep no
  state of the application.
* Of the documentation's site: the rest of the search (`lunr`, `tinyseg.js`, the
  stemmers, and the libraries bundled into `wordcut.js` after its own 620 lines,
  all of third parties) and the generated pages. Everything else that is vendored or generated: lock files,
  `observability/clickhouse-setup`.
