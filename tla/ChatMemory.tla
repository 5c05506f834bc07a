----------------------------- MODULE ChatMemory -----------------------------
(***************************************************************************)
(* The memory of one chat: what of its messages goes to the agents with a  *)
(* request (repository.get_chat_memory) and how older ones are folded into *)
(* a summary after the response (memory.compress_if_needed, a background   *)
(* task of the POST handler in app.py).                                    *)
(*                                                                         *)
(* A message is its created_at.  It is set when the INSERT is sent, before *)
(* the COMMIT that makes the row visible, so rows may become visible in    *)
(* another order than that of their times.  The text of a summary is       *)
(* abstracted to the set of messages that went into it.                    *)
(***************************************************************************)
EXTENDS Integers, FiniteSets

CONSTANTS
  Request,     \* the POSTs of this chat
  Limit,       \* recent_messages_limit
  MaxOpen,     \* bound: POSTs and background tasks in progress at once
  MaxInserts   \* bound: rows between INSERT and COMMIT at once

ASSUME MemoryAssumption ==
  /\ Limit \in Nat
  /\ MaxOpen \in Nat \ {0}
  /\ MaxInserts \in Nat \ {0}

VARIABLES
  clock,      \* the last created_at given out
  inserting,  \* messages whose INSERT is not committed
  rows,       \* messages that are committed
  late,       \* those that were committed when a newer one was there already
  partials,   \* background tasks about to store an interrupted answer
  summary,    \* the chat's row in chat_summaries
  post        \* the POST handler of each request, then its background task

vars == <<clock, inserting, rows, late, partials, summary, post>>

\* Times start at 1: until = 0 is a chat without a summary.
Summary == [until : Nat, covers : SUBSET Nat]
NoSummary == [until |-> 0, covers |-> {}]

Post == [pc : {"idle", "loaded", "insert", "stored", "recall", "sent", "reply",
               "compress", "covered", "llm", "done"},
         mine : Nat,              \* the row it waits for
         seen : Summary,          \* the summary its session holds
         messages : SUBSET Nat]   \* the messages its session holds

NoPost == [pc |-> "idle", mine |-> 0, seen |-> NoSummary, messages |-> {}]

Init ==
  /\ clock = 0
  /\ inserting = {} /\ rows = {} /\ late = {}
  /\ partials = 0
  /\ summary = NoSummary
  /\ post = [r \in Request |-> NoPost]

At(r, pc) == post[r].pc = pc
\* A handler that goes on to its task, or is over, closes its session.
Leave(r, pc) == post' = [post EXCEPT ![r] = [NoPost EXCEPT !.pc = pc]]

-----------------------------------------------------------------------------
\* The n newest of a set of messages.
Newest(n, ms) == {m \in ms : Cardinality({k \in ms : k > m}) < n}

Uncovered(ms, s) == {m \in ms : m > s.until}

\* create_message sends its INSERT.
Stamp ==
  /\ Cardinality(inserting) < MaxInserts
  /\ clock' = clock + 1
  /\ inserting' = inserting \cup {clock + 1}
  /\ UNCHANGED <<rows, late, summary>>

\* The database commits an INSERT, or it fails.
Settle ==
  \E m \in inserting :
    /\ inserting' = inserting \ {m}
    /\ \/ /\ rows' = rows \cup {m}
          /\ late' = IF \E k \in rows : k > m THEN late \cup {m} ELSE late
       \/ UNCHANGED <<rows, late>>
    /\ UNCHANGED <<clock, partials, summary, post>>

\* get_chat loads the summary too; the session keeps it.
LoadChat(r) ==
  /\ At(r, "idle")
  /\ Cardinality({q \in Request : post[q].pc \notin {"idle", "done"}}) < MaxOpen
  /\ post' = [post EXCEPT ![r].pc = "loaded", ![r].seen = summary]
  /\ UNCHANGED <<clock, inserting, rows, late, partials, summary>>

InsertUser(r) ==
  /\ At(r, "loaded")
  /\ Stamp
  /\ post' = [post EXCEPT ![r].pc = "insert", ![r].mine = clock + 1]
  /\ UNCHANGED partials

\* create_message returns or raises.
Inserted(r) ==
  /\ post[r].pc \in {"insert", "reply"}
  /\ post[r].mine \notin inserting
  /\ CASE post[r].mine \notin rows -> Leave(r, "done")
       [] post[r].mine \in rows /\ At(r, "reply") -> Leave(r, "compress")
       [] OTHER -> post' = [post EXCEPT ![r].pc = "stored"]
  /\ UNCHANGED <<clock, inserting, rows, late, partials, summary>>

\* session.get: from the identity map if get_chat found a summary.
GetSummary(r) ==
  /\ At(r, "stored")
  /\ post' = [post EXCEPT ![r].pc = "recall",
                          ![r].seen = IF @ = NoSummary THEN summary ELSE @]
  /\ UNCHANGED <<clock, inserting, rows, late, partials, summary>>

\* Variant: the messages are limited before they are sorted from the newest.
GetMessages_oldest(r) ==
  LET ms == Uncovered(rows, post[r].seen)
  IN  /\ At(r, "recall")
      /\ post' = [post EXCEPT ![r].pc = "sent",
           ![r].messages = {m \in ms : Cardinality({k \in ms : k < m}) < Limit}]
      /\ UNCHANGED <<clock, inserting, rows, late, partials, summary>>

\* The messages that go with the request, which is published then.
GetMessages(r) ==
  /\ At(r, "recall")
  /\ post' = [post EXCEPT ![r].pc = "sent",
       ![r].messages = Newest(Limit, Uncovered(rows, post[r].seen))]
  /\ UNCHANGED <<clock, inserting, rows, late, partials, summary>>

\* The stream's end is stored before the response is over.
InsertAnswer(r) ==
  /\ At(r, "sent")
  /\ Stamp
  /\ post' = [post EXCEPT ![r] = [NoPost EXCEPT !.pc = "reply", !.mine = clock + 1]]
  /\ UNCHANGED partials

\* The client is gone: a task of its own stores what was shown, if anything.
Interrupt(r) ==
  /\ At(r, "sent")
  /\ Leave(r, "compress")
  /\ partials' \in {partials, partials + 1}
  /\ UNCHANGED <<clock, inserting, rows, late, summary>>

InsertPartial ==
  /\ partials > 0
  /\ Stamp
  /\ partials' = partials - 1
  /\ UNCHANGED post

\* The response is broken off by an exception: no background task runs.
Break(r) ==
  /\ post[r].pc \in {"loaded", "stored", "recall", "sent"}
  /\ Leave(r, "done")
  /\ UNCHANGED <<clock, inserting, rows, late, partials, summary>>
-----------------------------------------------------------------------------
\* The task's get_chat: first the messages, then the summary.
TaskMessages(r) ==
  /\ At(r, "compress")
  /\ post' = [post EXCEPT ![r].pc = "covered", ![r].messages = rows]
  /\ UNCHANGED <<clock, inserting, rows, late, partials, summary>>

\* uncovered_messages[:-keep_recent], which is empty when keep_recent is 0.
ToCompress(ms, s) ==
  LET uncovered == Uncovered(ms, s)
      keep_recent == Limit \div 2
  IN  IF keep_recent = 0 THEN {} ELSE uncovered \ Newest(keep_recent, uncovered)

\* Few messages leave the summary alone; to_compress[-1] of nothing raises.
TaskSummary(r) ==
  LET ms == post[r].messages
  IN  /\ At(r, "covered")
      /\ IF Cardinality(Uncovered(ms, summary)) <= Limit \/ ToCompress(ms, summary) = {}
           THEN Leave(r, "done")
           ELSE post' = [post EXCEPT ![r].pc = "llm", ![r].seen = summary]
      /\ UNCHANGED <<clock, inserting, rows, late, partials, summary>>

MaxOf(ms) == CHOOSE m \in ms : \A k \in ms : k <= m

\* Variant: covered_until is the time of the newest message.
NewSummary_untilNewest(ms, s) ==
  [until |-> MaxOf(ms), covers |-> s.covers \cup ToCompress(ms, s)]

\* The model is told the current summary and the messages to compress.
NewSummary(ms, s) ==
  [until |-> MaxOf(ToCompress(ms, s)), covers |-> s.covers \cup ToCompress(ms, s)]

\* The first summary is an INSERT, whose key may be taken by now; later ones
\* are an UPDATE of whatever is there.
WriteSummary(r) ==
  /\ At(r, "llm")
  /\ summary' = IF post[r].seen = NoSummary /\ summary # NoSummary
                  THEN summary
                  ELSE NewSummary(post[r].messages, post[r].seen)
  /\ Leave(r, "done")
  /\ UNCHANGED <<clock, inserting, rows, late, partials>>

\* The model or the commit raises.
CompressRaises(r) ==
  /\ post[r].pc \in {"compress", "covered", "llm"}
  /\ Leave(r, "done")
  /\ UNCHANGED <<clock, inserting, rows, late, partials, summary>>

Next ==
  \/ Settle \/ InsertPartial
  \/ \E r \in Request :
       \/ LoadChat(r) \/ InsertUser(r) \/ Inserted(r) \/ GetSummary(r)
       \/ GetMessages(r) \/ InsertAnswer(r) \/ Interrupt(r) \/ Break(r)
       \/ TaskMessages(r) \/ TaskSummary(r) \/ WriteSummary(r) \/ CompressRaises(r)

Spec == Init /\ [][Next]_vars
-----------------------------------------------------------------------------
TypeOK ==
  /\ clock \in Nat
  /\ inserting \subseteq 1 .. clock
  /\ rows \subseteq (1 .. clock) \ inserting
  /\ late \subseteq rows
  /\ partials \in Nat
  /\ summary \in Summary
  /\ post \in [Request -> Post]
  /\ \A r \in Request : At(r, "sent") => Cardinality(post[r].messages) <= Limit

\* However tasks overlap, fail or overwrite each other's summary with an older
\* one: the summary tells only of messages up to its covered_until, and of all
\* of them that were committed in the order of their times.  (Any other may be
\* in no summary and in no window: nothing in the code looks back.)
SummaryExact ==
  /\ summary.covers \subseteq {m \in rows : m <= summary.until}
  /\ \A m \in rows \ late : m <= summary.until => m \in summary.covers

\* What goes to the agents tells no message twice, and what it leaves out of
\* the messages committed in order lies between the summary and the window.
Told(r) == post[r].seen.covers \cup post[r].messages

ContextTail ==
  \A r \in Request : At(r, "sent") =>
    /\ post[r].seen.covers \cap post[r].messages = {}
    /\ \A m \in rows \ late : m <= post[r].mine /\ m \notin Told(r) =>
         \A k \in post[r].messages : m < k
=============================================================================
