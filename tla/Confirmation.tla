---------------------------- MODULE Confirmation ----------------------------
(***************************************************************************)
(* Critical operations of one customer (agents/worker.py,                  *)
(* customer_service.py, tools.py, repository.py): a question may end in a  *)
(* proposal, kept as a checkpoint; a later request that names the          *)
(* checkpoint executes it.  The worker handles several requests at once,   *)
(* each in an attempt of its own; what is not acknowledged is delivered    *)
(* again.  The bank pays a request_id once (BankingApi).                   *)
(***************************************************************************)
EXTENDS Integers, Sequences, FiniteSets

CONSTANTS
  Request,        \* requests there may be
  MaxAttempts,    \* bound: deliveries
  MaxLosses,      \* bound: dead workers and lost channels
  Amount,         \* amounts a PIX may have
  Limit,          \* limits a card may have
  Funds,          \* the balance at first
  CardLimit,      \* and the card's limit
  MaxCheckpoints  \* bound

ASSUME ConfirmationAssumption ==
  /\ {MaxAttempts, MaxLosses, MaxCheckpoints, Funds} \subseteq Nat
  /\ Amount \subseteq Nat \ {0} /\ Limit \subseteq Nat \ {0} /\ CardLimit \in Nat

Attempt == 1..MaxAttempts
Operation == [tool : {"create_pix"}, value : Amount]
             \cup [tool : {"update_card_limit"}, value : Limit]

VARIABLES
  request,      \* [state, checkpoint]: checkpoint is 0 in a question
  attempt,
  checkpoints,  \* [operation, status], by id
  bank,         \* [balance, limit, transfers, updates]
  calls,        \* the call each attempt has made to the bank
  announced,    \* final answers: [request, type, said, checkpoint]
  losses

vars == <<request, attempt, checkpoints, bank, calls, announced, losses>>

Idle == [pc |-> "idle"]
Done == [pc |-> "done"]
NoCall == [state |-> "none"]
Transfer == [request : Request, checkpoint : 1..MaxCheckpoints, value : Amount,
             by : Attempt]  \* by: history, whose call it was

Said == {"none", "nothing", "done", "unavailable"}
Handling ==
  [pc : {"agent", "load", "call", "wait", "publish", "mark", "create", "end"},
   request : Request, holds : BOOLEAN, said : Said,
   proposal : SUBSET Operation, opened : 0..MaxCheckpoints]

TypeOK ==
  /\ request \in [Request -> [state : {"unsent", "queued", "taken", "gone"},
                               checkpoint : 0..MaxCheckpoints]]
  /\ attempt \in [Attempt -> {Idle, Done} \cup Handling]
  /\ checkpoints \in Seq([operation : Operation, status : {"pending", "completed"}])
  /\ Len(checkpoints) <= MaxCheckpoints
  /\ bank \in [balance : 0..Funds, limit : Limit \cup {CardLimit},
               transfers : SUBSET Transfer,
               updates : SUBSET [request : Request, value : Limit]]
  /\ calls \in [Attempt -> {NoCall} \cup
       [state : {"sent", "served", "refused"}, request : Request,
        checkpoint : 1..MaxCheckpoints]]
  /\ announced \subseteq [request : Request, said : Said, checkpoint : 0..MaxCheckpoints,
                          type : {"completed", "confirmation_required"}]
  /\ losses \in 0..MaxLosses

Init ==
  /\ request = [r \in Request |-> [state |-> "unsent", checkpoint |-> 0]]
  /\ attempt = [a \in Attempt |-> Idle]
  /\ checkpoints = <<>>
  /\ bank = [balance |-> Funds, limit |-> CardLimit, transfers |-> {}, updates |-> {}]
  /\ calls = [a \in Attempt |-> NoCall]
  /\ announced = {} /\ losses = 0

(***************************************************************************)
(* The environment: what is asked and confirmed.                           *)
(***************************************************************************)
Send(r, checkpoint) ==
  /\ request[r].state = "unsent"
  /\ request' = [request EXCEPT ![r] = [state |-> "queued", checkpoint |-> checkpoint]]
  /\ UNCHANGED <<attempt, checkpoints, bank, calls, announced, losses>>

\* A proposal is confirmed by who was told of it, and may be again.  This is
\* what the worker takes (models.py, checkpoint_id): the backend of this commit
\* has the schema of such a request (ConfirmRequest) and no route that sends it.
Confirm(r) ==
  \E e \in announced : e.type = "confirmation_required" /\ Send(r, e.checkpoint)

(***************************************************************************)
(* An attempt, step by step between its awaits.                            *)
(***************************************************************************)
At(a, pc) == attempt[a].pc = pc
Step(a, record) == attempt' = [attempt EXCEPT ![a] = record]
To(a, pc) == Step(a, [attempt[a] EXCEPT !.pc = pc])
Checkpoint(a) == request[attempt[a].request].checkpoint

\* What the answer says of an operation, and what it proposes.
Says(a, said, proposal) ==
  Step(a, [attempt[a] EXCEPT !.pc = "publish", !.said = said, !.proposal = proposal])

Deliver(r, a) ==
  /\ request[r].state = "queued" /\ At(a, "idle")
  /\ \A b \in Attempt : b < a => ~At(b, "idle")
  /\ request' = [request EXCEPT ![r].state = "taken"]
  /\ Step(a, [pc |-> IF request[r].checkpoint = 0 THEN "agent" ELSE "load",
              request |-> r, holds |-> TRUE, said |-> "none", proposal |-> {}, opened |-> 0])
  /\ UNCHANGED <<checkpoints, bank, calls, announced, losses>>

\* The tool of an operation, if Identity allows it and the bank can be asked;
\* everything else ends in an answer.
Eligible(o) ==
  IF o.tool = "create_pix" THEN o.value <= bank.balance
  ELSE bank.limit < o.value /\ 2 * o.value <= 3 * bank.limit

Propose(a) ==
  /\ At(a, "agent")
  /\ \/ Says(a, "none", {})
     \/ \E o \in Operation : Eligible(o) /\ Says(a, "none", {o})
  /\ UNCHANGED <<request, checkpoints, bank, calls, announced, losses>>

\* Variant: whatever the checkpoint's status.
Load_any(a) ==
  /\ At(a, "load") /\ To(a, "call")
  /\ UNCHANGED <<request, checkpoints, bank, calls, announced, losses>>

\* _resume_from_checkpoint: only what is pending is executed.
Load(a) ==
  /\ At(a, "load")
  /\ IF checkpoints[Checkpoint(a)].status # "pending"
     THEN Says(a, "nothing", {})
     ELSE To(a, "call")
  /\ UNCHANGED <<request, checkpoints, bank, calls, announced, losses>>

Call(a) ==
  /\ At(a, "call")
  /\ To(a, "wait")
  /\ calls' = [calls EXCEPT ![a] = [state |-> "sent", request |-> attempt[a].request,
                                    checkpoint |-> Checkpoint(a)]]
  /\ UNCHANGED <<request, checkpoints, bank, announced, losses>>

\* Variant: no answer in time is taken for a success.
Returned_hopeful(a) ==
  /\ At(a, "wait")
  /\ \/ calls[a].state \in {"sent", "served"} /\ Says(a, "done", {})
     \/ Says(a, "unavailable", {})
  /\ UNCHANGED <<request, checkpoints, bank, calls, announced, losses>>

\* The answer comes, or the client's time is up before or after the bank has
\* served the call.
Returned(a) ==
  /\ At(a, "wait")
  /\ \/ calls[a].state = "served" /\ Says(a, "done", {})
     \/ Says(a, "unavailable", {})
  /\ UNCHANGED <<request, checkpoints, bank, calls, announced, losses>>

\* The chunks, and then the checkpoint of a confirming request.
Publish(a) ==
  /\ At(a, "publish")
  /\ To(a, IF Checkpoint(a) # 0 THEN "mark"
           ELSE IF attempt[a].proposal # {} THEN "create" ELSE "end")
  /\ UNCHANGED <<request, checkpoints, bank, calls, announced, losses>>

Mark(a) ==
  /\ At(a, "mark") /\ To(a, "end")
  /\ checkpoints' = [checkpoints EXCEPT ![Checkpoint(a)].status = "completed"]
  /\ UNCHANGED <<request, bank, calls, announced, losses>>

Create(a) ==
  /\ At(a, "create") /\ Len(checkpoints) < MaxCheckpoints
  /\ \E o \in attempt[a].proposal :
       checkpoints' = Append(checkpoints, [operation |-> o, status |-> "pending"])
  /\ Step(a, [attempt[a] EXCEPT !.pc = "end", !.opened = Len(checkpoints) + 1])
  /\ UNCHANGED <<request, bank, calls, announced, losses>>

\* The acknowledgement of an attempt that has lost its channel has no effect.
Leaves(a) ==
  /\ Step(a, Done)
  /\ request' = IF attempt[a].holds
                THEN [request EXCEPT ![attempt[a].request].state = "gone"] ELSE request
  /\ UNCHANGED <<checkpoints, bank, calls, losses>>

Tells(a, type, said, checkpoint) ==
  announced' = announced \cup {[request |-> attempt[a].request, type |-> type,
                                said |-> said, checkpoint |-> checkpoint]}

End(a) ==
  /\ At(a, "end") /\ Leaves(a)
  /\ IF attempt[a].opened = 0 THEN Tells(a, "completed", attempt[a].said, 0)
     ELSE Tells(a, "confirmation_required", "none", attempt[a].opened)

\* Any await of the handler but the agent's may raise, those that close a
\* session or an engine as well: a failed event, which is left out here, ends
\* the request, and if it cannot be published nothing does.
Fail(a) ==
  /\ attempt[a].pc \notin {"idle", "agent", "done"}
  /\ Leaves(a) /\ UNCHANGED announced

(***************************************************************************)
(* The bank serves a call at a moment of its own, whether the caller still *)
(* waits or not.  (The route of a card's limit compares it with nothing.)  *)
(***************************************************************************)
Paid(a, value) ==
  [bank EXCEPT !.balance = @ - value,
     !.transfers = @ \cup {[request |-> calls[a].request, value |-> value,
                            checkpoint |-> calls[a].checkpoint, by |-> a]}]

\* Variant: the request_id is not looked up.
Pay_anew(a, value) == Paid(a, value)

Pay(a, value) ==
  IF \E t \in bank.transfers : t.request = calls[a].request THEN bank ELSE Paid(a, value)

Refuses(k) ==
  LET o == checkpoints[k.checkpoint].operation IN
  /\ o.tool = "create_pix" /\ o.value > bank.balance
  /\ \A t \in bank.transfers : t.request # k.request

Serve(a) ==
  LET k == calls[a]
      o == checkpoints[k.checkpoint].operation IN
  /\ k.state = "sent"
  /\ calls' = [calls EXCEPT ![a].state = IF Refuses(k) THEN "refused" ELSE "served"]
  /\ bank' = IF Refuses(k) THEN bank
             ELSE IF o.tool = "create_pix" THEN Pay(a, o.value)
             ELSE [bank EXCEPT !.limit = o.value,
                     !.updates = @ \cup {[request |-> k.request, value |-> o.value]}]
  /\ UNCHANGED <<request, attempt, checkpoints, announced, losses>>

\* A call that never arrives.
Drop(a) ==
  /\ calls[a].state = "sent"
  /\ calls' = [calls EXCEPT ![a].state = "refused"]
  /\ UNCHANGED <<request, attempt, checkpoints, bank, announced, losses>>

(***************************************************************************)
(* What is not acknowledged is delivered again: after the death of the     *)
(* worker, or of its channel only, with which its attempts go on.          *)
(***************************************************************************)
Redelivered ==
  /\ losses < MaxLosses /\ losses' = losses + 1
  /\ \E r \in Request : request[r].state = "taken"
  /\ request' = [r \in Request |->
       IF request[r].state = "taken" THEN [request[r] EXCEPT !.state = "queued"]
       ELSE request[r]]
  /\ UNCHANGED <<checkpoints, bank, calls, announced>>

Live == {a \in Attempt : attempt[a].pc \notin {"idle", "done"}}

WorkerDies ==
  /\ Redelivered
  /\ attempt' = [a \in Attempt |-> IF a \in Live THEN Done ELSE attempt[a]]

ChannelLost ==
  /\ Redelivered
  /\ attempt' = [a \in Attempt |->
       IF a \in Live THEN [attempt[a] EXCEPT !.holds = FALSE] ELSE attempt[a]]

Next ==
  \/ \E r \in Request : \/ Send(r, 0) \/ Confirm(r)
                         \/ \E a \in Attempt : Deliver(r, a)
  \/ \E a \in Attempt : \/ Propose(a) \/ Load(a) \/ Call(a) \/ Returned(a)
                         \/ Publish(a) \/ Mark(a) \/ Create(a) \/ End(a) \/ Fail(a)
                         \/ Serve(a) \/ Drop(a)
  \/ WorkerDies \/ ChannelLost

Spec == Init /\ [][Next]_vars

-----------------------------------------------------------------------------
(***************************************************************************)
(* A confirmation moves at most the money of the proposal it names, once,  *)
(* however often it is delivered and whichever of its calls was believed   *)
(* to have failed.                                                         *)
(***************************************************************************)
OncePerConfirmation ==
  \A t \in bank.transfers :
    /\ request[t.request].checkpoint = t.checkpoint
    /\ checkpoints[t.checkpoint].operation = [tool |-> "create_pix", value |-> t.value]
    /\ \A u \in bank.transfers : u.request = t.request => u = t

(***************************************************************************)
(* The customer is told of success only when the bank has executed what    *)
(* the request confirmed: "a resposta final não pode afirmar sucesso sem   *)
(* confirmação do sistema PIX" (specs/features/05-critical-pix.md).        *)
(***************************************************************************)
SaidIsDone ==
  \A e \in announced : e.said = "done" =>
    LET c == request[e.request].checkpoint
        o == checkpoints[c].operation IN
    IF o.tool = "create_pix"
    THEN \E t \in bank.transfers : t.request = e.request /\ t.value = o.value
    ELSE [request |-> e.request, value |-> o.value] \in bank.updates

(***************************************************************************)
(* A proposal that is completed and for which no call is on its way is     *)
(* never executed again, by whatever is delivered later.                   *)
(***************************************************************************)
Settled(c) ==
  /\ checkpoints[c].status = "completed"
  /\ \A a \in Attempt :
       /\ calls[a].state = "sent" => calls[a].checkpoint # c
       /\ attempt[a].pc = "call" => Checkpoint(a) # c

SettledStays ==
  [][\A c \in DOMAIN checkpoints :
       Settled(c) => /\ Settled(c)'
                     /\ \A t \in bank'.transfers \ bank.transfers : t.checkpoint # c]_vars
=============================================================================
