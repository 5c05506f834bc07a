------------------------- MODULE ConfirmationProofs -------------------------
(***************************************************************************)
(* Proofs about Confirmation, for any requests, bounds, amounts and        *)
(* limits.  The bank pays a request_id once; what makes that a promise     *)
(* about a proposal is that every call, wherever it is on its way, carries *)
(* the proposal that its request has named from the beginning: Traced.     *)
(***************************************************************************)
EXTENDS Confirmation, TLAPS, SequenceTheorems

Checkpoints == [operation : Operation, status : {"pending", "completed"}]
Working(a) == attempt[a].pc \notin {"idle", "done"}
Sent(r) == request[r].state # "unsent"
SentAfter(r) == request'[r].state # "unsent"

\* Where a checkpoint is spoken of, it is the one of a request that was sent.
NamesKept ==
  /\ \A r \in Request : request[r].checkpoint \in 0..Len(checkpoints)
  /\ \A e \in announced :
       /\ e.checkpoint \in 0..Len(checkpoints)
       /\ e.type = "confirmation_required" => e.checkpoint # 0
       /\ Sent(e.request)

AttemptsKept ==
  \A a \in Attempt : Working(a) =>
    /\ Sent(attempt[a].request)
    /\ attempt[a].opened \in 0..Len(checkpoints)
    /\ attempt[a].pc \in {"load", "call", "wait", "mark"} => Checkpoint(a) # 0

CallsKept ==
  \A a \in Attempt : calls[a].state # "none" =>
    /\ Sent(calls[a].request)
    /\ calls[a].checkpoint = request[calls[a].request].checkpoint

TransfersKept ==
  OncePerConfirmation /\ \A t \in bank.transfers : Sent(t.request)

Traced == NamesKept /\ AttemptsKept /\ CallsKept /\ TransfersKept

\* What no step changes: the checkpoint of a request that was sent, and the
\* operation of a checkpoint.
RequestsStay ==
  \A r \in Request : Sent(r) => Sent(r)' /\ request'[r].checkpoint = request[r].checkpoint

CheckpointsStay ==
  /\ checkpoints' \in Seq(Checkpoints) /\ Len(checkpoints) <= Len(checkpoints')
  /\ \A c \in DOMAIN checkpoints : checkpoints'[c].operation = checkpoints[c].operation
  /\ \A c \in DOMAIN checkpoints :
       checkpoints[c].status = "completed" => checkpoints'[c].status = "completed"

-----------------------------------------------------------------------------
(***************************************************************************)
(* Type correctness.                                                       *)
(***************************************************************************)
LEMMA InitTypes == Init => TypeOK
BY ConfirmationAssumption, EmptySeq, SMT
  DEF Init, TypeOK

AttemptsOK == attempt \in [Attempt -> {Idle, Done} \cup Handling]

\* An attempt that works is a record of Handling.
LEMMA WorkingRecord ==
  ASSUME TypeOK, NEW a \in Attempt, Working(a)
  PROVE  attempt[a] \in Handling
BY DEF TypeOK, Working, Idle, Done

\* A step of an attempt that goes on as a record of Handling, or is over.
LEMMA StepTypes ==
  ASSUME TypeOK, NEW a \in Attempt, NEW record \in {Done} \cup Handling, Step(a, record)
  PROVE  AttemptsOK'
BY DEF TypeOK, AttemptsOK, Step

LEMMA ToTypes ==
  ASSUME TypeOK, NEW a \in Attempt, Working(a), NEW pc, To(a, pc),
         pc \in {"agent", "load", "call", "wait", "publish", "mark", "create", "end"}
  PROVE  AttemptsOK'
<1> DEFINE n == [attempt[a] EXCEPT !.pc = pc]
<1>1. n \in Handling  BY WorkingRecord DEF Handling
<1>2. Step(a, n)  BY DEF To
<1> QED  BY <1>1, <1>2, StepTypes

LEMMA SaysTypes ==
  ASSUME TypeOK, NEW a \in Attempt, Working(a), NEW said \in Said,
         NEW proposal \in SUBSET Operation, Says(a, said, proposal)
  PROVE  AttemptsOK'
<1> DEFINE n == [attempt[a] EXCEPT !.pc = "publish", !.said = said, !.proposal = proposal]
<1>1. n \in Handling  BY WorkingRecord DEF Handling
<1>2. Step(a, n)  BY DEF Says
<1> QED  BY <1>1, <1>2, StepTypes

\* What is said of the requests, of what is told and of what is left alone.
RequestsOK ==
  request \in [Request -> [state : {"unsent", "queued", "taken", "gone"},
                          checkpoint : 0..MaxCheckpoints]]
AnnouncedOK ==
  announced \subseteq [request : Request, said : Said, checkpoint : 0..MaxCheckpoints,
                     type : {"completed", "confirmation_required"}]
Made ==
  [state : {"sent", "served", "refused"}, request : Request, checkpoint : 1..MaxCheckpoints]
CallsOK == calls \in [Attempt -> {NoCall} \cup Made]

LEMMA MadeRecord ==
  ASSUME TypeOK, NEW a \in Attempt, calls[a].state # "none"
  PROVE  calls[a] \in Made
BY DEF TypeOK, NoCall, Made

LEMMA MadeState ==
  ASSUME NEW k \in Made, NEW state \in {"sent", "served", "refused"}
  PROVE  [k EXCEPT !.state = state] \in Made
BY DEF Made

LEMMA SendTypes ==
  ASSUME TypeOK, NEW r \in Request, NEW c \in 0..MaxCheckpoints, Send(r, c)
  PROVE  TypeOK'
<1> DEFINE n == [state |-> "queued", checkpoint |-> c]
<1>1. request' = [request EXCEPT ![r] = n]  BY DEF Send
<1>2. RequestsOK'  BY <1>1 DEF TypeOK, RequestsOK
<1> QED  BY <1>2 DEF Send, TypeOK, RequestsOK

LEMMA DeliverTypes ==
  ASSUME TypeOK, NEW r \in Request, NEW a \in Attempt, Deliver(r, a)
  PROVE  TypeOK'
<1> DEFINE n == [pc |-> IF request[r].checkpoint = 0 THEN "agent" ELSE "load",
                 request |-> r, holds |-> TRUE, said |-> "none", proposal |-> {},
                 opened |-> 0]
<1>1. n \in Handling  BY ConfirmationAssumption DEF Handling, Said
<1>2. AttemptsOK'  BY <1>1, StepTypes DEF Deliver
<1> DEFINE q == [request[r] EXCEPT !.state = "taken"]
<1>3. q \in [state : {"unsent", "queued", "taken", "gone"}, checkpoint : 0..MaxCheckpoints]
  BY DEF TypeOK
<1>4. request' = [request EXCEPT ![r] = q]  BY DEF Deliver
<1>5. RequestsOK'  BY <1>3, <1>4 DEF TypeOK, RequestsOK
<1> QED  BY <1>2, <1>5 DEF Deliver, TypeOK, AttemptsOK, RequestsOK

LEMMA AttemptTypes ==
  ASSUME TypeOK, NEW a \in Attempt, Propose(a) \/ Load(a) \/ Returned(a) \/ Publish(a)
  PROVE  TypeOK'
<1>1. Working(a)  BY DEF Propose, Load, Returned, Publish, At, Working
<1>2. AttemptsOK'
  <2>1. CASE Propose(a)
    <3>1. "none" \in Said /\ {} \in SUBSET Operation  BY DEF Said
    <3>2. \A o \in Operation : {o} \in SUBSET Operation  OBVIOUS
    <3> QED  BY <1>1, <2>1, <3>1, <3>2, SaysTypes DEF Propose
  <2>2. CASE Load(a)
    <3>1. "nothing" \in Said  BY DEF Said
    <3> QED  BY <1>1, <2>2, <3>1, SaysTypes, ToTypes DEF Load
  <2>3. CASE Returned(a)
    <3>1. {"done", "unavailable"} \subseteq Said  BY DEF Said
    <3> QED  BY <1>1, <2>3, <3>1, SaysTypes DEF Returned
  <2>4. CASE Publish(a)
    <3>1. \E pc \in {"mark", "create", "end"} : To(a, pc)  BY <2>4 DEF Publish
    <3> QED  BY <1>1, <3>1, ToTypes
  <2> QED  BY <2>1, <2>2, <2>3, <2>4
<1> QED  BY <1>2 DEF Propose, Load, Returned, Publish, TypeOK, AttemptsOK

LEMMA CallTypes ==
  ASSUME TypeOK, AttemptsKept, NEW a \in Attempt, Call(a)
  PROVE  TypeOK'
<1>1. Working(a)  BY DEF Call, At, Working
<1>2. AttemptsOK'  BY <1>1, ToTypes DEF Call
<1> DEFINE n == [state |-> "sent", request |-> attempt[a].request,
                 checkpoint |-> Checkpoint(a)]
<1>3. attempt[a].request \in Request  BY <1>1, WorkingRecord DEF Handling
<1>4. Checkpoint(a) \in 0..MaxCheckpoints  BY <1>3 DEF Checkpoint, TypeOK
<1>5. Checkpoint(a) # 0  BY <1>1 DEF AttemptsKept, Call, At
<1>6. Checkpoint(a) \in 1..MaxCheckpoints
  BY <1>4, <1>5, ConfirmationAssumption DEF TypeOK
<1>7. calls' = [calls EXCEPT ![a] = n]  BY DEF Call
<1>8. CallsOK'  BY <1>3, <1>6, <1>7 DEF TypeOK, CallsOK, Made
<1> QED  BY <1>2, <1>8 DEF Call, TypeOK, AttemptsOK, CallsOK, Made

LEMMA LeavesTypes ==
  ASSUME TypeOK, NEW a \in Attempt, Working(a), Leaves(a)
  PROVE  AttemptsOK' /\ RequestsOK'
<1>1. AttemptsOK'  BY StepTypes DEF Leaves
<1> DEFINE r == attempt[a].request
           q == [request[r] EXCEPT !.state = "gone"]
<1>2. r \in Request  BY WorkingRecord DEF Handling
<1>3. \A s \in Request :
        [request[s] EXCEPT !.state = "gone"]
          \in [state : {"unsent", "queued", "taken", "gone"}, checkpoint : 0..MaxCheckpoints]
  BY DEF TypeOK
<1>4. request' \in {request, [request EXCEPT ![r] = q]}  BY DEF Leaves
<1> QED  BY <1>1, <1>2, <1>3, <1>4 DEF TypeOK, RequestsOK

LEMMA EndTypes ==
  ASSUME TypeOK, NEW a \in Attempt, End(a) \/ Fail(a)
  PROVE  TypeOK'
<1>1. Working(a)  BY DEF End, Fail, At, Working
<1>2. AttemptsOK' /\ RequestsOK'  BY <1>1, LeavesTypes DEF End, Fail
<1>3. AnnouncedOK'
  <2>1. CASE Fail(a)  BY <2>1 DEF Fail, TypeOK, AnnouncedOK
  <2>2. CASE End(a)
    <3>1. attempt[a] \in Handling  BY <1>1, WorkingRecord
    <3>2. PICK type \in {"completed", "confirmation_required"}, said \in Said,
               c \in 0..MaxCheckpoints : Tells(a, type, said, c)
      BY <2>2, <3>1, ConfirmationAssumption DEF End, Handling, Said
    <3>3. attempt[a].request \in Request  BY <3>1 DEF Handling
    <3> QED  BY <3>2, <3>3 DEF Tells, TypeOK, AnnouncedOK
  <2> QED  BY <2>1, <2>2
<1> QED  BY <1>2, <1>3 DEF End, Fail, Leaves, TypeOK, AttemptsOK, RequestsOK, AnnouncedOK

CheckpointsOK == checkpoints \in Seq(Checkpoints) /\ Len(checkpoints) <= MaxCheckpoints

LEMMA MarkTypes ==
  ASSUME TypeOK, AttemptsKept, NamesKept, NEW a \in Attempt, Mark(a)
  PROVE  TypeOK' /\ CheckpointsStay
<1>1. Working(a)  BY DEF Mark, At, Working
<1>2. AttemptsOK'  BY <1>1, ToTypes DEF Mark
<1> DEFINE c == Checkpoint(a)
           n == [checkpoints[c] EXCEPT !.status = "completed"]
<1>3. attempt[a].request \in Request  BY <1>1, WorkingRecord DEF Handling
<1>4. c \in 1..Len(checkpoints)
  <2>1. c \in 0..Len(checkpoints)  BY <1>3 DEF NamesKept, Checkpoint
  <2>2. c # 0  BY <1>1 DEF AttemptsKept, Mark, At
  <2>3. Len(checkpoints) \in Nat  BY DEF TypeOK
  <2> QED  BY <2>1, <2>2, <2>3
<1>5. checkpoints \in Seq(Checkpoints)  BY DEF TypeOK, Checkpoints
<1>6. \A e \in Checkpoints :
        /\ [e EXCEPT !.status = "completed"] \in Checkpoints
        /\ [e EXCEPT !.status = "completed"].operation = e.operation
        /\ [e EXCEPT !.status = "completed"].status = "completed"
  BY DEF Checkpoints
<1>7. checkpoints' = [checkpoints EXCEPT ![c] = n]  BY DEF Mark
<1>8. n \in Checkpoints /\ n.operation = checkpoints[c].operation /\ n.status = "completed"
  <2>1. checkpoints[c] \in Checkpoints  BY <1>4, <1>5, ElementOfSeq
  <2> QED  BY <2>1, <1>6
<1> HIDE DEF c, n
<1>9. /\ checkpoints' \in Seq(Checkpoints) /\ Len(checkpoints') = Len(checkpoints)
      /\ \A k \in 1..Len(checkpoints) :
           checkpoints'[k] = IF k = c THEN n ELSE checkpoints[k]
  BY <1>4, <1>5, <1>7, <1>8, ExceptSeq
<1>10. CheckpointsStay  BY <1>5, <1>8, <1>9 DEF CheckpointsStay
<1>11. CheckpointsOK'  BY <1>9 DEF CheckpointsOK, TypeOK
<1> QED  BY <1>2, <1>10, <1>11 DEF Mark, TypeOK, AttemptsOK, CheckpointsOK, Checkpoints

LEMMA CreateTypes ==
  ASSUME TypeOK, NEW a \in Attempt, Create(a)
  PROVE  TypeOK' /\ CheckpointsStay
<1>1. Working(a)  BY DEF Create, At, Working
<1>2. attempt[a] \in Handling  BY <1>1, WorkingRecord
<1>3. checkpoints \in Seq(Checkpoints) /\ Len(checkpoints) \in Nat
  BY DEF TypeOK, Checkpoints
<1>4. Len(checkpoints) < MaxCheckpoints  BY DEF Create
<1> DEFINE n == [attempt[a] EXCEPT !.pc = "end", !.opened = Len(checkpoints) + 1]
<1>5. n \in Handling
  <2>1. Len(checkpoints) + 1 \in 0..MaxCheckpoints
    BY <1>3, <1>4, ConfirmationAssumption
  <2> QED  BY <1>2, <2>1 DEF Handling
<1>6. AttemptsOK'  BY <1>5, StepTypes DEF Create
<1>7. PICK o \in Operation :
        checkpoints' = Append(checkpoints, [operation |-> o, status |-> "pending"])
  BY <1>2 DEF Create, Handling
<1>8. [operation |-> o, status |-> "pending"] \in Checkpoints  BY DEF Checkpoints
<1>9. /\ checkpoints' \in Seq(Checkpoints) /\ Len(checkpoints') = Len(checkpoints) + 1
      /\ \A k \in 1..Len(checkpoints) : checkpoints'[k] = checkpoints[k]
  BY <1>3, <1>7, <1>8, AppendProperties
<1>10. CheckpointsStay  BY <1>3, <1>9 DEF CheckpointsStay
<1>11. CheckpointsOK'  BY <1>3, <1>4, <1>9, ConfirmationAssumption DEF CheckpointsOK
<1> QED  BY <1>6, <1>10, <1>11 DEF Create, TypeOK, AttemptsOK, CheckpointsOK, Checkpoints

\* What the bank does to the accounts when it serves a call.
BankOK ==
  bank \in [balance : 0..Funds, limit : Limit \cup {CardLimit},
           transfers : SUBSET Transfer,
           updates : SUBSET [request : Request, value : Limit]]

LEMMA PayTypes ==
  ASSUME TypeOK, NEW a \in Attempt, calls[a].state # "none",
         NEW value \in Amount, value <= bank.balance
  PROVE  Paid(a, value) \in [balance : 0..Funds, limit : Limit \cup {CardLimit},
           transfers : SUBSET Transfer,
           updates : SUBSET [request : Request, value : Limit]]
<1> DEFINE t == [request |-> calls[a].request, value |-> value,
                 checkpoint |-> calls[a].checkpoint, by |-> a]
           paid == bank.transfers \cup {t}
           left == bank.balance - value
<1>1. calls[a].request \in Request /\ calls[a].checkpoint \in 1..MaxCheckpoints
  BY MadeRecord DEF Made
<1>2. t \in Transfer  BY <1>1 DEF Transfer
<1>3. paid \in SUBSET Transfer  BY <1>2 DEF TypeOK
<1>4. left \in 0..Funds  BY ConfirmationAssumption DEF TypeOK
<1>5. Paid(a, value) = [bank EXCEPT !.balance = left, !.transfers = paid]
  BY DEF Paid, TypeOK
<1> HIDE DEF t, paid, left
<1> QED  BY <1>3, <1>4, <1>5 DEF TypeOK

LEMMA ServeTypes ==
  ASSUME TypeOK, CallsKept, NamesKept, NEW a \in Attempt, Serve(a)
  PROVE  TypeOK'
<1> DEFINE c == calls[a].checkpoint
           o == checkpoints[c].operation
<1>1. calls[a].state = "sent"  BY DEF Serve
<1>2. calls[a].request \in Request /\ c \in 1..Len(checkpoints)
  <2>1. calls[a].request \in Request /\ c \in 1..MaxCheckpoints
    BY <1>1, MadeRecord DEF Made
  <2>2. c \in 0..Len(checkpoints)  BY <1>1, <2>1 DEF CallsKept, NamesKept
  <2>3. Len(checkpoints) \in Nat  BY DEF TypeOK
  <2> QED  BY <2>1, <2>2, <2>3
<1>3. o \in Operation
  <2>1. checkpoints[c] \in Checkpoints  BY <1>2, ElementOfSeq DEF TypeOK, Checkpoints
  <2> QED  BY <2>1 DEF Checkpoints
<1> HIDE DEF c
<1>4. BankOK'
  <2>1. CASE Refuses(calls[a])  BY <2>1 DEF Serve, TypeOK, BankOK
  <2>2. CASE ~Refuses(calls[a]) /\ o.tool = "create_pix"
    <3>1. bank' = Pay(a, o.value)  BY <2>2 DEF Serve, c
    <3>2. o.value \in Amount  BY <1>3, <2>2 DEF Operation
    <3>3. CASE \E t \in bank.transfers : t.request = calls[a].request
      BY <3>1, <3>3 DEF Pay, TypeOK, BankOK
    <3>4. CASE \A t \in bank.transfers : t.request # calls[a].request
      <4>1. bank.balance \in Nat /\ o.value \in Nat
        <5>1. bank.balance \in 0..Funds  BY DEF TypeOK
        <5>2. o.value \in Nat  BY <3>2, ConfirmationAssumption
        <5> QED  BY <5>1, <5>2, ConfirmationAssumption
      <4>2. o.value <= bank.balance  BY <2>2, <3>4, <4>1 DEF Refuses, c
      <4>3. bank' = Paid(a, o.value)  BY <3>1, <3>4 DEF Pay
      <4> QED  BY <1>1, <3>2, <4>2, <4>3, PayTypes DEF BankOK
    <3> QED  BY <3>3, <3>4
  <2>3. CASE ~Refuses(calls[a]) /\ o.tool # "create_pix"
    <3> DEFINE u == bank.updates \cup {[request |-> calls[a].request, value |-> o.value]}
    <3>1. o.value \in Limit  BY <1>3, <2>3 DEF Operation
    <3>2. u \in SUBSET [request : Request, value : Limit]  BY <1>2, <3>1 DEF TypeOK
    <3>3. bank' = [bank EXCEPT !.limit = o.value, !.updates = u]
      BY <2>3 DEF Serve, TypeOK, c
    <3> HIDE DEF u, o
    <3> QED  BY <3>1, <3>2, <3>3 DEF TypeOK, BankOK
  <2> QED  BY <2>1, <2>2, <2>3
<1>5. CallsOK'
  <2>1. PICK state \in {"served", "refused"} :
          calls' = [calls EXCEPT ![a] = [calls[a] EXCEPT !.state = state]]
    BY DEF Serve
  <2>2. [calls[a] EXCEPT !.state = state] \in Made  BY <1>1, MadeRecord, MadeState
  <2> QED  BY <2>1, <2>2 DEF TypeOK, CallsOK, Made
<1> QED  BY <1>4, <1>5 DEF Serve, TypeOK, BankOK, CallsOK, Made

LEMMA DropTypes ==
  ASSUME TypeOK, NEW a \in Attempt, Drop(a)
  PROVE  TypeOK'
<1> DEFINE n == [calls[a] EXCEPT !.state = "refused"]
<1>1. n \in Made  BY MadeRecord, MadeState DEF Drop
<1>2. calls' = [calls EXCEPT ![a] = n]  BY DEF Drop
<1>3. CallsOK'  BY <1>1, <1>2 DEF TypeOK, CallsOK, Made
<1> QED  BY <1>3 DEF Drop, TypeOK, CallsOK, Made

LEMMA LossTypes ==
  ASSUME TypeOK, WorkerDies \/ ChannelLost
  PROVE  TypeOK'
<1>1. RequestsOK'
  <2>1. \A r \in Request :
          [request[r] EXCEPT !.state = "queued"]
            \in [state : {"unsent", "queued", "taken", "gone"}, checkpoint : 0..MaxCheckpoints]
    BY DEF TypeOK
  <2> QED  BY <2>1 DEF WorkerDies, ChannelLost, Redelivered, TypeOK, RequestsOK
<1>2. AttemptsOK'
  <2>1. CASE WorkerDies  BY <2>1 DEF WorkerDies, TypeOK, AttemptsOK
  <2>2. CASE ChannelLost
    <3>1. \A b \in Attempt : b \in Live => [attempt[b] EXCEPT !.holds = FALSE] \in Handling
      <4>1. \A h \in Handling : [h EXCEPT !.holds = FALSE] \in Handling  BY DEF Handling
      <4> QED  BY <4>1, WorkingRecord DEF Live, Working
    <3> QED  BY <2>2, <3>1 DEF ChannelLost, TypeOK, AttemptsOK
  <2> QED  BY <2>1, <2>2
<1>3. losses' \in 0..MaxLosses
  BY ConfirmationAssumption DEF WorkerDies, ChannelLost, Redelivered, TypeOK
<1> QED
  BY <1>1, <1>2, <1>3
  DEF WorkerDies, ChannelLost, Redelivered, TypeOK, RequestsOK, AttemptsOK

LEMMA NextTypes ==
  ASSUME TypeOK, Traced, [Next]_vars
  PROVE  TypeOK' /\ CheckpointsStay
<1>1. CASE UNCHANGED checkpoints
  <2>1. CheckpointsStay  BY <1>1 DEF CheckpointsStay, TypeOK, Checkpoints
  <2>2. CASE \E r \in Request : Send(r, 0)
    BY <2>1, <2>2, SendTypes, ConfirmationAssumption
  <2>3. CASE \E r \in Request : Confirm(r)
    <3>1. \A e \in announced : e.checkpoint \in 0..MaxCheckpoints  BY DEF TypeOK
    <3> QED  BY <2>1, <2>3, <3>1, SendTypes DEF Confirm
  <2>4. CASE \E r \in Request, a \in Attempt : Deliver(r, a)  BY <2>1, <2>4, DeliverTypes
  <2>5. CASE \E a \in Attempt : Propose(a) \/ Load(a) \/ Returned(a) \/ Publish(a)
    BY <2>1, <2>5, AttemptTypes
  <2>6. CASE \E a \in Attempt : Call(a)  BY <2>1, <2>6, CallTypes DEF Traced
  <2>7. CASE \E a \in Attempt : End(a) \/ Fail(a)  BY <2>1, <2>7, EndTypes
  <2>8. CASE \E a \in Attempt : Serve(a)  BY <2>1, <2>8, ServeTypes DEF Traced
  <2>9. CASE \E a \in Attempt : Drop(a)  BY <2>1, <2>9, DropTypes
  <2>10. CASE WorkerDies \/ ChannelLost  BY <2>1, <2>10, LossTypes
  <2>11. CASE UNCHANGED vars  BY <2>1, <2>11 DEF vars, TypeOK
  <2>12. CASE \E a \in Attempt : Mark(a)  BY <2>12, MarkTypes DEF Traced
  <2>13. CASE \E a \in Attempt : Create(a)  BY <2>13, CreateTypes
  <2> QED
    BY <2>2, <2>3, <2>4, <2>5, <2>6, <2>7, <2>8, <2>9, <2>10, <2>11, <2>12, <2>13 DEF Next
<1>2. CASE \E a \in Attempt : Mark(a)  BY <1>2, MarkTypes DEF Traced
<1>3. CASE \E a \in Attempt : Create(a)  BY <1>3, CreateTypes
<1> QED
  BY <1>1, <1>2, <1>3
  DEF Next, vars, Send, Confirm, Deliver, Propose, Load, Call, Returned, Publish, End,
      Fail, Leaves, Serve, Drop, WorkerDies, ChannelLost, Redelivered

-----------------------------------------------------------------------------
(***************************************************************************)
(* Every call carries the checkpoint its request names.                    *)
(***************************************************************************)
LEMMA RequestsStep ==
  ASSUME TypeOK, [Next]_vars
  PROVE  RequestsStay
<1>1. CASE UNCHANGED request  BY <1>1 DEF RequestsStay, Sent
<1>2. CASE \E r \in Request, c \in {0} \cup {e.checkpoint : e \in announced} : Send(r, c)
  BY <1>2 DEF Send, TypeOK, RequestsStay, Sent
<1>3. CASE \E r \in Request, state \in {"taken", "gone"} :
             request' = [request EXCEPT ![r].state = state]
  BY <1>3 DEF TypeOK, RequestsStay, Sent
<1>4. CASE Redelivered  BY <1>4 DEF Redelivered, TypeOK, RequestsStay, Sent
<1>5. \A a \in Attempt : Working(a) => attempt[a].request \in Request
  BY WorkingRecord DEF Handling
<1>6. CASE \E a \in Attempt : End(a) \/ Fail(a)
  BY <1>1, <1>3, <1>5, <1>6 DEF End, Fail, Leaves, At, Working
<1>7. CASE \E r \in Request, a \in Attempt : Deliver(r, a)  BY <1>3, <1>7 DEF Deliver
<1>8. CASE \E r \in Request : Send(r, 0) \/ Confirm(r)  BY <1>2, <1>8 DEF Confirm
<1> QED
  BY <1>1, <1>4, <1>6, <1>7, <1>8
  DEF Next, vars, Propose, Load, Call, Returned, Publish, Mark, Create, Serve, Drop,
      WorkerDies, ChannelLost

LEMMA NamesStep ==
  ASSUME TypeOK, NamesKept, AttemptsKept, RequestsStay, CheckpointsStay, [Next]_vars
  PROVE  NamesKept'
<1>1. 0..Len(checkpoints) \subseteq 0..Len(checkpoints')
  BY DEF CheckpointsStay, TypeOK
<1>2. ASSUME NEW r \in Request  PROVE request'[r].checkpoint \in 0..Len(checkpoints')
  <2>1. CASE Sent(r)  BY <1>1, <2>1 DEF RequestsStay, NamesKept
  <2>2. CASE request'[r] = request[r]  BY <1>1, <2>2 DEF NamesKept
  <2>3. CASE \E c \in {0} \cup {e.checkpoint : e \in announced} : Send(r, c)
    <3>1. \A c \in {0} \cup {e.checkpoint : e \in announced} : c \in 0..Len(checkpoints')
      BY <1>1 DEF NamesKept, CheckpointsStay
    <3> QED  BY <2>3, <3>1 DEF Send, TypeOK
  <2>4. CASE ~Sent(r) /\ \E q \in Request : q # r /\ \E c : Send(q, c)
    BY <2>2, <2>4 DEF Send, TypeOK
  <2>5. \A a \in Attempt : Working(a) => Sent(attempt[a].request)  BY DEF AttemptsKept
  <2>6. CASE ~Sent(r) /\ \E a \in Attempt : End(a) \/ Fail(a)
    BY <2>2, <2>5, <2>6 DEF End, Fail, Leaves, At, Working, Sent, TypeOK
  <2>7. CASE ~Sent(r) /\ \E q \in Request, a \in Attempt : Deliver(q, a)
    BY <2>2, <2>7 DEF Deliver, Sent, TypeOK
  <2>8. CASE ~Sent(r) /\ Redelivered  BY <2>2, <2>8 DEF Redelivered, Sent, TypeOK
  <2>9. CASE ~Sent(r) /\ \E q \in Request : Send(q, 0) \/ Confirm(q)
    BY <2>3, <2>4, <2>9 DEF Confirm
  <2> QED
    BY <2>1, <2>2, <2>6, <2>7, <2>8, <2>9
    DEF Next, vars, Propose, Load, Call, Returned, Publish, Mark, Create, Serve, Drop,
        WorkerDies, ChannelLost
<1>3. ASSUME NEW e \in announced'
      PROVE  /\ e.checkpoint \in 0..Len(checkpoints')
             /\ e.type = "confirmation_required" => e.checkpoint # 0
             /\ Sent(e.request)'
  <2>1. CASE e \in announced
    <3>1. e.request \in Request  BY <2>1 DEF TypeOK
    <3> QED  BY <1>1, <2>1, <3>1 DEF NamesKept, RequestsStay
  <2>2. CASE \E a \in Attempt : End(a) /\ e \notin announced
    <3>1. PICK a \in Attempt : End(a) /\ e \notin announced  BY <2>2
    <3>2. Working(a)  BY <3>1 DEF End, At, Working
    <3>3. /\ attempt[a].opened \in 0..Len(checkpoints) /\ Sent(attempt[a].request)
          /\ attempt[a].request \in Request
      BY <3>2, WorkingRecord DEF AttemptsKept, Handling
    <3>4. /\ e.request = attempt[a].request
          /\ e.checkpoint = attempt[a].opened
          /\ e.type = "confirmation_required" => e.checkpoint # 0
      BY <3>1 DEF End, Tells
    <3> QED  BY <1>1, <3>3, <3>4 DEF RequestsStay
  <2> QED
    BY <2>1, <2>2
    DEF Next, vars, Send, Confirm, Deliver, Propose, Load, Call, Returned, Publish, Mark,
        Create, Fail, Serve, Drop, WorkerDies, ChannelLost, Redelivered
<1> QED  BY <1>2, <1>3 DEF NamesKept

\* How the record of an attempt that still works after a step came to be: it was
\* delivered, or it is one that worked before.
Delivered(a) ==
  /\ SentAfter(attempt'[a].request) /\ attempt'[a].opened = 0 /\ attempt'[a].said = "none"
  /\ attempt'[a].request \in Request
  /\ attempt'[a].pc \in {"agent", "load"}
  /\ attempt'[a].pc = "load" => request'[attempt'[a].request].checkpoint # 0

WentOn(a) ==
  /\ Working(a) /\ attempt'[a].request = attempt[a].request
  /\ attempt'[a].opened \in {attempt[a].opened, Len(checkpoints')}
  /\ attempt'[a].pc \in {"load", "call", "wait", "mark"} =>
       \/ attempt[a].pc \in {"load", "call", "wait", "mark"}
       \/ Checkpoint(a) # 0

\* The record that a step of attempt a leaves to attempt b.
LEMMA StepRecord ==
  ASSUME TypeOK, NEW a \in Attempt, NEW b \in Attempt, NEW record, Step(a, record)
  PROVE  attempt'[b] = IF b = a THEN record ELSE attempt[b]
BY DEF TypeOK, Step

LEMMA UntouchedGoesOn ==
  ASSUME NEW b \in Attempt, Working(b), attempt'[b] = attempt[b]
  PROVE  WentOn(b)
BY DEF WentOn

LEMMA ToGoesOn ==
  ASSUME TypeOK, NEW a \in Attempt, NEW b \in Attempt, Working(a), Working(b)', NEW pc,
         To(a, pc),
         pc \in {"load", "call", "wait", "mark"} =>
           \/ attempt[a].pc \in {"load", "call", "wait", "mark"}
           \/ Checkpoint(a) # 0
  PROVE  WentOn(b)
<1> DEFINE n == [attempt[a] EXCEPT !.pc = pc]
<1>1. attempt'[b] = IF b = a THEN n ELSE attempt[b]  BY StepRecord DEF To
<1>2. n.pc = pc /\ n.request = attempt[a].request /\ n.opened = attempt[a].opened
  BY WorkingRecord DEF Handling
<1> HIDE DEF n
<1> QED  BY <1>1, <1>2 DEF WentOn, Working

LEMMA SaysGoesOn ==
  ASSUME TypeOK, NEW a \in Attempt, NEW b \in Attempt, Working(a), Working(b)', NEW said,
         NEW proposal, Says(a, said, proposal)
  PROVE  WentOn(b)
<1> DEFINE n == [attempt[a] EXCEPT !.pc = "publish", !.said = said, !.proposal = proposal]
<1>1. attempt'[b] = IF b = a THEN n ELSE attempt[b]  BY StepRecord DEF Says
<1>2. n.pc = "publish" /\ n.request = attempt[a].request /\ n.opened = attempt[a].opened
  BY WorkingRecord DEF Handling
<1> HIDE DEF n
<1> QED  BY <1>1, <1>2 DEF WentOn, Working

LEMMA CreateGoesOn ==
  ASSUME TypeOK, NEW a \in Attempt, NEW b \in Attempt, Working(b)', Create(a)
  PROVE  WentOn(b)
<1> DEFINE n == [attempt[a] EXCEPT !.pc = "end", !.opened = Len(checkpoints) + 1]
<1>1. Working(a)  BY DEF Create, At, Working
<1>2. attempt'[b] = IF b = a THEN n ELSE attempt[b]  BY StepRecord DEF Create
<1>3. n.pc = "end" /\ n.request = attempt[a].request /\ n.opened = Len(checkpoints) + 1
  BY <1>1, WorkingRecord DEF Handling
<1>4. Len(checkpoints') = Len(checkpoints) + 1
  <2>1. PICK o : checkpoints' = Append(checkpoints, [operation |-> o, status |-> "pending"])
    BY DEF Create
  <2> QED  BY <2>1 DEF TypeOK
<1> HIDE DEF n
<1> QED  BY <1>1, <1>2, <1>3, <1>4 DEF WentOn, Working

LEMMA DeliverStarts ==
  ASSUME TypeOK, NEW r \in Request, NEW a \in Attempt, NEW b \in Attempt, Working(b)',
         Deliver(r, a)
  PROVE  WentOn(b) \/ Delivered(b)
<1> DEFINE n == [pc |-> IF request[r].checkpoint = 0 THEN "agent" ELSE "load",
                 request |-> r, holds |-> TRUE, said |-> "none", proposal |-> {},
                 opened |-> 0]
<1>1. attempt'[b] = IF b = a THEN n ELSE attempt[b]  BY StepRecord DEF Deliver
<1>2. Sent(r)' /\ request'[r].checkpoint = request[r].checkpoint
  BY DEF Deliver, TypeOK, Sent
<1>3. CASE b = a  BY <1>1, <1>2, <1>3 DEF Delivered, Sent, SentAfter
<1>4. CASE b # a  BY <1>1, <1>4, UntouchedGoesOn DEF Working
<1> QED  BY <1>3, <1>4

LEMMA LossGoesOn ==
  ASSUME TypeOK, NEW b \in Attempt, Working(b)', WorkerDies \/ ChannelLost
  PROVE  WentOn(b)
<1>1. b \in Live <=> Working(b)  BY DEF Live, Working
<1>2. CASE WorkerDies
  <2>1. attempt'[b] = IF b \in Live THEN Done ELSE attempt[b]  BY <1>2 DEF WorkerDies
  <2> QED  BY <1>1, <2>1, UntouchedGoesOn DEF Working, Done
<1>3. CASE ChannelLost
  <2> DEFINE n == [attempt[b] EXCEPT !.holds = FALSE]
  <2>1. attempt'[b] = IF b \in Live THEN n ELSE attempt[b]  BY <1>3 DEF ChannelLost
  <2>2. Working(b)  BY <1>1, <2>1 DEF Working
  <2>3. n.pc = attempt[b].pc /\ n.request = attempt[b].request /\ n.opened = attempt[b].opened
    BY <2>2, WorkingRecord DEF Handling
  <2> HIDE DEF n
  <2> QED  BY <1>1, <2>1, <2>2, <2>3 DEF WentOn
<1> QED  BY <1>2, <1>3

LEMMA AttemptCame ==
  ASSUME TypeOK, [Next]_vars, NEW b \in Attempt, Working(b)'
  PROVE  WentOn(b) \/ Delivered(b)
<1>1. CASE UNCHANGED attempt  BY <1>1, UntouchedGoesOn DEF Working
<1>2. CASE \E r \in Request, a \in Attempt : Deliver(r, a)  BY <1>2, DeliverStarts
<1>3. CASE \E a \in Attempt : Create(a)  BY <1>3, CreateGoesOn
<1>4. CASE WorkerDies \/ ChannelLost  BY <1>4, LossGoesOn
<1>5. CASE \E a \in Attempt : Propose(a) \/ Returned(a)
  BY <1>5, SaysGoesOn DEF Propose, Returned, At, Working
<1>6. CASE \E a \in Attempt : Load(a)  BY <1>6, SaysGoesOn, ToGoesOn DEF Load, At, Working
<1>7. CASE \E a \in Attempt : Call(a)  BY <1>7, ToGoesOn DEF Call, At, Working
<1>8. CASE \E a \in Attempt : Publish(a)
  <2>1. PICK a \in Attempt : Publish(a)  BY <1>8
  <2>2. \E pc : To(a, pc) /\ (pc \in {"load", "call", "wait", "mark"} => Checkpoint(a) # 0)
    BY <2>1 DEF Publish
  <2> QED  BY <2>1, <2>2, ToGoesOn DEF Publish, At, Working
<1>9. CASE \E a \in Attempt : Mark(a)  BY <1>9, ToGoesOn DEF Mark, At, Working
<1>10. CASE \E a \in Attempt : End(a) \/ Fail(a)
  <2>1. PICK a \in Attempt : Step(a, Done)  BY <1>10 DEF End, Fail, Leaves
  <2>2. attempt'[b] = IF b = a THEN Done ELSE attempt[b]  BY <2>1, StepRecord
  <2> QED  BY <2>2, UntouchedGoesOn DEF Working, Done
<1> QED
  BY <1>1, <1>2, <1>3, <1>4, <1>5, <1>6, <1>7, <1>8, <1>9, <1>10
  DEF Next, vars, Send, Confirm, Serve, Drop

LEMMA AttemptsStep ==
  ASSUME TypeOK, NamesKept, AttemptsKept, RequestsStay, CheckpointsStay, [Next]_vars
  PROVE  AttemptsKept'
<1> SUFFICES ASSUME NEW b \in Attempt, Working(b)'
             PROVE  /\ SentAfter(attempt'[b].request)
                    /\ attempt'[b].opened \in 0..Len(checkpoints')
                    /\ attempt'[b].pc \in {"load", "call", "wait", "mark"} =>
                         Checkpoint(b)' # 0
  BY DEF AttemptsKept, Sent, SentAfter
<1>1. Len(checkpoints) \in Nat /\ Len(checkpoints') \in Nat
  BY DEF CheckpointsStay, TypeOK
<1>2. CASE Delivered(b)  BY <1>1, <1>2 DEF Delivered, Checkpoint
<1>3. CASE WentOn(b)
  <2>1. attempt[b].request \in Request  BY <1>3, WorkingRecord DEF WentOn, Handling
  <2>2. Sent(attempt[b].request)  BY <1>3 DEF WentOn, AttemptsKept
  <2>3. attempt'[b].opened \in 0..Len(checkpoints')
    BY <1>1, <1>3 DEF WentOn, AttemptsKept, CheckpointsStay
  <2>4. Checkpoint(b)' = Checkpoint(b) /\ SentAfter(attempt'[b].request)
    BY <1>3, <2>1, <2>2 DEF WentOn, RequestsStay, Checkpoint, Sent, SentAfter
  <2>5. attempt'[b].pc \in {"load", "call", "wait", "mark"} => Checkpoint(b) # 0
    BY <1>3 DEF WentOn, AttemptsKept
  <2> QED  BY <2>3, <2>4, <2>5
<1> QED  BY <1>2, <1>3, AttemptCame

\* A step other than the making of a call leaves each call for the same.
CallStays(a) ==
  calls'[a].state # "none" =>
    /\ calls[a].state # "none" /\ calls'[a].request = calls[a].request
    /\ calls'[a].checkpoint = calls[a].checkpoint

LEMMA CallCame ==
  ASSUME TypeOK, [Next]_vars, NEW b \in Attempt
  PROVE  Call(b) \/ CallStays(b)
<1>1. CASE UNCHANGED calls  BY <1>1 DEF CallStays
<1>2. CASE \E a \in Attempt : Call(a)  BY <1>2 DEF Call, CallStays, TypeOK
<1>3. CASE \E a \in Attempt : Serve(a) \/ Drop(a)
  <2>1. PICK a \in Attempt, state \in {"served", "refused"} :
          /\ calls[a].state = "sent"
          /\ calls' = [calls EXCEPT ![a] = [calls[a] EXCEPT !.state = state]]
    BY <1>3 DEF Serve, Drop
  <2> DEFINE n == [calls[a] EXCEPT !.state = state]
  <2>2. n.request = calls[a].request /\ n.checkpoint = calls[a].checkpoint
    BY <2>1, MadeRecord DEF Made
  <2>3. calls'[b] = IF b = a THEN n ELSE calls[b]  BY <2>1 DEF TypeOK
  <2> HIDE DEF n
  <2> QED  BY <2>1, <2>2, <2>3 DEF CallStays
<1> QED
  BY <1>1, <1>2, <1>3
  DEF Next, vars, Send, Confirm, Deliver, Propose, Load, Returned, Publish, Mark, Create,
      End, Fail, Leaves, WorkerDies, ChannelLost, Redelivered

LEMMA CallsStep ==
  ASSUME TypeOK, AttemptsKept, CallsKept, RequestsStay, [Next]_vars
  PROVE  CallsKept'
<1> SUFFICES ASSUME NEW b \in Attempt, calls'[b].state # "none"
             PROVE  /\ SentAfter(calls'[b].request)
                    /\ calls'[b].checkpoint = request'[calls'[b].request].checkpoint
  BY DEF CallsKept, Sent, SentAfter
<1>1. CASE CallStays(b)
  <2>1. calls[b].request \in Request  BY <1>1, MadeRecord DEF CallStays, Made
  <2> QED  BY <1>1, <2>1 DEF CallStays, CallsKept, RequestsStay, Sent, SentAfter
<1>2. CASE Call(b)
  <2>1. Working(b)  BY <1>2 DEF Call, At, Working
  <2>2. attempt[b].request \in Request  BY <2>1, WorkingRecord DEF Handling
  <2>3. Sent(attempt[b].request)  BY <2>1 DEF AttemptsKept
  <2>4. calls'[b] = [state |-> "sent", request |-> attempt[b].request,
                     checkpoint |-> Checkpoint(b)]
    BY <1>2 DEF Call, TypeOK
  <2> QED  BY <2>2, <2>3, <2>4 DEF RequestsStay, Sent, SentAfter, Checkpoint
<1> QED  BY <1>1, <1>2, CallCame

-----------------------------------------------------------------------------
(***************************************************************************)
(* The transfers.                                                          *)
(***************************************************************************)
\* The transfer that serving a call adds.
Added(a, o) ==
  [request |-> calls[a].request, value |-> o.value, checkpoint |-> calls[a].checkpoint,
   by |-> a]

\* What a step may add to the transfers: one, of a proposal whose call was on
\* its way, for a request_id that had none.
Pays(a) ==
  LET o == checkpoints[calls[a].checkpoint].operation IN
  /\ calls[a].state = "sent" /\ o.tool = "create_pix"
  /\ \A t \in bank.transfers : t.request # calls[a].request
  /\ bank'.transfers = bank.transfers \cup {Added(a, o)}

LEMMA TransferCame ==
  ASSUME TypeOK, [Next]_vars
  PROVE  bank'.transfers = bank.transfers \/ \E a \in Attempt : Pays(a)
<1>1. CASE UNCHANGED bank  BY <1>1
<1>2. ASSUME NEW a \in Attempt, Serve(a)
      PROVE  bank'.transfers = bank.transfers \/ Pays(a)
  <2> DEFINE o == checkpoints[calls[a].checkpoint].operation
             u == bank.updates \cup {[request |-> calls[a].request, value |-> o.value]}
  <2>1. bank' \in {bank, Pay(a, o.value), [bank EXCEPT !.limit = o.value, !.updates = u]}
    BY <1>2 DEF Serve, TypeOK
  <2>2. [bank EXCEPT !.limit = o.value, !.updates = u].transfers = bank.transfers
    BY DEF TypeOK
  <2>3. ASSUME bank' = Pay(a, o.value), bank' # bank,
               bank' # [bank EXCEPT !.limit = o.value, !.updates = u]
        PROVE  Pays(a)
    <3>1. bank' = Paid(a, o.value) /\ \A t \in bank.transfers : t.request # calls[a].request
      BY <2>3 DEF Pay
    <3>2. bank'.transfers = bank.transfers \cup {Added(a, o)}
      BY <3>1 DEF Paid, Added, TypeOK
    <3>3. o.tool = "create_pix"  BY <1>2, <2>3 DEF Serve, TypeOK
    <3> QED  BY <1>2, <3>1, <3>2, <3>3 DEF Serve, Pays
  <2> QED  BY <2>1, <2>2, <2>3
<1> QED
  BY <1>1, <1>2
  DEF Next, vars, Send, Confirm, Deliver, Propose, Load, Call, Returned, Publish, Mark,
      Create, End, Fail, Leaves, Drop, WorkerDies, ChannelLost, Redelivered

LEMMA TransfersStep ==
  ASSUME TypeOK, Traced, RequestsStay, CheckpointsStay, [Next]_vars
  PROVE  TransfersKept'
<1> DEFINE Good(t) ==
      /\ SentAfter(t.request) /\ request'[t.request].checkpoint = t.checkpoint
      /\ checkpoints'[t.checkpoint].operation = [tool |-> "create_pix", value |-> t.value]
<1>1. \A r \in Request : Sent(r) /\ request[r].checkpoint # 0 =>
        /\ request[r].checkpoint \in DOMAIN checkpoints
        /\ checkpoints'[request[r].checkpoint].operation
             = checkpoints[request[r].checkpoint].operation
        /\ SentAfter(r) /\ request'[r].checkpoint = request[r].checkpoint
  BY DEF Traced, NamesKept, TypeOK, CheckpointsStay, RequestsStay, Sent, SentAfter
<1>2. ASSUME NEW t \in bank.transfers  PROVE Good(t)
  <2>1. t.request \in Request /\ t.checkpoint # 0  BY DEF TypeOK, Transfer
  <2>2. Sent(t.request) /\ request[t.request].checkpoint = t.checkpoint
    BY DEF Traced, TransfersKept, OncePerConfirmation
  <2>3. checkpoints[t.checkpoint].operation = [tool |-> "create_pix", value |-> t.value]
    BY DEF Traced, TransfersKept, OncePerConfirmation
  <2> QED  BY <1>1, <2>1, <2>2, <2>3
<1>3. ASSUME NEW a \in Attempt, Pays(a)
      PROVE  Good(Added(a, checkpoints[calls[a].checkpoint].operation))
  <2> DEFINE c == calls[a].checkpoint
             o == checkpoints[c].operation
  <2>1. calls[a] \in Made  BY <1>3, MadeRecord DEF Pays
  <2>2. calls[a].request \in Request /\ c # 0 /\ Sent(calls[a].request)
        /\ request[calls[a].request].checkpoint = c
    BY <1>3, <2>1 DEF Pays, Made, Traced, CallsKept
  <2>3. c \in 1..Len(checkpoints) /\ checkpoints \in Seq(Checkpoints)
    BY <1>1, <2>2 DEF TypeOK, Checkpoints
  <2>4. o \in Operation
    <3>1. checkpoints[c] \in Checkpoints  BY <2>3, ElementOfSeq
    <3> QED  BY <3>1 DEF Checkpoints
  <2>5. o = [tool |-> "create_pix", value |-> o.value]
    BY <1>3, <2>4 DEF Pays, Operation
  <2> HIDE DEF c
  <2> QED  BY <1>1, <2>2, <2>5 DEF Added, c
<1> HIDE DEF Good
<1>4. CASE bank'.transfers = bank.transfers
  BY <1>2, <1>4 DEF Good, Traced, TransfersKept, OncePerConfirmation, Sent, SentAfter
<1>5. CASE \E a \in Attempt : Pays(a)
  <2>1. PICK a \in Attempt : Pays(a)  BY <1>5
  <2> DEFINE t == Added(a, checkpoints[calls[a].checkpoint].operation)
  <2>2. bank'.transfers = bank.transfers \cup {t}  BY <2>1 DEF Pays
  <2>3. t.request = calls[a].request  BY DEF Added
  <2>4. \A u \in bank.transfers : u.request # t.request  BY <2>1, <2>3 DEF Pays
  <2>5. Good(t)  BY <1>3, <2>1
  <2> HIDE DEF t
  <2> QED
    BY <1>2, <2>2, <2>4, <2>5
    DEF Good, Traced, TransfersKept, OncePerConfirmation, Sent, SentAfter
<1> QED  BY <1>4, <1>5, TransferCame

-----------------------------------------------------------------------------
IInv == TypeOK /\ Traced

LEMMA InitTraced == Init => Traced
BY ConfirmationAssumption
DEF Init, Traced, NamesKept, AttemptsKept, CallsKept, TransfersKept, OncePerConfirmation,
    Working, Idle, NoCall

LEMMA NextTraced ==
  ASSUME IInv, [Next]_vars
  PROVE  IInv' /\ RequestsStay /\ CheckpointsStay
<1>1. TypeOK /\ NamesKept /\ AttemptsKept /\ CallsKept  BY DEF IInv, Traced
<1>2. TypeOK' /\ CheckpointsStay  BY NextTypes DEF IInv
<1>3. RequestsStay  BY <1>1, RequestsStep
<1>4. NamesKept'  BY <1>1, <1>2, <1>3, NamesStep
<1>5. AttemptsKept'  BY <1>1, <1>2, <1>3, AttemptsStep
<1>6. CallsKept'  BY <1>1, <1>3, CallsStep
<1>7. TransfersKept'  BY <1>2, <1>3, TransfersStep DEF IInv
<1> QED  BY <1>2, <1>3, <1>4, <1>5, <1>6, <1>7 DEF IInv, Traced

\* The invariant holds in every state of every behaviour.
LEMMA Invariance == Spec => []IInv
<1>1. Init => IInv  BY InitTypes, InitTraced DEF IInv
<1>2. IInv /\ [Next]_vars => IInv'  BY NextTraced
<1> QED  BY <1>1, <1>2, PTL DEF Spec

\* A confirmation moves at most the money of its proposal, once, for any number
\* of requests, deliveries and lost channels.
THEOREM PaysOncePerConfirmation == Spec => []OncePerConfirmation
<1>1. IInv => OncePerConfirmation  BY DEF IInv, Traced, TransfersKept
<1> QED  BY <1>1, Invariance, PTL

-----------------------------------------------------------------------------
(***************************************************************************)
(* What is settled stays so.                                               *)
(***************************************************************************)
\* Only _resume_from_checkpoint leads an attempt to its call.
LEMMA CallFromLoad ==
  ASSUME TypeOK, [Next]_vars, NEW b \in Attempt, Working(b), attempt[b].pc # "call",
         attempt'[b].pc = "call"
  PROVE  Load(b)
<1>1. attempt[b] \in Handling  BY WorkingRecord
<1>2. ASSUME NEW a \in Attempt, NEW pc, To(a, pc), pc # "call"  PROVE FALSE
  <2>1. attempt'[b] = IF b = a THEN [attempt[a] EXCEPT !.pc = pc] ELSE attempt[b]
    BY <1>2, StepRecord DEF To
  <2> QED  BY <1>1, <1>2, <2>1 DEF Handling
<1>3. ASSUME NEW a \in Attempt, NEW said, NEW proposal, Says(a, said, proposal)  PROVE FALSE
  <2>1. attempt'[b] = IF b = a
          THEN [attempt[a] EXCEPT !.pc = "publish", !.said = said, !.proposal = proposal]
          ELSE attempt[b]
    BY <1>3, StepRecord DEF Says
  <2> QED  BY <1>1, <2>1 DEF Handling
<1>4. CASE UNCHANGED attempt  BY <1>4
<1>5. CASE \E a \in Attempt : Load(a)
  <2>1. PICK a \in Attempt : Load(a)  BY <1>5
  <2>2. To(a, "call")  BY <1>3, <2>1 DEF Load
  <2>3. b = a  BY <2>2, StepRecord DEF To
  <2> QED  BY <2>1, <2>3
<1>6. CASE \E a \in Attempt : Propose(a) \/ Returned(a)
  BY <1>3, <1>6 DEF Propose, Returned
<1>7. CASE \E a \in Attempt : Call(a) \/ Mark(a)
  <2>1. "wait" # "call" /\ "end" # "call"  OBVIOUS
  <2> QED  BY <1>2, <1>7, <2>1 DEF Call, Mark
<1>8. CASE \E a \in Attempt : Publish(a)
  <2>1. \E a \in Attempt, pc \in {"mark", "create", "end"} : To(a, pc)
    BY <1>8 DEF Publish
  <2> QED  BY <1>2, <2>1
<1>9. CASE \E a \in Attempt : Create(a)
  <2>1. PICK a \in Attempt : Create(a)  BY <1>9
  <2>2. attempt'[b] = IF b = a
          THEN [attempt[a] EXCEPT !.pc = "end", !.opened = Len(checkpoints) + 1]
          ELSE attempt[b]
    BY <2>1, StepRecord DEF Create
  <2> QED  BY <1>1, <2>2 DEF Handling
<1>10. CASE \E a \in Attempt : End(a) \/ Fail(a)
  <2>1. PICK a \in Attempt : Step(a, Done)  BY <1>10 DEF End, Fail, Leaves
  <2>2. attempt'[b] = IF b = a THEN Done ELSE attempt[b]  BY <2>1, StepRecord
  <2> QED  BY <2>2 DEF Done
<1>11. CASE \E r \in Request, a \in Attempt : Deliver(r, a)
  <2>1. PICK r \in Request, a \in Attempt : Deliver(r, a)  BY <1>11
  <2> DEFINE n == [pc |-> IF request[r].checkpoint = 0 THEN "agent" ELSE "load",
                   request |-> r, holds |-> TRUE, said |-> "none", proposal |-> {},
                   opened |-> 0]
  <2>2. attempt'[b] = IF b = a THEN n ELSE attempt[b]  BY <2>1, StepRecord DEF Deliver
  <2> QED  BY <2>2
<1>12. CASE WorkerDies \/ ChannelLost
  <2>1. CASE WorkerDies
    <3>1. attempt'[b] \in {Done, attempt[b]}  BY <2>1 DEF WorkerDies
    <3> QED  BY <3>1 DEF Done
  <2>2. CASE ChannelLost
    <3>1. attempt'[b] \in {[attempt[b] EXCEPT !.holds = FALSE], attempt[b]}
      BY <2>2 DEF ChannelLost
    <3> QED  BY <1>1, <3>1 DEF Handling
  <2> QED  BY <1>12, <2>1, <2>2
<1> QED
  BY <1>4, <1>5, <1>6, <1>7, <1>8, <1>9, <1>10, <1>11, <1>12
  DEF Next, vars, Send, Confirm, Serve, Drop

LEMMA SettledStep ==
  ASSUME IInv, [Next]_vars, NEW c \in DOMAIN checkpoints, Settled(c)
  PROVE  /\ Settled(c)'
         /\ \A t \in bank'.transfers \ bank.transfers : t.checkpoint # c
<1>1. TypeOK /\ IInv' /\ RequestsStay /\ CheckpointsStay  BY NextTraced DEF IInv
<1>2. checkpoints[c].status = "completed" /\ checkpoints'[c].status = "completed"
  BY <1>1 DEF Settled, CheckpointsStay
<1>3. ASSUME NEW a \in Attempt, calls'[a].state = "sent"
      PROVE  calls'[a].checkpoint # c
  <2>1. CASE Call(a)
    BY <1>1, <2>1 DEF Call, At, Settled, TypeOK
  <2>2. CASE ~Call(a)
    <3>1. calls[a].state = "sent" /\ calls'[a].checkpoint = calls[a].checkpoint
      <4>1. calls'[a] = calls[a] \/ calls'[a].state \in {"served", "refused"}
        <5>1. CASE UNCHANGED calls  BY <5>1
        <5>2. CASE \E b \in Attempt : Call(b)  BY <1>1, <2>2, <5>2 DEF Call, TypeOK
        <5>3. CASE \E b \in Attempt : Serve(b) \/ Drop(b)
          <6>1. PICK b \in Attempt, state \in {"served", "refused"} :
                  /\ calls[b].state = "sent"
                  /\ calls' = [calls EXCEPT ![b] = [calls[b] EXCEPT !.state = state]]
            BY <5>3 DEF Serve, Drop
          <6>2. [calls[b] EXCEPT !.state = state].state = state
            BY <1>1, <6>1, MadeRecord DEF Made
          <6> QED  BY <1>1, <6>1, <6>2 DEF TypeOK
        <5> QED
          BY <5>1, <5>2, <5>3
          DEF Next, vars, Send, Confirm, Deliver, Propose, Load, Returned, Publish, Mark,
              Create, End, Fail, Leaves, WorkerDies, ChannelLost, Redelivered
      <4> QED  BY <1>3, <4>1
    <3> QED  BY <3>1 DEF Settled
  <2> QED  BY <2>1, <2>2
<1>4. ASSUME NEW a \in Attempt, attempt'[a].pc = "call"
      PROVE  Checkpoint(a)' # c
  <2>1. WentOn(a) \/ Delivered(a)  BY <1>1, <1>4, AttemptCame DEF Working
  <2>2. WentOn(a)  BY <1>4, <2>1 DEF Delivered
  <2>3. Checkpoint(a)' = Checkpoint(a)
    <3>1. attempt[a].request \in Request /\ Sent(attempt[a].request)
      BY <1>1, <2>2, WorkingRecord DEF WentOn, Handling, IInv, Traced, AttemptsKept
    <3> QED  BY <1>1, <2>2, <3>1 DEF WentOn, RequestsStay, Checkpoint
  <2>4. CASE attempt[a].pc = "call"  BY <2>3, <2>4 DEF Settled
  <2>5. CASE attempt[a].pc # "call"
    <3>1. Load(a)
      <4>1. Working(a)  BY <2>2 DEF WentOn
      <4> QED  BY <1>1, <1>4, <2>5, <4>1, CallFromLoad
    <3>2. checkpoints[Checkpoint(a)].status = "pending"
      <4>1. CASE checkpoints[Checkpoint(a)].status # "pending"
        <5>1. Working(a)  BY <2>2 DEF WentOn
        <5> DEFINE n == [attempt[a] EXCEPT !.pc = "publish", !.said = "nothing",
                                           !.proposal = {}]
        <5>2. attempt'[a] = n  BY <1>1, <3>1, <4>1, StepRecord DEF Load, Says
        <5>3. n.pc = "publish"  BY <1>1, <5>1, WorkingRecord DEF Handling
        <5> QED  BY <1>4, <5>2, <5>3
      <4> QED  BY <4>1
    <3> QED  BY <1>2, <2>3, <3>2
  <2> QED  BY <2>4, <2>5
<1>5. ASSUME NEW t \in bank'.transfers \ bank.transfers  PROVE t.checkpoint # c
  <2>1. PICK a \in Attempt : Pays(a)  BY <1>1, <1>5, TransferCame
  <2>2. t.checkpoint = calls[a].checkpoint  BY <1>5, <2>1 DEF Pays, Added
  <2> QED  BY <2>1, <2>2 DEF Pays, Settled
<1> QED  BY <1>2, <1>3, <1>4, <1>5 DEF Settled

\* Whatever is delivered later, a completed proposal without a call on its way
\* stays so and moves no more money.
THEOREM SettledForGood == Spec => SettledStays
<1> DEFINE A == \A c \in DOMAIN checkpoints :
       Settled(c) => /\ Settled(c)'
                     /\ \A t \in bank'.transfers \ bank.transfers : t.checkpoint # c
<1>1. IInv /\ [Next]_vars => [A]_vars  BY SettledStep
<1> HIDE DEF A
<1>2. Spec => [][A]_vars  BY <1>1, Invariance, PTL DEF Spec
<1> QED  BY <1>2 DEF SettledStays, A

-----------------------------------------------------------------------------
(***************************************************************************)
(* What is said is done.                                                   *)
(***************************************************************************)
\* The bank has executed what the request confirmed.
Executed(r) ==
  LET c == request[r].checkpoint
      o == checkpoints[c].operation IN
  /\ Sent(r) /\ c # 0
  /\ IF o.tool = "create_pix"
     THEN \E t \in bank.transfers : t.request = r /\ t.value = o.value
     ELSE [request |-> r, value |-> o.value] \in bank.updates

\* An answer of success is traced to the bank: through the attempt, the call it
\* waits for, and the serving of that call.
ServedKept ==
  \A a \in Attempt : calls[a].state = "served" => Executed(calls[a].request)
WaitKept ==
  \A a \in Attempt : attempt[a].pc = "wait" =>
    calls[a].state # "none" /\ calls[a].request = attempt[a].request
SaidKept ==
  \A a \in Attempt : Working(a) /\ attempt[a].said = "done" => Executed(attempt[a].request)
ToldKept == \A e \in announced : e.said = "done" => Executed(e.request)

SInv == IInv /\ ServedKept /\ WaitKept /\ SaidKept /\ ToldKept

LEMMA BankGrows ==
  ASSUME TypeOK, [Next]_vars
  PROVE  bank.transfers \subseteq bank'.transfers /\ bank.updates \subseteq bank'.updates
<1>1. bank.transfers \subseteq bank'.transfers  BY TransferCame DEF Pays
<1>2. CASE UNCHANGED bank  BY <1>2
<1>3. ASSUME NEW a \in Attempt, Serve(a)
      PROVE  bank.updates \subseteq bank'.updates
  <2> DEFINE o == checkpoints[calls[a].checkpoint].operation
             u == bank.updates \cup {[request |-> calls[a].request, value |-> o.value]}
  <2>1. bank' \in {bank, Paid(a, o.value), [bank EXCEPT !.limit = o.value, !.updates = u]}
    BY <1>3 DEF Serve, Pay, TypeOK
  <2>2. Paid(a, o.value).updates = bank.updates  BY DEF Paid, TypeOK
  <2>3. [bank EXCEPT !.limit = o.value, !.updates = u].updates = u  BY DEF TypeOK
  <2>4. bank.updates \subseteq u  OBVIOUS
  <2> HIDE DEF u, o
  <2> QED  BY <2>1, <2>2, <2>3, <2>4
<1> QED
  BY <1>1, <1>2, <1>3
  DEF Next, vars, Send, Confirm, Deliver, Propose, Load, Call, Returned, Publish, Mark,
      Create, End, Fail, Leaves, Drop, WorkerDies, ChannelLost, Redelivered

\* What is executed stays executed.
LEMMA ExecutedStays ==
  ASSUME IInv, [Next]_vars, NEW r \in Request, Executed(r)
  PROVE  Executed(r)'
<1> DEFINE c == request[r].checkpoint
<1>1. TypeOK /\ RequestsStay /\ CheckpointsStay  BY NextTraced DEF IInv
<1>2. Sent(r)' /\ request'[r].checkpoint = c  BY <1>1 DEF Executed, RequestsStay
<1>3. c \in DOMAIN checkpoints  BY DEF IInv, Traced, NamesKept, TypeOK, Executed
<1>4. checkpoints'[c].operation = checkpoints[c].operation
  BY <1>1, <1>3 DEF CheckpointsStay
<1>5. bank.transfers \subseteq bank'.transfers /\ bank.updates \subseteq bank'.updates
  BY <1>1, BankGrows
<1> QED  BY <1>2, <1>4, <1>5 DEF Executed

LEMMA ServedExecutes ==
  ASSUME IInv, [Next]_vars, NEW a \in Attempt, Serve(a), calls'[a].state = "served",
         NEW r, r = calls[a].request
  PROVE  Executed(r)'
<1> DEFINE c == calls[a].checkpoint
           o == checkpoints[c].operation
<1>1. TypeOK /\ RequestsStay /\ CheckpointsStay  BY NextTraced DEF IInv
<1>2. calls[a].state = "sent"  BY DEF Serve
<1>3. r \in Request /\ c # 0 /\ Sent(r) /\ c = request[r].checkpoint
  BY <1>1, <1>2, MadeRecord DEF Made, IInv, Traced, CallsKept
<1>4. c \in DOMAIN checkpoints  BY <1>3 DEF IInv, Traced, NamesKept, TypeOK
<1>5. checkpoints'[c].operation = o  BY <1>1, <1>4 DEF CheckpointsStay
<1>6. Sent(r)' /\ request'[r].checkpoint = c  BY <1>1, <1>3 DEF RequestsStay
<1>7. ~Refuses(calls[a])
  <2>1. Refuses(calls[a]) => calls'[a].state = "refused"
    <3> DEFINE n == [calls[a] EXCEPT !.state = "refused"]
    <3>1. Refuses(calls[a]) => calls' = [calls EXCEPT ![a] = n]  BY DEF Serve
    <3>2. n.state = "refused"  BY <1>1, <1>2, MadeRecord DEF Made
    <3> HIDE DEF n
    <3> QED  BY <1>1, <3>1, <3>2 DEF TypeOK
  <2> QED  BY <2>1
<1>8. CASE o.tool = "create_pix"
  <2>1. bank' = Pay(a, o.value)  BY <1>7, <1>8 DEF Serve
  <2>2. CASE \E t \in bank.transfers : t.request = r
    <3>1. PICK t \in bank.transfers : t.request = r  BY <2>2
    <3>2. bank' = bank  BY <2>1, <2>2 DEF Pay
    <3>3. t.checkpoint = c /\ o = [tool |-> "create_pix", value |-> t.value]
      BY <1>3, <3>1 DEF IInv, Traced, TransfersKept, OncePerConfirmation
    <3>4. t.value = o.value  BY <3>3
    <3> QED  BY <1>3, <1>5, <1>6, <1>8, <3>1, <3>2, <3>4 DEF Executed
  <2>3. CASE ~\E t \in bank.transfers : t.request = r
    <3>1. bank' = Paid(a, o.value)  BY <2>1, <2>3 DEF Pay
    <3>2. Added(a, o) \in bank'.transfers  BY <1>1, <3>1 DEF Paid, Added, TypeOK
    <3>3. Added(a, o).request = r /\ Added(a, o).value = o.value  BY DEF Added
    <3> QED  BY <1>3, <1>5, <1>6, <1>8, <3>2, <3>3 DEF Executed
  <2> QED  BY <2>2, <2>3
<1>9. CASE o.tool # "create_pix"
  <2>1. [request |-> r, value |-> o.value] \in bank'.updates
    BY <1>1, <1>7, <1>9 DEF Serve, TypeOK
  <2> QED  BY <1>3, <1>5, <1>6, <1>9, <2>1 DEF Executed
<1> QED  BY <1>8, <1>9

\* How an attempt comes to wait for its call, and to say that it is done.
SaysOn(a) ==
  /\ Working(a) /\ attempt'[a].request = attempt[a].request
  /\ attempt'[a].said = "done" =>
       attempt[a].said = "done" \/ (Returned(a) /\ calls[a].state = "served")
  /\ attempt'[a].pc = "wait" => attempt[a].pc = "wait" \/ Call(a)

LEMMA UntouchedSaysOn ==
  ASSUME NEW b \in Attempt, Working(b), attempt'[b] = attempt[b]
  PROVE  SaysOn(b)
BY DEF SaysOn

LEMMA ToSaysOn ==
  ASSUME TypeOK, NEW a \in Attempt, NEW b \in Attempt, Working(a), Working(b)', NEW pc,
         To(a, pc), pc = "wait" => Call(a)
  PROVE  SaysOn(b)
<1> DEFINE n == [attempt[a] EXCEPT !.pc = pc]
<1>1. attempt'[b] = IF b = a THEN n ELSE attempt[b]  BY StepRecord DEF To
<1>2. n.pc = pc /\ n.request = attempt[a].request /\ n.said = attempt[a].said
  BY WorkingRecord DEF Handling
<1> HIDE DEF n
<1>3. CASE b = a  BY <1>1, <1>2, <1>3 DEF SaysOn
<1>4. CASE b # a  BY <1>1, <1>4, UntouchedSaysOn DEF Working
<1> QED  BY <1>3, <1>4

LEMMA SaysSaysOn ==
  ASSUME TypeOK, NEW a \in Attempt, NEW b \in Attempt, Working(a), Working(b)', NEW said,
         NEW proposal, Says(a, said, proposal),
         said = "done" => Returned(a) /\ calls[a].state = "served"
  PROVE  SaysOn(b)
<1> DEFINE n == [attempt[a] EXCEPT !.pc = "publish", !.said = said, !.proposal = proposal]
<1>1. attempt'[b] = IF b = a THEN n ELSE attempt[b]  BY StepRecord DEF Says
<1>2. n.pc = "publish" /\ n.request = attempt[a].request /\ n.said = said
  BY WorkingRecord DEF Handling
<1> HIDE DEF n
<1>3. CASE b = a  BY <1>1, <1>2, <1>3 DEF SaysOn
<1>4. CASE b # a  BY <1>1, <1>4, UntouchedSaysOn DEF Working
<1> QED  BY <1>3, <1>4

LEMMA CreateSaysOn ==
  ASSUME TypeOK, NEW a \in Attempt, NEW b \in Attempt, Working(b)', Create(a)
  PROVE  SaysOn(b)
<1> DEFINE n == [attempt[a] EXCEPT !.pc = "end", !.opened = Len(checkpoints) + 1]
<1>1. Working(a)  BY DEF Create, At, Working
<1>2. attempt'[b] = IF b = a THEN n ELSE attempt[b]  BY StepRecord DEF Create
<1>3. n.pc = "end" /\ n.request = attempt[a].request /\ n.said = attempt[a].said
  BY <1>1, WorkingRecord DEF Handling
<1> HIDE DEF n
<1>4. CASE b = a  BY <1>1, <1>2, <1>3, <1>4 DEF SaysOn
<1>5. CASE b # a  BY <1>2, <1>5, UntouchedSaysOn DEF Working
<1> QED  BY <1>4, <1>5

LEMMA LossSaysOn ==
  ASSUME TypeOK, NEW b \in Attempt, Working(b)', WorkerDies \/ ChannelLost
  PROVE  SaysOn(b)
<1>1. b \in Live <=> Working(b)  BY DEF Live, Working
<1>2. CASE WorkerDies
  <2>1. attempt'[b] = IF b \in Live THEN Done ELSE attempt[b]  BY <1>2 DEF WorkerDies
  <2> QED  BY <1>1, <2>1, UntouchedSaysOn DEF Working, Done
<1>3. CASE ChannelLost
  <2> DEFINE n == [attempt[b] EXCEPT !.holds = FALSE]
  <2>1. attempt'[b] = IF b \in Live THEN n ELSE attempt[b]  BY <1>3 DEF ChannelLost
  <2>2. Working(b)  BY <1>1, <2>1 DEF Working
  <2>3. n.pc = attempt[b].pc /\ n.request = attempt[b].request /\ n.said = attempt[b].said
    BY <2>2, WorkingRecord DEF Handling
  <2> HIDE DEF n
  <2> QED  BY <1>1, <2>1, <2>2, <2>3 DEF SaysOn
<1> QED  BY <1>2, <1>3

LEMMA DeliverSaysOn ==
  ASSUME TypeOK, NEW r \in Request, NEW a \in Attempt, NEW b \in Attempt, Working(b)',
         Deliver(r, a)
  PROVE  SaysOn(b) \/ Delivered(b)
<1>1. CASE b = a
  <2>1. At(b, "idle")  BY <1>1 DEF Deliver
  <2>2. ~WentOn(b)  BY <2>1 DEF WentOn, Working, At
  <2> QED  BY <2>2, DeliverStarts
<1>2. CASE b # a
  <2>1. attempt'[b] = attempt[b]  BY <1>2, StepRecord DEF Deliver
  <2> QED  BY <2>1, UntouchedSaysOn DEF Working
<1> QED  BY <1>1, <1>2

LEMMA SaidCame ==
  ASSUME TypeOK, [Next]_vars, NEW b \in Attempt, Working(b)'
  PROVE  SaysOn(b) \/ Delivered(b)
<1>1. CASE UNCHANGED attempt  BY <1>1, UntouchedSaysOn DEF Working
<1>2. CASE \E r \in Request, a \in Attempt : Deliver(r, a)  BY <1>2, DeliverSaysOn
<1>3. CASE \E a \in Attempt : Create(a)  BY <1>3, CreateSaysOn
<1>4. CASE WorkerDies \/ ChannelLost  BY <1>4, LossSaysOn
<1>5. CASE \E a \in Attempt : Propose(a)
  BY <1>5, SaysSaysOn DEF Propose, At, Working
<1>6. CASE \E a \in Attempt : Load(a)
  BY <1>6, SaysSaysOn, ToSaysOn DEF Load, At, Working
<1>7. CASE \E a \in Attempt : Call(a)
  BY <1>7, ToSaysOn DEF Call, At, Working
<1>8. CASE \E a \in Attempt : Returned(a)
  <2>1. PICK a \in Attempt : Returned(a)  BY <1>8
  <2>2. Working(a)  BY <2>1 DEF Returned, At, Working
  <2>3. \E said : /\ Says(a, said, {})
                  /\ said = "done" => calls[a].state = "served"
    BY <2>1 DEF Returned
  <2> QED  BY <2>1, <2>2, <2>3, SaysSaysOn
<1>9. CASE \E a \in Attempt : Publish(a) \/ Mark(a)
  <2>1. PICK a \in Attempt : Publish(a) \/ Mark(a)  BY <1>9
  <2>2. Working(a)  BY <2>1 DEF Publish, Mark, At, Working
  <2>3. \E pc \in {"mark", "create", "end"} : To(a, pc)  BY <2>1 DEF Publish, Mark
  <2> QED  BY <2>2, <2>3, ToSaysOn
<1>10. CASE \E a \in Attempt : End(a) \/ Fail(a)
  <2>1. PICK a \in Attempt : Step(a, Done)  BY <1>10 DEF End, Fail, Leaves
  <2>2. attempt'[b] = IF b = a THEN Done ELSE attempt[b]  BY <2>1, StepRecord
  <2> QED  BY <2>2, UntouchedSaysOn DEF Working, Done
<1> QED
  BY <1>1, <1>2, <1>3, <1>4, <1>5, <1>6, <1>7, <1>8, <1>9, <1>10
  DEF Next, vars, Send, Confirm, Serve, Drop

\* What a step makes of a call.
LEMMA CallAfter ==
  ASSUME TypeOK, [Next]_vars, NEW b \in Attempt
  PROVE  \/ Call(b)
         \/ calls'[b] = calls[b]
         \/ /\ calls'[b].state = "served" => Serve(b)
            /\ calls'[b].state # "none" /\ calls[b].state # "none"
            /\ calls'[b].request = calls[b].request
<1>1. CASE UNCHANGED calls  BY <1>1
<1>2. CASE \E a \in Attempt : Call(a)  BY <1>2 DEF Call, TypeOK
<1>3. CASE \E a \in Attempt : Serve(a) \/ Drop(a)
  <2>1. PICK a \in Attempt, state \in {"served", "refused"} :
          /\ calls[a].state = "sent" /\ (state = "served" => Serve(a))
          /\ calls' = [calls EXCEPT ![a] = [calls[a] EXCEPT !.state = state]]
    BY <1>3 DEF Serve, Drop
  <2> DEFINE n == [calls[a] EXCEPT !.state = state]
  <2>2. n.request = calls[a].request /\ n.state = state  BY <2>1, MadeRecord DEF Made
  <2>3. calls'[b] = IF b = a THEN n ELSE calls[b]  BY <2>1 DEF TypeOK
  <2> HIDE DEF n
  <2> QED  BY <2>1, <2>2, <2>3
<1> QED
  BY <1>1, <1>2, <1>3
  DEF Next, vars, Send, Confirm, Deliver, Propose, Load, Returned, Publish, Mark, Create,
      End, Fail, Leaves, WorkerDies, ChannelLost, Redelivered

LEMMA InitSaid == Init => SInv
BY InitTypes, InitTraced
DEF Init, SInv, IInv, ServedKept, WaitKept, SaidKept, ToldKept, Working, Idle, NoCall

LEMMA NextSaid ==
  ASSUME SInv, [Next]_vars
  PROVE  SInv'
<1>1. IInv /\ TypeOK /\ IInv'  BY NextTraced DEF SInv, IInv
<1>2. ASSUME NEW b \in Attempt, calls'[b].state = "served", NEW r, r = calls'[b].request
      PROVE  Executed(r)'
  <2>1. CASE Call(b)
    <3>1. calls'[b].state = "sent"  BY <1>1, <2>1 DEF Call, TypeOK
    <3> QED  BY <1>2, <3>1
  <2>2. CASE calls'[b] = calls[b]
    <3>1. r \in Request  BY <1>1, <1>2, <2>2, MadeRecord DEF Made
    <3> QED  BY <1>1, <1>2, <2>2, <3>1, ExecutedStays DEF SInv, ServedKept
  <2>3. CASE Serve(b) /\ calls'[b].request = calls[b].request
    BY <1>1, <1>2, <2>3, ServedExecutes
  <2> QED  BY <1>1, <1>2, <2>1, <2>2, <2>3, CallAfter
<1>3. ASSUME NEW b \in Attempt, attempt'[b].pc = "wait"
      PROVE  calls'[b].state # "none" /\ calls'[b].request = attempt'[b].request
  <2>1. SaysOn(b)  BY <1>1, <1>3, SaidCame DEF Working, Delivered
  <2>2. CASE Call(b)
    <3>1. calls'[b] = [state |-> "sent", request |-> attempt[b].request,
                       checkpoint |-> Checkpoint(b)]
      BY <1>1, <2>2 DEF Call, TypeOK
    <3> QED  BY <2>1, <3>1 DEF SaysOn
  <2>3. CASE ~Call(b)
    <3>1. attempt[b].pc = "wait"  BY <1>3, <2>1, <2>3 DEF SaysOn
    <3>2. calls[b].state # "none" /\ calls[b].request = attempt[b].request
      BY <3>1 DEF SInv, WaitKept
    <3> QED  BY <1>1, <2>1, <2>3, <3>2, CallAfter DEF SaysOn
  <2> QED  BY <2>2, <2>3
<1>4. ASSUME NEW b \in Attempt, Working(b)', attempt'[b].said = "done",
             NEW r, r = attempt'[b].request
      PROVE  Executed(r)'
  <2>1. SaysOn(b)  BY <1>1, <1>4, SaidCame DEF Delivered
  <2>2. r = attempt[b].request /\ r \in Request
    BY <1>1, <1>4, <2>1, WorkingRecord DEF SaysOn, Handling
  <2>3. CASE attempt[b].said = "done"
    BY <1>1, <2>1, <2>2, <2>3, ExecutedStays DEF SaysOn, SInv, SaidKept
  <2>4. CASE Returned(b) /\ calls[b].state = "served"
    <3>1. calls[b].request = r  BY <2>2, <2>4 DEF Returned, At, SInv, WaitKept
    <3> QED  BY <1>1, <2>2, <2>4, <3>1, ExecutedStays DEF SInv, ServedKept
  <2> QED  BY <1>4, <2>1, <2>3, <2>4 DEF SaysOn
<1>5. ASSUME NEW e \in announced', e.said = "done"
      PROVE  Executed(e.request)'
  <2>1. CASE e \in announced
    BY <1>1, <1>5, <2>1, ExecutedStays DEF SInv, ToldKept, TypeOK
  <2>2. CASE \E a \in Attempt : End(a) /\ e \notin announced
    <3>1. PICK a \in Attempt : End(a) /\ e \notin announced  BY <2>2
    <3>2. Working(a)  BY <3>1 DEF End, At, Working
    <3>3. e.request = attempt[a].request /\ e.said \in {"none", attempt[a].said}
      BY <3>1 DEF End, Tells
    <3>4. attempt[a].request \in Request  BY <1>1, <3>2, WorkingRecord DEF Handling
    <3> QED  BY <1>1, <1>5, <3>2, <3>3, <3>4, ExecutedStays DEF SInv, SaidKept
  <2> QED
    BY <2>1, <2>2
    DEF Next, vars, Send, Confirm, Deliver, Propose, Load, Call, Returned, Publish, Mark,
        Create, Fail, Serve, Drop, WorkerDies, ChannelLost, Redelivered
<1>6. ServedKept'  BY <1>2 DEF ServedKept, Executed, Sent
<1>7. WaitKept'  BY <1>3 DEF WaitKept
<1>8. SaidKept'  BY <1>4 DEF SaidKept, Executed, Sent
<1>9. ToldKept'  BY <1>5 DEF ToldKept
<1> QED  BY <1>1, <1>6, <1>7, <1>8, <1>9 DEF SInv

\* No answer says of an operation that it is done unless the bank has done it,
\* whatever calls are late or lost and whatever is delivered again.
THEOREM SaidOnlyIfDone == Spec => []SaidIsDone
<1>1. Init => SInv  BY InitSaid
<1>2. SInv /\ [Next]_vars => SInv'  BY NextSaid
<1>3. SInv => SaidIsDone  BY DEF SInv, ToldKept, Executed, SaidIsDone
<1> QED  BY <1>1, <1>2, <1>3, PTL DEF Spec
=============================================================================
