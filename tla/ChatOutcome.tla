---------------------------- MODULE ChatOutcome ----------------------------
(***************************************************************************)
(* What the backend promises about one submitted message, without queues,  *)
(* workers or streams: the message is accepted, at most one assistant row  *)
(* is recorded for it, and its client is told at most once how it ended,   *)
(* no end but the one on record.  A response that breaks off says nothing  *)
(* of what is on record, but it too is final: once the client has been     *)
(* told anything, no row of the request is added or changed.               *)
(***************************************************************************)
EXTENDS Sequences

CONSTANT Request

VARIABLES accepted,  \* the requests whose user row exists
          rows,      \* statuses of the assistant rows of a request
          told       \* what its client was told: an end, a broken response

vars == <<accepted, rows, told>>

Terminal == {"completed", "confirmation_required", "failed"}

Init ==
  /\ accepted = {}
  /\ rows = [r \in Request |-> <<>>]
  /\ told = [r \in Request |-> "none"]

Accept(r) ==
  /\ r \notin accepted
  /\ accepted' = accepted \cup {r}
  /\ UNCHANGED <<rows, told>>

Record(r) ==
  /\ r \in accepted
  /\ rows[r] = <<>>
  /\ told[r] = "none"
  /\ \E status \in Terminal \cup {"interrupted"} :
       rows' = [rows EXCEPT ![r] = <<status>>]
  /\ UNCHANGED <<accepted, told>>

Tell(r) ==
  /\ told[r] = "none"
  /\ \E status \in Terminal :
       /\ rows[r] = <<status>>
       /\ told' = [told EXCEPT ![r] = status]
  /\ UNCHANGED <<accepted, rows>>

Break(r) ==
  /\ r \in accepted
  /\ told[r] = "none"
  /\ told' = [told EXCEPT ![r] = "broken"]
  /\ UNCHANGED <<accepted, rows>>

Next == \E r \in Request : Accept(r) \/ Record(r) \/ Tell(r) \/ Break(r)

Spec == Init /\ [][Next]_vars
=============================================================================
