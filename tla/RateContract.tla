---------------------------- MODULE RateContract ----------------------------
(***************************************************************************)
(* What the rate limiter promises to each client, in terms of nothing but  *)
(* the requests of that client that were let through: a request is let     *)
(* through exactly when no window that ends with it would then hold more   *)
(* than the burst and what the window's length has earned.                 *)
(***************************************************************************)
EXTENDS Integers, Sequences

CONSTANTS Client, Token, Burst

VARIABLES
  now,       \* the clock
  admitted,  \* the times at which each client's requests were let through
  refusals   \* how many requests of each client were answered with 429

vars == <<now, admitted, refusals>>

Init ==
  /\ now = 0
  /\ admitted = [c \in Client |-> <<>>]
  /\ refusals = [c \in Client |-> 0]

Room(c) ==
  LET n == Len(admitted[c])
  IN  \A i \in 1 .. n : (n - i + 2) * Token <= Burst + (now - admitted[c][i])

Tick == now' = now + 1 /\ UNCHANGED <<admitted, refusals>>

Admit(c) ==
  /\ Room(c)
  /\ admitted' = [admitted EXCEPT ![c] = Append(@, now)]
  /\ UNCHANGED <<now, refusals>>

Refuse(c) ==
  /\ ~Room(c)
  /\ refusals' = [refusals EXCEPT ![c] = @ + 1]
  /\ UNCHANGED <<now, admitted>>

Next == Tick \/ \E c \in Client : Admit(c) \/ Refuse(c)

Spec == Init /\ [][Next]_vars
=============================================================================
