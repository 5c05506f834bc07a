----------------------------- MODULE RateLimit -----------------------------
(***************************************************************************)
(* The rate limiter in front of the backend's routes (rate_limit.py): one  *)
(* token bucket per client address, made full on its first request.        *)
(* dispatch awaits nothing before consume returns, so a request's use of   *)
(* its bucket is one step.                                                 *)
(*                                                                         *)
(* Time is counted in ticks of which one refills one unit of a bucket;     *)
(* Token is what a request costs, in units (the code's 1.0) and Burst the  *)
(* capacity.  The rounding of the code's floats is left out.               *)
(***************************************************************************)
EXTENDS Integers, Sequences

CONSTANTS
  Client,       \* client addresses
  Token,        \* units that one request costs
  Burst,        \* units a full bucket holds
  MaxTime,      \* bound: the clock
  MaxRefusals   \* bound: 429 answers to one client

ASSUME RateAssumption ==
  /\ Token \in Nat \ {0}
  /\ Burst \in Nat /\ Token <= Burst
  /\ MaxTime \in Nat
  /\ MaxRefusals \in Nat

VARIABLES
  now,       \* time.monotonic()
  buckets,   \* RateLimitMiddleware._buckets
  admitted,  \* when the requests of each client reached their route
  refusals   \* how many of them were answered with 429

vars == <<now, buckets, admitted, refusals>>

Bucket == [tokens : 0 .. Burst, last_refill : 0 .. MaxTime]
NoBucket == [tokens |-> -1, last_refill |-> -1]

Init ==
  /\ now = 0
  /\ buckets = [c \in Client |-> NoBucket]
  /\ admitted = [c \in Client |-> <<>>]
  /\ refusals = [c \in Client |-> 0]
-----------------------------------------------------------------------------
Tick ==
  /\ now < MaxTime
  /\ now' = now + 1
  /\ UNCHANGED <<buckets, admitted, refusals>>

\* The defaultdict makes a full bucket for an address it does not know.
BucketOf(c) ==
  IF buckets[c] = NoBucket THEN [tokens |-> Burst, last_refill |-> now] ELSE buckets[c]

Refilled(b) ==
  LET earned == b.tokens + (now - b.last_refill)
  IN  IF earned <= Burst THEN earned ELSE Burst

\* Variant: a request needs no whole token.
Pass_anyToken(c) ==
  LET t == Refilled(BucketOf(c))
  IN  /\ t > 0
      /\ buckets' = [buckets EXCEPT ![c] =
           [tokens |-> IF t >= Token THEN t - Token ELSE 0, last_refill |-> now]]
      /\ admitted' = [admitted EXCEPT ![c] = Append(@, now)]
      /\ UNCHANGED <<now, refusals>>

\* consume returns True: the request goes on to its route.
Pass(c) ==
  LET t == Refilled(BucketOf(c))
  IN  /\ t >= Token
      /\ buckets' = [buckets EXCEPT ![c] = [tokens |-> t - Token, last_refill |-> now]]
      /\ admitted' = [admitted EXCEPT ![c] = Append(@, now)]
      /\ UNCHANGED <<now, refusals>>

\* Variant: a refused request forfeits what was refilled since the last one.
TooMany_forfeits(c) ==
  LET b == BucketOf(c)
  IN  /\ Refilled(b) < Token
      /\ refusals[c] < MaxRefusals
      /\ buckets' = [buckets EXCEPT ![c] = [b EXCEPT !.last_refill = now]]
      /\ refusals' = [refusals EXCEPT ![c] = @ + 1]
      /\ UNCHANGED <<now, admitted>>

\* consume returns False, after the refill: 429.
TooMany(c) ==
  LET t == Refilled(BucketOf(c))
  IN  /\ t < Token
      /\ refusals[c] < MaxRefusals
      /\ buckets' = [buckets EXCEPT ![c] = [tokens |-> t, last_refill |-> now]]
      /\ refusals' = [refusals EXCEPT ![c] = @ + 1]
      /\ UNCHANGED <<now, admitted>>

Next == Tick \/ \E c \in Client : Pass(c) \/ TooMany(c)

Spec == Init /\ [][Next]_vars
-----------------------------------------------------------------------------
TypeOK ==
  /\ now \in 0 .. MaxTime
  /\ buckets \in [Client -> Bucket \cup {NoBucket}]
  /\ admitted \in [Client -> Seq(0 .. MaxTime)]
  /\ refusals \in [Client -> 0 .. MaxRefusals]

\* In no window of time, wherever it starts and ends, do more requests of one
\* address reach the routes than the burst and the refill of the window pay for.
WindowBound ==
  \A c \in Client : \A i, j \in 1 .. Len(admitted[c]) : i <= j =>
    (j - i + 1) * Token <= Burst + (admitted[c][j] - admitted[c][i])

\* What a bucket remembers of the past is exact: its tokens are what the
\* fullest window that ends now leaves over.
WindowsFit(c) ==
  LET n == Len(admitted[c])
      b == buckets[c]
  IN  \A i \in 1 .. n :
        /\ admitted[c][i] <= b.last_refill
        /\ b.tokens + (n - i + 1) * Token <= Burst + (b.last_refill - admitted[c][i])

SomeWindowFull(c) ==
  LET n == Len(admitted[c])
      b == buckets[c]
  IN  \/ b.tokens = Burst
      \/ \E i \in 1 .. n :
           b.tokens + (n - i + 1) * Token = Burst + (b.last_refill - admitted[c][i])

BucketOK(c) ==
  IF buckets[c] = NoBucket
    THEN admitted[c] = <<>>
    ELSE buckets[c].last_refill <= now /\ WindowsFit(c) /\ SomeWindowFull(c)

BucketInv == \A c \in Client : BucketOK(c)

\* The buckets decide as the contract does, which knows only the requests that
\* were let through: refused requests cost a client nothing, and one address
\* takes nothing from another.
Contract == INSTANCE RateContract

ImplementsContract == Contract!Spec
=============================================================================
