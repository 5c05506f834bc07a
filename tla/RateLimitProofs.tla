-------------------------- MODULE RateLimitProofs --------------------------
(***************************************************************************)
(* Proofs about RateLimit for every set of addresses, every price of a     *)
(* request and every capacity of a bucket.                                 *)
(***************************************************************************)
EXTENDS RateLimit, TLAPS

\* One more request in a window costs one more Token: _TokenBucket.consume's
\* `tokens -= 1` against the count of the requests since a point in time.
LEMMA OneMore ==
  ASSUME NEW k \in Int
  PROVE  k * Token \in Int /\ (k + 1) * Token = k * Token + Token
  BY RateAssumption, SMT

\* The bucket a request finds: what it holds, and when it was refilled.
LEMMA BucketFound ==
  ASSUME TypeOK, NEW c \in Client
  PROVE  /\ BucketOf(c) \in Bucket
         /\ buckets[c] = NoBucket => BucketOf(c) = [tokens |-> Burst, last_refill |-> now]
         /\ buckets[c] # NoBucket => BucketOf(c) = buckets[c]
<1>1. now \in 0 .. MaxTime /\ buckets[c] \in Bucket \cup {NoBucket}
  BY DEF TypeOK
<1>2. [tokens |-> Burst, last_refill |-> now] \in Bucket
  BY <1>1, RateAssumption DEF Bucket
<1> QED
  BY <1>1, <1>2 DEF BucketOf

\* The refill keeps a bucket within its capacity, and between them the two
\* cases of min() say what it holds.
LEMMA RefillBounds ==
  ASSUME TypeOK, NEW b \in Bucket, b.last_refill <= now
  PROVE  /\ Refilled(b) \in 0 .. Burst
         /\ Refilled(b) <= b.tokens + (now - b.last_refill)
         /\ Refilled(b) = Burst \/ Refilled(b) = b.tokens + (now - b.last_refill)
<1>1. /\ b.tokens \in 0 .. Burst
      /\ b.last_refill \in Int
      /\ now \in Int
  BY DEF TypeOK, Bucket
<1> QED
  BY <1>1, RateAssumption DEF Refilled

\* A bucket is never refilled in the future.
LEMMA RefilledInPast ==
  ASSUME TypeOK, BucketInv, NEW c \in Client
  PROVE  BucketOf(c).last_refill <= now
<1>1. CASE buckets[c] = NoBucket
  <2>1. BucketOf(c) = [tokens |-> Burst, last_refill |-> now]
    BY <1>1, BucketFound
  <2> QED
    BY <2>1 DEF TypeOK
<1>2. CASE buckets[c] # NoBucket
  BY <1>2, BucketFound DEF BucketInv, BucketOK
<1> QED
  BY <1>1, <1>2

\* Elements of a sequence are where the sequence says they are.
LEMMA ElementType ==
  ASSUME NEW S, NEW s \in Seq(S)
  PROVE  Len(s) \in Nat /\ \A i \in 1 .. Len(s) : s[i] \in S
  OBVIOUS

\* The log of a client: the times of its requests that went on.
LEMMA LogTimes ==
  ASSUME TypeOK, NEW c \in Client
  PROVE  /\ admitted[c] \in Seq(0 .. MaxTime)
         /\ Len(admitted[c]) \in Nat
         /\ \A i \in 1 .. Len(admitted[c]) : admitted[c][i] \in 0 .. MaxTime
<1>1. admitted[c] \in Seq(0 .. MaxTime)
  BY DEF TypeOK
<1> QED
  BY <1>1, ElementType

\* What a request's refill leaves: each window that ends now fits, and one is
\* full unless the bucket is.
LEMMA RefillFits ==
  ASSUME TypeOK, BucketInv, NEW c \in Client
  PROVE  LET t == Refilled(BucketOf(c))
             n == Len(admitted[c])
         IN  /\ t \in 0 .. Burst
             /\ \A i \in 1 .. n :
                  /\ admitted[c][i] \in 0 .. now
                  /\ t + (n - i + 1) * Token <= Burst + (now - admitted[c][i])
             /\ \/ t = Burst
                \/ \E i \in 1 .. n :
                     t + (n - i + 1) * Token = Burst + (now - admitted[c][i])
<1> DEFINE b == BucketOf(c)
           t == Refilled(b)
           n == Len(admitted[c])
<1>1. /\ b \in Bucket /\ b.last_refill <= now
      /\ b.tokens \in 0 .. Burst /\ b.last_refill \in 0 .. MaxTime
  BY BucketFound, RefilledInPast DEF Bucket
<1>2. /\ t \in 0 .. Burst
      /\ t <= b.tokens + (now - b.last_refill)
      /\ t = Burst \/ t = b.tokens + (now - b.last_refill)
  BY <1>1, RefillBounds
<1>3. /\ admitted[c] \in Seq(0 .. MaxTime) /\ n \in Nat
      /\ now \in 0 .. MaxTime
      /\ \A i \in 1 .. n : admitted[c][i] \in 0 .. MaxTime
  BY LogTimes DEF TypeOK
<1>4. CASE buckets[c] = NoBucket
  <2>1. admitted[c] = <<>> /\ n = 0
    BY <1>4 DEF BucketInv, BucketOK
  <2>2. b.tokens = Burst /\ b.last_refill = now
    BY <1>4, BucketFound
  <2>3. t = Burst
    BY <1>2, <1>3, <2>2, RateAssumption
  <2> QED
    BY <1>2, <2>1, <2>3
<1>5. CASE buckets[c] # NoBucket
  <2>1. b = buckets[c]
    BY <1>5, BucketFound
  <2>2. WindowsFit(c) /\ SomeWindowFull(c)
    BY <1>5 DEF BucketInv, BucketOK
  <2>3. ASSUME NEW i \in 1 .. n
        PROVE  /\ admitted[c][i] \in 0 .. now
               /\ t + (n - i + 1) * Token <= Burst + (now - admitted[c][i])
    <3>1. /\ admitted[c][i] <= b.last_refill
          /\ b.tokens + (n - i + 1) * Token <= Burst + (b.last_refill - admitted[c][i])
      BY <2>1, <2>2, <2>3 DEF WindowsFit
    <3>2. (n - i + 1) * Token \in Int /\ admitted[c][i] \in Int
      <4>1. n - i + 1 \in Int
        BY <1>3, <2>3
      <4>2. (n - i + 1) * Token \in Int
        BY <4>1, OneMore
      <4> HIDE DEF n
      <4> QED
        BY <1>3, <2>3, <4>2
    <3>3. admitted[c][i] \in 0 .. now
      BY <1>1, <1>3, <2>3, <3>1
    <3> DEFINE worth == (n - i + 1) * Token
    <3>4. /\ b.tokens \in Int /\ b.last_refill \in Int /\ now \in Int /\ t \in Int
          /\ worth \in Int /\ admitted[c][i] \in Int
          /\ b.tokens + worth <= Burst + (b.last_refill - admitted[c][i])
      BY <1>1, <1>2, <1>3, <3>1, <3>2, RateAssumption DEF TypeOK
    <3> HIDE DEF b, t, n, worth
    <3>5. t + worth <= Burst + (now - admitted[c][i])
      BY <1>2, <3>4, RateAssumption
    <3> QED
      BY <3>3, <3>5 DEF worth
  <2>4. \/ t = Burst
        \/ \E i \in 1 .. n : t + (n - i + 1) * Token = Burst + (now - admitted[c][i])
    <3>1. CASE b.tokens = Burst
      BY <1>1, <1>2, <1>3, <3>1, RateAssumption
    <3>2. CASE b.tokens # Burst
      <4>1. PICK i \in 1 .. n :
              b.tokens + (n - i + 1) * Token = Burst + (b.last_refill - admitted[c][i])
        BY <2>1, <2>2, <3>2 DEF SomeWindowFull
      <4>2. (n - i + 1) * Token \in Int /\ admitted[c][i] \in Int
        BY <1>3, RateAssumption
      <4> DEFINE worth == (n - i + 1) * Token
      <4>3. /\ b.tokens \in Int /\ b.last_refill \in Int /\ now \in Int /\ t \in Int
            /\ worth \in Int /\ admitted[c][i] \in Int
            /\ b.tokens + worth = Burst + (b.last_refill - admitted[c][i])
        BY <1>1, <1>2, <1>3, <4>1, <4>2, RateAssumption
      <4> HIDE DEF b, t, n, worth
      <4>4. t = Burst \/ t + worth = Burst + (now - admitted[c][i])
        BY <1>2, <4>3, RateAssumption
      <4> QED
        BY <4>4 DEF worth
    <3> QED
      BY <3>1, <3>2
  <2> QED
    BY <1>2, <2>3, <2>4
<1> QED
  BY <1>4, <1>5

-----------------------------------------------------------------------------
LEMMA TypeInit == Init => TypeOK
  BY RateAssumption DEF Init, TypeOK

LEMMA TypeStep == TypeOK /\ BucketInv /\ [Next]_vars => TypeOK'
<1> SUFFICES ASSUME TypeOK, BucketInv, [Next]_vars
             PROVE  TypeOK'
  OBVIOUS
<1>1. CASE Tick
  BY <1>1, RateAssumption DEF TypeOK, Tick, Bucket
<1>2. ASSUME NEW c \in Client, Pass(c)
      PROVE  TypeOK'
  <2> DEFINE t == Refilled(BucketOf(c))
  <2>1. t \in 0 .. Burst
    BY RefillFits
  <2>2. [tokens |-> t - Token, last_refill |-> now] \in Bucket
    BY <1>2, <2>1, RateAssumption DEF Pass, TypeOK, Bucket
  <2>3. Append(admitted[c], now) \in Seq(0 .. MaxTime)
    BY DEF TypeOK
  <2> QED
    BY <1>2, <2>2, <2>3 DEF TypeOK, Pass
<1>3. ASSUME NEW c \in Client, TooMany(c)
      PROVE  TypeOK'
  <2> DEFINE t == Refilled(BucketOf(c))
  <2>1. t \in 0 .. Burst
    BY RefillFits
  <2>2. [tokens |-> t, last_refill |-> now] \in Bucket
    BY <2>1 DEF TypeOK, Bucket
  <2>3. refusals[c] + 1 \in 0 .. MaxRefusals
    BY <1>3, RateAssumption DEF TypeOK, TooMany
  <2> QED
    BY <1>3, <2>2, <2>3 DEF TypeOK, TooMany
<1>4. CASE UNCHANGED vars
  BY <1>4 DEF TypeOK, vars
<1> QED
  BY <1>1, <1>2, <1>3, <1>4 DEF Next

LEMMA BucketInit == Init => BucketInv
  BY DEF Init, BucketInv, BucketOK

\* What a step does to one client: its bucket is refilled and paid from, or it
\* is left alone while the clock moves on.
LEMMA ClientStep ==
  ASSUME TypeOK, BucketInv, NEW c \in Client, [Next]_vars
  PROVE  \/ /\ buckets'[c] = buckets[c] /\ admitted'[c] = admitted[c]
            /\ now <= now'
         \/ /\ now' = now /\ Pass(c)
            /\ buckets'[c] = [tokens |-> Refilled(BucketOf(c)) - Token,
                              last_refill |-> now]
            /\ admitted'[c] = Append(admitted[c], now)
         \/ /\ now' = now /\ TooMany(c)
            /\ buckets'[c] = [tokens |-> Refilled(BucketOf(c)), last_refill |-> now]
            /\ admitted'[c] = admitted[c]
<1>1. /\ now \in 0 .. MaxTime
      /\ buckets \in [Client -> Bucket \cup {NoBucket}]
      /\ admitted \in [Client -> Seq(0 .. MaxTime)]
  BY DEF TypeOK
<1>2. CASE Tick
  BY <1>1, <1>2 DEF Tick
<1>3. ASSUME NEW d \in Client, Pass(d)
      PROVE  \/ c = d
             \/ /\ buckets'[c] = buckets[c] /\ admitted'[c] = admitted[c]
                /\ now <= now'
  BY <1>1, <1>3 DEF Pass
<1>4. ASSUME NEW d \in Client, TooMany(d)
      PROVE  \/ c = d
             \/ /\ buckets'[c] = buckets[c] /\ admitted'[c] = admitted[c]
                /\ now <= now'
  BY <1>1, <1>4 DEF TooMany
<1>5. CASE Pass(c)
  BY <1>1, <1>5 DEF Pass
<1>6. CASE TooMany(c)
  BY <1>1, <1>6 DEF TooMany
<1>7. CASE UNCHANGED vars
  BY <1>1, <1>7 DEF vars
<1> QED
  BY <1>2, <1>3, <1>4, <1>5, <1>6, <1>7 DEF Next

\* After a request went on, its own window is full and the others still fit.
LEMMA PassKeeps ==
  ASSUME TypeOK, TypeOK', BucketInv, NEW c \in Client, Pass(c),
         buckets'[c] = [tokens |-> Refilled(BucketOf(c)) - Token, last_refill |-> now],
         admitted'[c] = Append(admitted[c], now), now' = now
  PROVE  BucketOK(c)'
<1> DEFINE t == Refilled(BucketOf(c))
           n == Len(admitted[c])
           worth(i) == (n - i + 1) * Token
<1>1. /\ t \in 0 .. Burst
      /\ \A i \in 1 .. n :
           /\ admitted[c][i] \in 0 .. now
           /\ t + worth(i) <= Burst + (now - admitted[c][i])
      /\ t = Burst \/ \E i \in 1 .. n : t + worth(i) = Burst + (now - admitted[c][i])
  BY RefillFits
<1>2. /\ n \in Nat /\ admitted[c] \in Seq(0 .. MaxTime) /\ now \in Nat
  BY LogTimes DEF TypeOK
<1>3. /\ Len(admitted'[c]) = n + 1
      /\ admitted'[c][n + 1] = now
      /\ \A i \in 1 .. n : admitted'[c][i] = admitted[c][i]
  BY <1>2
<1>4. \A i \in 1 .. n + 1 : /\ worth(i) \in Int
                           /\ ((n + 1) - i + 1) * Token = worth(i) + Token
  <2> TAKE i \in 1 .. n + 1
  <2>1. n - i + 1 \in Int /\ (n + 1) - i + 1 = (n - i + 1) + 1
    BY <1>2
  <2> QED
    BY <2>1, OneMore, RateAssumption
<1>5. worth(n + 1) = 0
  BY <1>2, RateAssumption
<1>6. /\ buckets'[c].tokens = t - Token /\ buckets'[c].last_refill = now
      /\ buckets'[c] # NoBucket
  BY <1>2 DEF NoBucket
<1> HIDE DEF t, worth
<1>7. ASSUME NEW i \in 1 .. n + 1
      PROVE  /\ admitted'[c][i] <= now
             /\ (t - Token) + ((n + 1) - i + 1) * Token <= Burst + (now - admitted'[c][i])
  <2>1. CASE i = n + 1
    BY <1>1, <1>2, <1>3, <1>4, <1>5, <2>1, RateAssumption
  <2>2. CASE i # n + 1
    <3>1. i \in 1 .. n
      BY <1>2, <2>2
    <3>2. /\ worth(i) \in Int /\ admitted'[c][i] = admitted[c][i]
          /\ ((n + 1) - i + 1) * Token = worth(i) + Token
          /\ admitted[c][i] \in 0 .. now
          /\ t + worth(i) <= Burst + (now - admitted[c][i])
      BY <1>1, <1>3, <1>4, <3>1
    <3> DEFINE more == ((n + 1) - i + 1) * Token
    <3>3. more = worth(i) + Token
      BY <3>2
    <3> HIDE DEF more
    <3>4. (t - Token) + more <= Burst + (now - admitted'[c][i])
      BY <1>1, <1>2, <3>2, <3>3, RateAssumption
    <3> QED
      BY <1>2, <3>2, <3>4 DEF more
  <2> QED
    BY <2>1, <2>2
<1>8. \E i \in 1 .. n + 1 :
        (t - Token) + ((n + 1) - i + 1) * Token = Burst + (now - admitted'[c][i])
  <2>1. CASE t = Burst
    <3>1. n + 1 \in 1 .. n + 1
      BY <1>2
    <3>2. (t - Token) + ((n + 1) - (n + 1) + 1) * Token
            = Burst + (now - admitted'[c][n + 1])
      BY <1>1, <1>2, <1>3, <1>4, <1>5, <2>1, <3>1, RateAssumption
    <3> QED
      BY <3>1, <3>2
  <2>2. CASE t # Burst
    <3>1. PICK i \in 1 .. n : t + worth(i) = Burst + (now - admitted[c][i])
      BY <1>1, <2>2
    <3>2. i \in 1 .. n + 1
      BY <1>2
    <3>3. (t - Token) + ((n + 1) - i + 1) * Token = Burst + (now - admitted'[c][i])
      <4>1. /\ worth(i) \in Int /\ admitted'[c][i] = admitted[c][i]
            /\ ((n + 1) - i + 1) * Token = worth(i) + Token
            /\ admitted[c][i] \in 0 .. now
        BY <1>1, <1>3, <1>4, <3>1, <3>2
      <4> QED
        BY <1>1, <1>2, <3>1, <4>1, RateAssumption
    <3> QED
      BY <3>2, <3>3
  <2> QED
    BY <2>1, <2>2
<1>9. WindowsFit(c)'
  BY <1>3, <1>6, <1>7 DEF WindowsFit
<1>10. SomeWindowFull(c)'
  BY <1>3, <1>6, <1>8 DEF SomeWindowFull
<1> QED
  BY <1>2, <1>6, <1>9, <1>10 DEF BucketOK

\* A refused request leaves the bucket with its refill: the log is the same.
LEMMA TooManyKeeps ==
  ASSUME TypeOK, BucketInv, NEW c \in Client,
         buckets'[c] = [tokens |-> Refilled(BucketOf(c)), last_refill |-> now],
         admitted'[c] = admitted[c], now' = now
  PROVE  BucketOK(c)'
<1>1. now \in Nat
  BY DEF TypeOK
<1>2. buckets'[c] # NoBucket
  BY <1>1 DEF NoBucket
<1>3. \A i \in 1 .. Len(admitted[c]) : admitted[c][i] <= now
  BY <1>1, RefillFits
<1>4. WindowsFit(c)'
  BY <1>3, RefillFits DEF WindowsFit
<1>5. SomeWindowFull(c)'
  BY RefillFits DEF SomeWindowFull
<1> QED
  BY <1>1, <1>2, <1>4, <1>5 DEF BucketOK

LEMMA BucketStep == TypeOK /\ TypeOK' /\ BucketInv /\ [Next]_vars => BucketInv'
<1> SUFFICES ASSUME TypeOK, TypeOK', BucketInv, [Next]_vars, NEW c \in Client
             PROVE  BucketOK(c)'
  BY DEF BucketInv
<1>1. CASE /\ buckets'[c] = buckets[c] /\ admitted'[c] = admitted[c]
           /\ now <= now'
  <2>1. BucketOK(c)
    BY DEF BucketInv
  <2>2. CASE buckets[c] = NoBucket
    BY <1>1, <2>1, <2>2 DEF BucketOK
  <2>3. CASE buckets[c] # NoBucket
    <3>1. buckets[c].last_refill <= now'
      <4>1. buckets[c] \in Bucket /\ now \in Int /\ now' \in Int
        BY <2>3 DEF TypeOK
      <4>2. buckets[c].last_refill \in Int
        BY <4>1 DEF Bucket
      <4> QED
        BY <1>1, <2>1, <2>3, <4>1, <4>2 DEF BucketOK
    <3>2. WindowsFit(c)' /\ SomeWindowFull(c)'
      BY <1>1, <2>1, <2>3 DEF BucketOK, WindowsFit, SomeWindowFull
    <3> QED
      BY <1>1, <2>3, <3>1, <3>2 DEF BucketOK
  <2> QED
    BY <2>2, <2>3
<1> QED
  BY <1>1, ClientStep, PassKeeps, TooManyKeeps

\* Whatever the addresses ask for and when, every variable keeps its type and
\* every bucket's tokens are exactly what its fullest window leaves over.
THEOREM BucketExact == Spec => [](TypeOK /\ BucketInv)
<1>1. TypeOK /\ BucketInv /\ [Next]_vars => (TypeOK /\ BucketInv)'
  BY TypeStep, BucketStep
<1> QED
  BY <1>1, TypeInit, BucketInit, PTL DEF Spec

-----------------------------------------------------------------------------
\* The windows that end with the request that goes on now are within bounds: it
\* found a whole token in a bucket that knows them all.
LEMMA NewWindows ==
  ASSUME TypeOK, BucketInv, NEW c \in Client, Pass(c),
         NEW i \in 1 .. Len(admitted[c]) + 1
  PROVE  LET n == Len(admitted[c])
             log == Append(admitted[c], now)
         IN  (n + 1 - i + 1) * Token <= Burst + (log[n + 1] - log[i])
<1> DEFINE n == Len(admitted[c])
           log == Append(admitted[c], now)
           t == Refilled(BucketOf(c))
           worth == (n - i + 1) * Token
<1>1. /\ n \in Nat /\ admitted[c] \in Seq(0 .. MaxTime) /\ now \in Nat
  BY LogTimes DEF TypeOK
<1>2. log[n + 1] = now /\ \A k \in 1 .. n : log[k] = admitted[c][k]
  BY <1>1
<1>3. worth \in Int /\ (n + 1 - i + 1) * Token = worth + Token
  <2>1. n - i + 1 \in Int /\ n + 1 - i + 1 = (n - i + 1) + 1
    BY <1>1
  <2> QED
    BY <2>1, OneMore
<1>4. t >= Token /\ t \in 0 .. Burst
  BY RefillFits DEF Pass
<1>5. CASE i = n + 1
  <2>1. (n + 1 - i + 1) * Token = Token /\ log[i] = now
    BY <1>1, <1>2, <1>5, RateAssumption
  <2> QED
    BY <1>1, <1>2, <2>1, RateAssumption
<1>6. CASE i # n + 1
  <2>1. i \in 1 .. n
    BY <1>1, <1>6
  <2>2. /\ admitted[c][i] \in 0 .. now
        /\ t + worth <= Burst + (now - admitted[c][i])
    BY <2>1, RefillFits
  <2>3. log[i] = admitted[c][i]
    BY <1>2, <2>1
  <2> DEFINE more == (n + 1 - i + 1) * Token
  <2>4. more = worth + Token /\ worth \in Int
    BY <1>3
  <2>5. more <= Burst + (now - admitted[c][i])
    <3>1. now \in Nat
      BY <1>1
    <3> HIDE DEF worth, t, more, n, log
    <3> QED
      BY <1>4, <2>2, <2>4, <3>1, RateAssumption
  <2> QED
    BY <1>2, <2>3, <2>5
<1> QED
  BY <1>5, <1>6

\* One client's windows, as WindowBound has them.
WindowsOf(log) ==
  \A i, j \in 1 .. Len(log) : i <= j => (j - i + 1) * Token <= Burst + (log[j] - log[i])

LEMMA WindowStep ==
  TypeOK /\ BucketInv /\ [Next]_vars /\ WindowBound => WindowBound'
<1> SUFFICES ASSUME TypeOK, BucketInv, [Next]_vars, WindowBound, NEW c \in Client
             PROVE  WindowsOf(admitted'[c])
  BY DEF WindowBound, WindowsOf
<1>1. WindowsOf(admitted[c])
  BY DEF WindowBound, WindowsOf
<1>2. CASE admitted'[c] = admitted[c]
  BY <1>1, <1>2
<1>3. CASE Pass(c) /\ admitted'[c] = Append(admitted[c], now)
  <2> DEFINE n == Len(admitted[c])
             log == Append(admitted[c], now)
  <2>1. /\ n \in Nat /\ admitted[c] \in Seq(0 .. MaxTime) /\ now \in 0 .. MaxTime
    BY LogTimes DEF TypeOK
  <2>2. Len(log) = n + 1 /\ \A k \in 1 .. n : log[k] = admitted[c][k]
    BY <2>1
  <2>3. \A i \in 1 .. n + 1 : (n + 1 - i + 1) * Token <= Burst + (log[n + 1] - log[i])
    BY <1>3, NewWindows
  <2>4. ASSUME NEW i \in 1 .. n + 1, NEW j \in 1 .. n + 1, i <= j
        PROVE  (j - i + 1) * Token <= Burst + (log[j] - log[i])
    <3>1. CASE j = n + 1
      BY <2>3, <3>1
    <3>2. CASE j # n + 1
      <4>1. i \in 1 .. n /\ j \in 1 .. n
        BY <2>1, <2>4, <3>2
      <4> QED
        BY <1>1, <2>2, <2>4, <4>1 DEF WindowsOf
    <3> QED
      BY <3>1, <3>2
  <2> QED
    BY <1>3, <2>2, <2>4 DEF WindowsOf
<1> QED
  BY <1>2, <1>3, ClientStep

\* No address gets more requests through, in any window of time, than the burst
\* and the refill of that window pay for.
THEOREM NeverOverRate == Spec => []WindowBound
<1>1. Init => WindowBound
  BY DEF Init, WindowBound
<1> QED
  BY <1>1, WindowStep, BucketExact, PTL DEF Spec

-----------------------------------------------------------------------------
\* A bucket has a whole token exactly when the contract has room: the token
\* count and the log of the past say the same thing.
LEMMA TokenIsRoom ==
  ASSUME TypeOK, BucketInv, NEW c \in Client
  PROVE  Contract!Room(c) <=> Refilled(BucketOf(c)) >= Token
<1> DEFINE n == Len(admitted[c])
           t == Refilled(BucketOf(c))
           worth(i) == (n - i + 1) * Token
           Fits(i) == (n - i + 2) * Token <= Burst + (now - admitted[c][i])
<1>1. /\ t \in 0 .. Burst
      /\ \A i \in 1 .. n :
           /\ admitted[c][i] \in 0 .. now
           /\ t + worth(i) <= Burst + (now - admitted[c][i])
      /\ t = Burst \/ \E i \in 1 .. n : t + worth(i) = Burst + (now - admitted[c][i])
  BY RefillFits
<1>2. n \in Nat /\ now \in Nat
  BY LogTimes DEF TypeOK
<1>3. ASSUME NEW i \in 1 .. n
      PROVE  worth(i) \in Int /\ (n - i + 2) * Token = worth(i) + Token
  <2>1. n - i + 1 \in Int /\ n - i + 2 = (n - i + 1) + 1
    BY <1>2, <1>3
  <2> QED
    BY <2>1, OneMore
<1>4. Contract!Room(c) <=> \A i \in 1 .. n : Fits(i)
  BY DEF Contract!Room
<1>5. ASSUME NEW i \in 1 .. n
      PROVE  Fits(i) <=> worth(i) + Token <= Burst + (now - admitted[c][i])
  BY <1>3, <1>5
<1> HIDE DEF t, worth, Fits
<1>6. ASSUME t >= Token, NEW i \in 1 .. n
      PROVE  Fits(i)
  <2>1. /\ worth(i) \in Int /\ admitted[c][i] \in 0 .. now
        /\ t + worth(i) <= Burst + (now - admitted[c][i])
    BY <1>1, <1>3, <1>6
  <2>2. worth(i) + Token <= Burst + (now - admitted[c][i])
    BY <1>1, <1>2, <1>6, <2>1, RateAssumption
  <2> QED
    BY <1>5, <2>2
<1>7. ASSUME \A i \in 1 .. n : Fits(i)
      PROVE  t >= Token
  <2>1. CASE t = Burst
    BY <1>1, <2>1, RateAssumption
  <2>2. CASE t # Burst
    <3>1. PICK i \in 1 .. n : t + worth(i) = Burst + (now - admitted[c][i])
      BY <1>1, <2>2
    <3>2. /\ worth(i) \in Int /\ admitted[c][i] \in 0 .. now
          /\ worth(i) + Token <= Burst + (now - admitted[c][i])
      BY <1>1, <1>3, <1>5, <1>7
    <3> QED
      BY <1>1, <1>2, <3>1, <3>2, RateAssumption
  <2> QED
    BY <2>1, <2>2
<1> QED
  BY <1>4, <1>6, <1>7 DEF t

\* The token buckets implement the contract: they let a request through
\* exactly when the sliding windows of its address have room, and refuse it
\* exactly when they have none.
THEOREM BucketsImplement == Spec => ImplementsContract
<1>1. Init => Contract!Init
  BY DEF Init, Contract!Init
<1>2. TypeOK /\ BucketInv /\ [Next]_vars => [Contract!Next]_(Contract!vars)
  <2> SUFFICES ASSUME TypeOK, BucketInv, [Next]_vars
               PROVE  [Contract!Next]_(Contract!vars)
    OBVIOUS
  <2>1. CASE Tick
    BY <2>1 DEF Tick, Contract!Tick, Contract!Next
  <2>2. ASSUME NEW c \in Client, Pass(c)
        PROVE  Contract!Next
    <3>1. Contract!Room(c)
      BY <2>2, TokenIsRoom DEF Pass
    <3>2. Contract!Admit(c)
      BY <2>2, <3>1 DEF Pass, Contract!Admit
    <3> QED
      BY <3>2 DEF Contract!Next
  <2>3. ASSUME NEW c \in Client, TooMany(c)
        PROVE  Contract!Next
    <3>1. ~(Refilled(BucketOf(c)) >= Token)
      BY <2>3, RefillFits, RateAssumption DEF TooMany
    <3>2. Contract!Refuse(c)
      BY <2>3, <3>1, TokenIsRoom DEF TooMany, Contract!Refuse
    <3> QED
      BY <3>2 DEF Contract!Next
  <2>4. CASE UNCHANGED vars
    BY <2>4 DEF vars, Contract!vars
  <2> QED
    BY <2>1, <2>2, <2>3, <2>4 DEF Next
<1> QED
  BY <1>1, <1>2, BucketExact, PTL DEF Spec, ImplementsContract, Contract!Spec
=============================================================================
