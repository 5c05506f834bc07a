-------------------------- MODULE ChatClientProofs --------------------------
(***************************************************************************)
(* Proofs about ChatClient, for any number of chats, messages, chunks,     *)
(* clicks and faults.                                                      *)
(***************************************************************************)
EXTENDS ChatClient, FiniteSetTheorems, WellFoundedInduction, TLAPS

(***************************************************************************)
(* The inductive invariant.                                                *)
(***************************************************************************)
\* A row of a chat, or a message of a thread.
Has(seq, role, s) == \E i \in DOMAIN seq : seq[i].role = role /\ seq[i].send = s

\* What the reader of a stream has got, handed on and kept.
StreamInv(p) ==
  /\ p.read <= 3 * Len(p.sent)
  /\ p.handed = SubSeq(p.sent, 1, p.read \div 3)
  /\ p.buffer = SubSeq(Bytes(p.sent), 3 * (p.read \div 3) + 1, p.read)

\* A reply is at most MaxChunks chunks and one terminal event, which is the last.
SentInv(p) ==
  \A i \in DOMAIN p.sent :
    IF p.sent[i] = "chunk" THEN i <= MaxChunks ELSE i = Len(p.sent) /\ p.server = "done"

PostInv(s) ==
  LET p == post[s] IN
  /\ p.server = "idle" => p = Unsent
  /\ p.server # "idle" => p.chat \in Chat /\ \A r \in 1..(s - 1) : post[r].server # "idle"
  /\ p.server = "asked" => p.sent = <<>> /\ p.net \in {"none", "gone", "over"}
  /\ p.net = "open" => p.server = "working"
  /\ p.net = "closed" => p.server = "done"
  /\ StreamInv(p) /\ SentInv(p)
  /\ (\E i \in DOMAIN p.sent : p.sent[i] # "chunk") => Has(rows[p.chat], "assistant", s)

\* A row is of a message that was accepted for its chat.
RowsInv ==
  \A c \in Chat :
    /\ newest[c] <= Len(rows[c])
    /\ \A i \in DOMAIN rows[c] :
         post[rows[c][i].send].chat = c /\ post[rows[c][i].send].server \in {"working", "done"}

\* The message that is being answered has grown with the chunks handed on, and
\* runs until the terminal event.
ReplyInv(m, handed) ==
  (\A k \in DOMAIN handed : handed[k] = "chunk") =>
    m.text <= Len(handed) /\ m.status = "running"

SendingInv(s) ==
  /\ post[s].server # "idle" /\ post[s].chat = thread.chat
  /\ thread.checkpoint <= s
  /\ Has(thread.messages, "user", s) /\ Has(thread.messages, "assistant", s)
  /\ \A i \in DOMAIN thread.messages :
       Replying(thread.messages[i], s) => ReplyInv(thread.messages[i], post[s].handed)

ThreadInv ==
  /\ thread.chat = 0 => thread = NoThread
  /\ \A i \in DOMAIN thread.messages : post[thread.messages[i].send].server # "idle"
  /\ thread.sending # 0 => SendingInv(thread.sending)
  /\ thread.checkpoint # 0 => post[thread.checkpoint].server # "idle"

SessionInv ==
  session # "in" =>
    /\ thread = NoThread /\ active = NoChat
    /\ \A t \in tasks : t.for = "gone"
    /\ \A s \in Send : post[s].server # "idle" => post[s].net = "over"

TaskInv(t) ==
  LET answered == t.state = "answered" IN
  /\ t.for = "gone" => t.op = "create"
  /\ t.for = "reply" => t.op = "open"
  /\ t.op = "create" /\ answered => t.n \in Chat
  /\ t.op = "list" => (answered => t.n \in 0..MaxChats) /\ (t.for = "new" => t.chat \in Chat)
  /\ t.op = "confirm" => t.chat \in Chat /\ t.send \in Send
  /\ t.op = "open" => t.chat \in Chat /\ (answered => t.n <= Len(rows[t.chat]))
  /\ t.for = "reply" =>
       /\ t.send \in Send /\ post[t.send].server = "done" /\ post[t.send].chat = t.chat
       /\ answered => \A j \in DOMAIN rows[t.chat] : rows[t.chat][j].send = t.send => j <= t.n

\* The rows of a chat behind some place are of messages whose reply is awaited by
\* the thread on display, or that nobody looked at.
Awaited(c, from) ==
  \A j \in DOMAIN rows[c] :
    j > from => rows[c][j].send \in unseen \/ rows[c][j].send = thread.sending

\* What the workspace has not read of the rows.
ReadInv ==
  session = "in" =>
    /\ \A s \in Send :
         post[s].server \in {"asked", "working"} => s \in unseen \/ s = thread.sending
    /\ active.chat # 0 => active.upTo <= Len(rows[active.chat]) /\ Awaited(active.chat, active.upTo)
    /\ \A t \in tasks :
         t.op = "open" /\ t.state = "answered" =>
           \A j \in DOMAIN rows[t.chat] :
             j > t.n /\ j > newest[t.chat] =>
               rows[t.chat][j].send \in unseen \/ rows[t.chat][j].send = thread.sending

IInv ==
  /\ TypeOK
  /\ \A s \in Send : PostInv(s)
  /\ RowsInv
  /\ ThreadInv
  /\ CompleteIsStored
  /\ SessionInv
  /\ \A t \in tasks : TaskInv(t)
  /\ ReadInv
  /\ RowsShown

-----------------------------------------------------------------------------
(***************************************************************************)
(* The reader: wherever a read ends, the whole blocks are the events.      *)
(***************************************************************************)
LEMMA ByThree ==
  ASSUME NEW r \in Nat
  PROVE  /\ r \div 3 \in Nat /\ r % 3 \in 0..2
         /\ r = 3 * (r \div 3) + (r % 3)
         /\ 3 * (r \div 3) <= r /\ r < 3 * (r \div 3) + 3
  OBVIOUS

\* Of 3 * n places every third is one.
Firsts(n) == {i \in 1..(3 * n) : i % 3 = 1}

LEMMA FirstsAre ==
  ASSUME NEW n \in Nat
  PROVE  /\ IsFiniteSet(Firsts(n)) /\ Cardinality(Firsts(n)) = n
         /\ \A k \in 1..n : 3 * k - 2 \in Firsts(n)
         /\ \A i \in Firsts(n) : \E k \in 1..n : i = 3 * k - 2
<1> DEFINE f == [k \in 1..n |-> 3 * k - 2]
<1>1. \A k \in 1..n : 3 * k - 2 \in 1..(3 * n) /\ (3 * k - 2) % 3 = 1
  OBVIOUS
<1>2. ASSUME NEW i \in Firsts(n)  PROVE \E k \in 1..n : i = 3 * k - 2
  <2>1. i \in Nat /\ i % 3 = 1 /\ i >= 1 /\ i <= 3 * n
    BY DEF Firsts
  <2>2. i = 3 * (i \div 3) + 1 /\ i \div 3 \in Nat
    BY <2>1
  <2>3. (i \div 3) + 1 \in 1..n /\ i = 3 * ((i \div 3) + 1) - 2
    BY <2>1, <2>2
  <2> QED  BY <2>3
<1>3. f \in [1..n -> Firsts(n)]
  BY <1>1 DEF Firsts
<1>4. f \in Injection(1..n, Firsts(n))
  BY <1>3 DEF Injection, IsInjective
<1>5. f \in Surjection(1..n, Firsts(n))
  BY <1>2, <1>3 DEF Surjection
<1>6. ExistsBijection(1..n, Firsts(n))
  BY <1>4, <1>5 DEF ExistsBijection, Bijection
<1>7. Cardinality(Firsts(n)) = n
  BY <1>6, FS_CountingElements
<1>8. IsFiniteSet(Firsts(n))
  <2>1. IsFiniteSet(1..(3 * n))
    <3>1. 1 \in Int /\ 3 * n \in Int
      OBVIOUS
    <3> QED  BY <3>1, FS_Interval
  <2>2. Firsts(n) \subseteq 1..(3 * n)
    BY DEF Firsts
  <2> QED  BY <2>1, <2>2, FS_Subset
<1> QED  BY <1>1, <1>2, <1>7, <1>8 DEF Firsts

\* So the k-th of them is 3 * k - 2.
LEMMA PickedFirsts ==
  ASSUME NEW n \in Nat
  PROVE  \A seq : Picked(seq, Firsts(n)) = [k \in 1..n |-> seq[3 * k - 2]]
<1> DEFINE Place(k) == CHOOSE i \in Firsts(n) : Cardinality({j \in Firsts(n) : j <= i}) = k
<1>1. ASSUME NEW k \in 1..n  PROVE Place(k) = 3 * k - 2
  <2>1. ASSUME NEW m \in 1..n  PROVE Cardinality({j \in Firsts(n) : j <= 3 * m - 2}) = m
    <3>1. {j \in Firsts(n) : j <= 3 * m - 2} = Firsts(m)
      BY DEF Firsts
    <3> QED  BY <3>1, FirstsAre
  <2>2. 3 * k - 2 \in Firsts(n)
    BY FirstsAre
  <2>3. ASSUME NEW i \in Firsts(n), Cardinality({j \in Firsts(n) : j <= i}) = k
        PROVE  i = 3 * k - 2
    <3>1. PICK m \in 1..n : i = 3 * m - 2
      BY FirstsAre
    <3> QED  BY <2>1, <2>3, <3>1
  <2> QED  BY <2>1, <2>2, <2>3
<1>2. Cardinality(Firsts(n)) = n
  BY FirstsAre
<1>3. ASSUME NEW seq  PROVE Picked(seq, Firsts(n)) = [k \in 1..n |-> seq[3 * k - 2]]
  <2>1. Picked(seq, Firsts(n)) = [k \in 1..n |-> seq[Place(k)]]
    BY <1>2 DEF Picked
  <2> HIDE DEF Place
  <2> QED  BY <1>1, <2>1
<1> QED  BY <1>3

LEMMA BytesAre ==
  ASSUME NEW sent \in Seq(Event)
  PROVE  /\ Bytes(sent) \in Seq(Event \cup {Newline})
         /\ Len(Bytes(sent)) = 3 * Len(sent)
         /\ \A i \in 1..(3 * Len(sent)) :
              Bytes(sent)[i] = IF i % 3 = 1 THEN sent[(i \div 3) + 1] ELSE Newline
<1> DEFINE n == Len(sent)
<1>1. n \in Nat
  OBVIOUS
<1>2. ASSUME NEW i \in 1..(3 * n)
      PROVE  (IF i % 3 = 1 THEN sent[(i \div 3) + 1] ELSE Newline) \in Event \cup {Newline}
  <2>1. CASE i % 3 = 1
    <3>1. (i \div 3) + 1 \in 1..n
      BY <1>1, <2>1
    <3> QED  BY <2>1, <3>1
  <2> QED  BY <2>1
<1>3. 3 * n \in Nat
  BY <1>1
<1> QED  BY <1>2, <1>3 DEF Bytes

LEMMA Stretch ==
  ASSUME NEW S, NEW seq \in Seq(S), NEW a \in Nat, NEW c \in Nat, a <= c, c <= Len(seq)
  PROVE  /\ SubSeq(seq, a + 1, c) \in Seq(S)
         /\ Len(SubSeq(seq, a + 1, c)) = c - a
         /\ \A i \in 1..(c - a) : SubSeq(seq, a + 1, c)[i] = seq[a + i]
  OBVIOUS

LEMMA StretchesJoin ==
  ASSUME NEW S, NEW seq \in Seq(S)
  PROVE  \A a, b, c \in Nat : a <= b /\ b <= c /\ c <= Len(seq) =>
           SubSeq(seq, a + 1, b) \o SubSeq(seq, b + 1, c) = SubSeq(seq, a + 1, c)
<1>1. ASSUME NEW a \in Nat, NEW b \in Nat, NEW c \in Nat, a <= b, b <= c, c <= Len(seq)
      PROVE  SubSeq(seq, a + 1, b) \o SubSeq(seq, b + 1, c) = SubSeq(seq, a + 1, c)
  BY <1>1
<1> QED  BY <1>1

\* Division by three, of the bytes that are read by the length of an event.
LEMMA Thirds ==
  /\ \A a \in Nat : a \div 3 \in Nat /\ 3 * (a \div 3) \in Nat /\ 3 * (a \div 3) <= a
  /\ \A a, n \in Nat : a <= 3 * n => a \div 3 <= n
  /\ \A a, c \in Nat : a <= c => a \div 3 <= c \div 3
  /\ \A n \in Nat : 3 * n \in Nat /\ (3 * n) \div 3 = n
OBVIOUS

LEMMA StretchOfStretch ==
  ASSUME NEW S, NEW seq \in Seq(S)
  PROVE  \A a, b, c \in Nat : a <= b /\ b <= c /\ c <= Len(seq) =>
           SubSeq(SubSeq(seq, a + 1, c), (b - a) + 1, c - a) = SubSeq(seq, b + 1, c)
<1>1. ASSUME NEW a \in Nat, NEW b \in Nat, NEW c \in Nat, a <= b, b <= c, c <= Len(seq)
      PROVE  SubSeq(SubSeq(seq, a + 1, c), (b - a) + 1, c - a) = SubSeq(seq, b + 1, c)
  BY <1>1
<1> QED  BY <1>1

\* What is in the reader's hands after a read: the stream from the start of the
\* event it is in.
LEMMA BufferIs ==
  ASSUME NEW sent \in Seq(Event), NEW h \in Nat, NEW q \in Nat, 3 * h <= q, q <= 3 * Len(sent)
  PROVE  LET b == SubSeq(Bytes(sent), 3 * h + 1, q) IN
         /\ b \in Seq(Event \cup {Newline})
         /\ Len(b) = q - 3 * h
         /\ \A i \in 1..(q - 3 * h) :
              /\ b[i] = IF i % 3 = 1 THEN sent[h + (i \div 3) + 1] ELSE Newline
              /\ b[i] = Newline <=> i % 3 # 1
<1> DEFINE b == SubSeq(Bytes(sent), 3 * h + 1, q)
<1>1. /\ Bytes(sent) \in Seq(Event \cup {Newline}) /\ Len(Bytes(sent)) = 3 * Len(sent)
      /\ \A i \in 1..(3 * Len(sent)) :
           Bytes(sent)[i] = IF i % 3 = 1 THEN sent[(i \div 3) + 1] ELSE Newline
  BY BytesAre
<1>2. Len(sent) \in Nat /\ 3 * h \in Nat
  OBVIOUS
<1>3. b \in Seq(Event \cup {Newline}) /\ Len(b) = q - 3 * h
      /\ \A i \in 1..(q - 3 * h) : b[i] = Bytes(sent)[3 * h + i]
  <2>1. q <= Len(Bytes(sent))
    BY <1>1
  <2> QED  BY <1>1, <1>2, <2>1, Stretch
<1> HIDE DEF b
<1>4. ASSUME NEW i \in 1..(q - 3 * h)
      PROVE  /\ b[i] = IF i % 3 = 1 THEN sent[h + (i \div 3) + 1] ELSE Newline
             /\ b[i] = Newline <=> i % 3 # 1
  <2>1. 3 * h + i \in 1..(3 * Len(sent))
    BY <1>2
  <2>2. (3 * h + i) % 3 = i % 3 /\ (3 * h + i) \div 3 = h + (i \div 3)
    OBVIOUS
  <2>3. b[i] = IF i % 3 = 1 THEN sent[h + (i \div 3) + 1] ELSE Newline
    BY <1>1, <1>3, <2>1, <2>2
  <2>4. i % 3 = 1 => h + (i \div 3) + 1 \in 1..Len(sent)
    BY <1>2
  <2>5. \A e \in Event : e # Newline
    BY DEF Event, Terminal, Newline
  <2> QED  BY <2>3, <2>4, <2>5
<1> QED  BY <1>3, <1>4 DEF b

LEMMA SecondNewline ==
  ASSUME NEW i \in Nat, i >= 2
  PROVE  ((i - 1) % 3 # 1 /\ i % 3 # 1) <=> i % 3 = 0
  OBVIOUS

LEMMA ParsedIs ==
  ASSUME NEW sent \in Seq(Event), NEW h \in Nat, NEW q \in Nat, 3 * h <= q, q <= 3 * Len(sent)
  PROVE  LET b == SubSeq(Bytes(sent), 3 * h + 1, q) IN
         /\ Parsed(b).events = SubSeq(sent, h + 1, q \div 3)
         /\ Parsed(b).buffer = SubSeq(Bytes(sent), 3 * (q \div 3) + 1, q)
<1> DEFINE b == SubSeq(Bytes(sent), 3 * h + 1, q)
           m == q - 3 * h
           n == m \div 3
<1>1. /\ b \in Seq(Event \cup {Newline}) /\ Len(b) = m
      /\ \A i \in 1..m : /\ b[i] = IF i % 3 = 1 THEN sent[h + (i \div 3) + 1] ELSE Newline
                         /\ b[i] = Newline <=> i % 3 # 1
  BY BufferIs
<1>2. m \in Nat /\ n \in Nat /\ 3 * n <= m /\ m < 3 * n + 3 /\ q \div 3 = h + n /\ Len(sent) \in Nat
      /\ q = 3 * h + m /\ h + n <= Len(sent) /\ 3 * n \in Nat /\ h + n \in Nat
      /\ \A i \in 1..m : i % 3 = 0 => i <= 3 * n /\ i >= 2
  OBVIOUS
<1>a. Remainder(b) = SubSeq(Bytes(sent), 3 * (h + n) + 1, q) /\ Len(Remainder(b)) = m - 3 * n
      /\ (CHOOSE i \in BlockEnds(b) \cup {0} : \A j \in BlockEnds(b) : j <= i) = 3 * n
  <2> HIDE DEF b, m, n
  <2>0. BlockEnds(b) = {i \in 1..m : i % 3 = 0}
    <3>1. ASSUME NEW i \in 2..m  PROVE (b[i - 1] = Newline /\ b[i] = Newline) <=> i % 3 = 0
      <4>1. i \in 1..m /\ i - 1 \in 1..m /\ i \in Nat /\ i >= 2
        BY <1>2
      <4>2. (b[i] = Newline <=> i % 3 # 1) /\ (b[i - 1] = Newline <=> (i - 1) % 3 # 1)
        BY <1>1, <4>1
      <4>3. ((i - 1) % 3 # 1 /\ i % 3 # 1) <=> i % 3 = 0
        BY <4>1, SecondNewline
      <4> QED  BY <4>2, <4>3
    <3>2. ASSUME NEW i \in 1..m, i % 3 = 0  PROVE i \in 2..m
      BY <1>2, <3>2
    <3>3. BlockEnds(b) = {i \in 2..m : b[i - 1] = Newline /\ b[i] = Newline}
      BY <1>1 DEF BlockEnds
    <3>4. 2..m \subseteq 1..m
      BY <1>2
    <3> QED  BY <3>1, <3>2, <3>3, <3>4
  <2>1. \A j \in BlockEnds(b) : j \in Nat /\ j <= 3 * n
    BY <1>2, <2>0
  <2>2. 3 * n \in BlockEnds(b) \cup {0}
    <3>1. (3 * n) % 3 = 0
      BY <1>2
    <3> QED  BY <1>2, <2>0, <3>1
  <2>3. ASSUME NEW i \in BlockEnds(b) \cup {0}, \A j \in BlockEnds(b) : j <= i  PROVE i = 3 * n
    <3>1. i \in Nat /\ i <= 3 * n
      BY <1>2, <2>1
    <3>2. 3 * n <= i
      BY <1>2, <2>2, <2>3, <3>1
    <3> QED  BY <1>2, <3>1, <3>2
  <2>4. (CHOOSE i \in BlockEnds(b) \cup {0} : \A j \in BlockEnds(b) : j <= i) = 3 * n
    BY <2>1, <2>2, <2>3
  <2>5. Remainder(b) = SubSeq(b, 3 * n + 1, m)
    BY <1>1, <2>4 DEF Remainder
  <2>6. Len(SubSeq(b, 3 * n + 1, m)) = m - 3 * n
    BY <1>1, <1>2, Stretch
  <2>7. SubSeq(b, 3 * n + 1, m) = SubSeq(Bytes(sent), 3 * (h + n) + 1, q)
    <3>1. Bytes(sent) \in Seq(Event \cup {Newline}) /\ Len(Bytes(sent)) = 3 * Len(sent)
      BY BytesAre
    <3>2. 3 * h \in Nat /\ 3 * (h + n) \in Nat /\ 3 * h <= 3 * (h + n) /\ 3 * (h + n) <= q
          /\ 3 * (h + n) - 3 * h = 3 * n /\ q - 3 * h = m
      BY <1>2
    <3>3. SubSeq(SubSeq(Bytes(sent), 3 * h + 1, q), (3 * (h + n) - 3 * h) + 1, q - 3 * h)
          = SubSeq(Bytes(sent), 3 * (h + n) + 1, q)
      <4>1. 3 * h \in Nat /\ 3 * (h + n) \in Nat /\ q \in Nat /\ 3 * h <= 3 * (h + n)
            /\ 3 * (h + n) <= q /\ q <= Len(Bytes(sent))
        BY <3>1, <3>2
      <4>2. \A x, y, z \in Nat : x <= y /\ y <= z /\ z <= Len(Bytes(sent)) =>
              SubSeq(SubSeq(Bytes(sent), x + 1, z), (y - x) + 1, z - x) = SubSeq(Bytes(sent), y + 1, z)
        BY <3>1, StretchOfStretch
      <4> QED  BY <4>1, <4>2, Zenon
    <3> QED  BY <3>2, <3>3 DEF b
  <2> QED  BY <2>4, <2>5, <2>6, <2>7
<1> HIDE DEF b, m, n
<1>7. {i \in 1..(Len(b) - Len(Remainder(b))) : b[i] # Newline} = Firsts(n)
  <2>1. Len(b) - Len(Remainder(b)) = 3 * n
    <3>1. Len(b) = m /\ Len(Remainder(b)) = m - 3 * n
      BY <1>1, <1>a
    <3> QED  BY <1>2, <3>1
  <2>2. \A i \in 1..(3 * n) : i \in 1..m
    BY <1>2
  <2> QED  BY <1>1, <2>1, <2>2 DEF Firsts
<1>8. Lines(b) = [k \in 1..n |-> b[3 * k - 2]]
  <2>1. Picked(b, Firsts(n)) = [k \in 1..n |-> b[3 * k - 2]]
    BY <1>2, PickedFirsts
  <2> QED  BY <1>7, <2>1 DEF Lines
<1>9. ASSUME NEW k \in 1..n  PROVE b[3 * k - 2] = sent[h + k]
  <2>1. 3 * k - 2 \in 1..m /\ (3 * k - 2) % 3 = 1 /\ (3 * k - 2) \div 3 = k - 1
    BY <1>2
  <2>2. h + (k - 1) + 1 = h + k
    BY <1>2
  <2> QED  BY <1>1, <2>1, <2>2
<1>10. Lines(b) = SubSeq(sent, h + 1, h + n)
  <2>1. SubSeq(sent, h + 1, h + n) = [k \in 1..n |-> sent[h + k]]
    BY <1>2
  <2>2. Lines(b) = [k \in 1..n |-> sent[h + k]]
    BY <1>8, <1>9, SMTT(20)
  <2> QED  BY <2>1, <2>2
<1>11. Parsed(b).events = SubSeq(sent, h + 1, q \div 3)
  BY <1>2, <1>10 DEF Parsed
<1>12. Parsed(b).buffer = SubSeq(Bytes(sent), 3 * (q \div 3) + 1, q)
  <2>1. q \div 3 = h + n
    BY <1>2
  <2>2. Parsed(b).buffer = Remainder(b)
    BY Zenon DEF Parsed
  <2> HIDE DEF b, m, n
  <2> QED  BY <1>a, <2>1, <2>2, Zenon
<1> QED  BY <1>11, <1>12 DEF b

\* One read: what is handed on and what is kept.
LEMMA ReadIs ==
  ASSUME NEW p, p.sent \in Seq(Event), p.read \in Nat, StreamInv(p),
         NEW n \in Nat, p.read + n <= 3 * Len(p.sent)
  PROVE  LET parsed == Parsed(p.buffer \o SubSeq(Bytes(p.sent), p.read + 1, p.read + n)) IN
         /\ parsed.events = SubSeq(p.sent, (p.read \div 3) + 1, (p.read + n) \div 3)
         /\ parsed.buffer = SubSeq(Bytes(p.sent), 3 * ((p.read + n) \div 3) + 1, p.read + n)
         /\ p.handed \o parsed.events = SubSeq(p.sent, 1, (p.read + n) \div 3)
<1> DEFINE sent == p.sent
           h == p.read \div 3
           q == p.read + n
           B == Bytes(p.sent)
<1>a. q \in Nat /\ p.read <= q /\ q <= 3 * Len(sent) /\ Len(sent) \in Nat
  OBVIOUS
<1>b. h \in Nat /\ 3 * h \in Nat /\ 3 * h <= p.read /\ q \div 3 \in Nat
  BY <1>a, Thirds
<1>c. h <= q \div 3 /\ q \div 3 <= Len(sent)
  BY <1>a, Thirds
<1>1. h \in Nat /\ 3 * h <= p.read /\ q \in Nat /\ p.read <= q /\ q <= 3 * Len(sent) /\ Len(sent) \in Nat
      /\ h <= q \div 3 /\ q \div 3 <= Len(sent) /\ q \div 3 \in Nat /\ 3 * h \in Nat /\ 3 * h <= q
  BY <1>a, <1>b, <1>c
<1>2. B \in Seq(Event \cup {Newline}) /\ Len(B) = 3 * Len(sent)
  BY BytesAre
<1>3. p.buffer = SubSeq(B, 3 * h + 1, p.read) /\ p.handed = SubSeq(sent, 1, h)
  BY DEF StreamInv
<1>0. sent \in Seq(Event)
  OBVIOUS
<1> HIDE DEF h, q, B, sent
<1>4. p.buffer \o SubSeq(B, p.read + 1, q) = SubSeq(B, 3 * h + 1, q)
  <2>1. q <= Len(B)
    BY <1>1, <1>2
  <2>2. SubSeq(B, 3 * h + 1, p.read) \o SubSeq(B, p.read + 1, q) = SubSeq(B, 3 * h + 1, q)
    <3>1. \A x, y, z \in Nat : x <= y /\ y <= z /\ z <= Len(B) =>
            SubSeq(B, x + 1, y) \o SubSeq(B, y + 1, z) = SubSeq(B, x + 1, z)
      BY <1>2, StretchesJoin
    <3> QED  BY <1>1, <2>1, <3>1, Zenon
  <2> QED  BY <1>3, <2>2
<1>5. LET b == SubSeq(Bytes(sent), 3 * h + 1, q) IN
      /\ Parsed(b).events = SubSeq(sent, h + 1, q \div 3)
      /\ Parsed(b).buffer = SubSeq(Bytes(sent), 3 * (q \div 3) + 1, q)
  BY <1>0, <1>1, ParsedIs
<1>6. SubSeq(sent, 1, h) \o SubSeq(sent, h + 1, q \div 3) = SubSeq(sent, 1, q \div 3)
  <2>1. 0 \in Nat /\ 0 <= h /\ 0 + 1 = 1
    BY <1>1
  <2>2. \A x, y, z \in Nat : x <= y /\ y <= z /\ z <= Len(sent) =>
          SubSeq(sent, x + 1, y) \o SubSeq(sent, y + 1, z) = SubSeq(sent, x + 1, z)
    BY <1>0, StretchesJoin
  <2>3. SubSeq(sent, 0 + 1, h) \o SubSeq(sent, h + 1, q \div 3) = SubSeq(sent, 0 + 1, q \div 3)
    BY <1>1, <2>1, <2>2, Zenon
  <2> QED  BY <2>1, <2>3
<1>7. B = Bytes(sent)
  BY DEF B, sent
<1> QED  BY <1>3, <1>4, <1>5, <1>6, <1>7 DEF h, q, B, sent


-----------------------------------------------------------------------------
(***************************************************************************)
(* Types.                                                                  *)
(***************************************************************************)
PostType == [chat : 0..MaxChats,
             server : {"idle", "asked", "working", "done"},
             net : {"none", "open", "closed", "cut", "gone", "over"},
             sent : Seq(Event), content : NoContent..Full, read : Nat,
             buffer : Seq(Event \cup {Newline}), handed : Seq(Event)]

ThreadType == [chat : 0..MaxChats, messages : Seq(Message),
               sending : 0..MaxSends, checkpoint : 0..MaxSends,
               confirming : 0..MaxSends]

LEMMA Typed ==
  ASSUME TypeOK
  PROVE  /\ post \in [Send -> PostType] /\ \A s \in Send : post[s] \in PostType
         /\ rows \in [Chat -> Seq(Row)] /\ \A c \in Chat : rows[c] \in Seq(Row)
         /\ thread \in ThreadType /\ tasks \subseteq Task
         /\ active.chat \in 0..MaxChats /\ active.upTo \in Nat
  BY DEF TypeOK, PostType, ThreadType

LEMMA Bounds ==
  /\ MaxChats \in Nat /\ MaxSends \in Nat /\ MaxChunks \in Nat /\ MaxUses \in Nat /\ MaxFaults \in Nat
  /\ InitialChats \in 0..MaxChats
  /\ Chat = 1..MaxChats /\ Send = 1..MaxSends /\ 0 \notin Chat /\ 0 \notin Send
  BY ClientAssumption DEF Chat, Send

LEMMA ContentsAre ==
  /\ NoContent \in NoContent..Full
  /\ \A s \in Send : Contents[s] \subseteq NoContent..Full
  BY ClientAssumption DEF Send, NoContent, Full

LEMMA Counted ==
  ASSUME TypeOK
  PROVE  /\ faults \in 0..MaxFaults /\ uses \in 0..MaxUses
         /\ faults < MaxFaults /\ faults' = faults + 1 => faults' \in 0..MaxFaults
         /\ uses < MaxUses /\ uses' = uses + 1 => uses' \in 0..MaxUses
<1>1. faults \in 0..MaxFaults /\ uses \in 0..MaxUses
  BY DEF TypeOK
<1> QED  BY <1>1, Bounds

LEMMA SeqOf ==
  ASSUME NEW S, NEW n \in Nat, NEW f, f = [i \in DOMAIN f |-> f[i]], DOMAIN f = 1..n, \A i \in 1..n : f[i] \in S
  PROVE  f \in Seq(S) /\ Len(f) = n
  OBVIOUS

LEMMA RowsOf ==
  ASSUME NEW seq \in Seq(Row)
  PROVE  /\ Len(seq) \in Nat /\ DOMAIN seq = 1..Len(seq)
         /\ \A i \in DOMAIN seq :
              seq[i] \in Row /\ seq[i].send \in Send /\ seq[i].role \in {"user", "assistant"}
<1>1. Len(seq) \in Nat /\ DOMAIN seq = 1..Len(seq) /\ \A i \in DOMAIN seq : seq[i] \in Row
  OBVIOUS
<1>2. \A m \in Row : m.send \in Send /\ m.role \in {"user", "assistant"}
  BY DEF Row
<1> QED  BY <1>1, <1>2

LEMMA MessagesOf ==
  ASSUME NEW seq \in Seq(Message)
  PROVE  /\ Len(seq) \in Nat /\ DOMAIN seq = 1..Len(seq)
         /\ \A i \in DOMAIN seq :
              seq[i] \in Message /\ seq[i].send \in Send /\ seq[i].role \in {"user", "assistant"}
<1>1. Len(seq) \in Nat /\ DOMAIN seq = 1..Len(seq) /\ \A i \in DOMAIN seq : seq[i] \in Message
  OBVIOUS
<1>2. \A m \in Message : m.send \in Send /\ m.role \in {"user", "assistant"}
  BY DEF Message
<1> QED  BY <1>1, <1>2

LEMMA TypedRows ==
  ASSUME rows \in [Chat -> Seq(Row)], NEW c \in Chat
  PROVE  /\ rows[c] \in Seq(Row) /\ Len(rows[c]) \in Nat /\ DOMAIN rows[c] = 1..Len(rows[c])
         /\ \A i \in DOMAIN rows[c] :
              rows[c][i] \in Row /\ rows[c][i].send \in Send /\ rows[c][i].role \in {"user", "assistant"}
<1>1. rows[c] \in Seq(Row)
  OBVIOUS
<1> QED  BY <1>1, RowsOf

LEMMA TypedRowsNext ==
  ASSUME TypeOK', NEW c \in Chat
  PROVE  /\ rows'[c] \in Seq(Row) /\ Len(rows'[c]) \in Nat /\ DOMAIN rows'[c] = 1..Len(rows'[c])
         /\ \A i \in DOMAIN rows'[c] :
              rows'[c][i] \in Row /\ rows'[c][i].send \in Send /\ rows'[c][i].role \in {"user", "assistant"}
<1>1. rows'[c] \in Seq(Row)
  <2>1. rows' \in [Chat -> Seq(Row)]
    BY DEF TypeOK
  <2> QED  BY <2>1
<1> QED  BY <1>1, RowsOf

LEMMA TypedMessages ==
  ASSUME TypeOK
  PROVE  /\ Len(thread.messages) \in Nat /\ DOMAIN thread.messages = 1..Len(thread.messages)
         /\ \A i \in DOMAIN thread.messages :
              /\ thread.messages[i] \in Message /\ thread.messages[i].send \in Send
              /\ thread.messages[i].role \in {"user", "assistant"}
<1>1. thread.messages \in Seq(Message)
  BY Typed DEF ThreadType
<1> QED  BY <1>1, MessagesOf

\* One post changes.
LEMMA PostChanges ==
  ASSUME post \in [Send -> PostType], NEW s \in Send, NEW p \in PostType,
         post' = [post EXCEPT ![s] = p]
  PROVE  /\ post' \in [Send -> PostType]
         /\ post'[s] = p
         /\ \A r \in Send : r # s => post'[r] = post[r]
  OBVIOUS

\* A row is put behind the others of its chat.
LEMMA RowPut ==
  ASSUME rows \in [Chat -> Seq(Row)], NEW c \in Chat, NEW s \in Send,
         NEW role \in {"user", "assistant"}, NEW status \in {"submitted", "interrupted"} \cup Terminal,
         Put(c, s, role, status)
  PROVE  /\ rows' \in [Chat -> Seq(Row)]
         /\ \A d \in Chat : d # c => rows'[d] = rows[d]
         /\ Len(rows'[c]) = Len(rows[c]) + 1
         /\ \A i \in DOMAIN rows[c] : rows'[c][i] = rows[c][i]
         /\ rows'[c][Len(rows[c]) + 1].role = role /\ rows'[c][Len(rows[c]) + 1].send = s
<1> DEFINE row == [role |-> role, send |-> s, status |-> status]
<1>1. row \in Row /\ row.role = role /\ row.send = s
  BY DEF Row
<1>2. rows' = [rows EXCEPT ![c] = Append(rows[c], row)]
  BY DEF Put
<1> HIDE DEF row
<1> QED  BY <1>1, <1>2

-----------------------------------------------------------------------------
(***************************************************************************)
(* Steps of the server: posts get on and rows are added.                   *)
(***************************************************************************)
PostAdvances(s) ==
  /\ post'[s].chat = post[s].chat /\ post'[s].handed = post[s].handed
  /\ post'[s].server = "idle" <=> post[s].server = "idle"
  /\ post[s].server \in {"working", "done"} => post'[s].server \in {"working", "done"}
  /\ post[s].server = "done" => post'[s].server = "done"
  /\ post[s].net = "over" => post'[s].net = "over"

RowsAdvance(c) ==
  /\ \A i \in DOMAIN rows[c] : i \in DOMAIN rows'[c] /\ rows'[c][i] = rows[c][i]
  /\ \A i \in DOMAIN rows'[c] : i \in DOMAIN rows[c] \/
        LET s == rows'[c][i].send IN
        post[s].server \in {"asked", "working"} /\ post[s].chat = c /\ post'[s].server \in {"working", "done"}

Advance ==
  /\ \A s \in Send : PostAdvances(s)
  /\ \A c \in Chat : RowsAdvance(c)
  /\ UNCHANGED <<session, workspace, thread, tasks, history>>

LEMMA AdvanceRows ==
  ASSUME IInv, TypeOK', Advance
  PROVE  RowsInv'
<1> USE Typed
<1>1. ASSUME NEW c \in Chat, NEW i \in DOMAIN rows'[c]
      PROVE  post'[rows'[c][i].send].chat = c /\ post'[rows'[c][i].send].server \in {"working", "done"}
  <2> DEFINE s == rows'[c][i].send
  <2>1. s \in Send
    BY TypedRowsNext
  <2>2. RowsAdvance(c) /\ PostAdvances(s)
    BY <2>1 DEF Advance
  <2>3. CASE i \in DOMAIN rows[c]
    <3>1. rows'[c][i] = rows[c][i]
      BY <2>2, <2>3 DEF RowsAdvance
    <3>2. post[s].chat = c /\ post[s].server \in {"working", "done"}
      BY <2>3, <3>1 DEF IInv, RowsInv
    <3> QED  BY <2>2, <3>2 DEF PostAdvances
  <2>4. CASE i \notin DOMAIN rows[c]
    BY <1>1, <2>2, <2>4 DEF RowsAdvance, PostAdvances
  <2> QED  BY <2>3, <2>4
<1>2. ASSUME NEW c \in Chat  PROVE newest'[c] <= Len(rows'[c])
  <2>1. newest' = newest /\ newest[c] <= Len(rows[c]) /\ newest[c] \in Nat
    BY DEF Advance, history, IInv, RowsInv, TypeOK
  <2>2. \A i \in DOMAIN rows[c] : i \in DOMAIN rows'[c]
    BY DEF Advance, RowsAdvance
  <2>3. /\ Len(rows[c]) \in Nat /\ DOMAIN rows[c] = 1..Len(rows[c])
        /\ Len(rows'[c]) \in Nat /\ DOMAIN rows'[c] = 1..Len(rows'[c])
    <3>1. TypeOK
      BY DEF IInv
    <3> QED  BY <3>1, TypedRows, TypedRowsNext, Typed
  <2>4. Len(rows[c]) <= Len(rows'[c])
    BY <2>2, <2>3
  <2> QED  BY <2>1, <2>3, <2>4
<1> QED  BY <1>1, <1>2 DEF RowsInv

LEMMA AdvanceThread ==
  ASSUME IInv, TypeOK', Advance
  PROVE  ThreadInv' /\ CompleteIsStored' /\ SessionInv'
<1>0. TypeOK /\ ThreadInv /\ CompleteIsStored /\ SessionInv
  BY DEF IInv
<1>1. thread' = thread /\ session' = session /\ active' = active /\ tasks' = tasks /\ thread \in ThreadType
  BY <1>0, Typed DEF Advance, workspace
<1>2. \A s \in Send : PostAdvances(s)
  BY DEF Advance
<1>3. \A i \in DOMAIN thread.messages : thread.messages[i].send \in Send
  BY <1>0, TypedMessages
<1>4. thread.sending \in Send \/ thread.sending = 0
  BY <1>1, Bounds DEF ThreadType
<1>5. thread.checkpoint \in Send \/ thread.checkpoint = 0
  BY <1>1, Bounds DEF ThreadType
<1>6. ThreadInv'
  <2>1. ASSUME thread.sending # 0  PROVE SendingInv(thread.sending)'
    <3>1. SendingInv(thread.sending) /\ PostAdvances(thread.sending)
      BY <1>0, <1>2, <1>4, <2>1 DEF ThreadInv
    <3> QED  BY <1>1, <3>1 DEF SendingInv, PostAdvances
  <2>2. \A i \in DOMAIN thread'.messages : post'[thread'.messages[i].send].server # "idle"
    BY <1>0, <1>1, <1>2, <1>3 DEF ThreadInv, PostAdvances
  <2>3. thread'.checkpoint # 0 => post'[thread'.checkpoint].server # "idle"
    BY <1>0, <1>1, <1>2, <1>5 DEF ThreadInv, PostAdvances
  <2>4. thread'.chat = 0 => thread' = NoThread
    BY <1>0, <1>1 DEF ThreadInv
  <2> QED  BY <1>1, <2>1, <2>2, <2>3, <2>4 DEF ThreadInv
<1>7. CompleteIsStored'
  <2>1. CASE thread.chat = 0
    <3>1. DOMAIN thread'.messages = {}
      BY <1>0, <1>1, <2>1 DEF ThreadInv, NoThread
    <3> QED  BY <3>1 DEF CompleteIsStored
  <2>2. CASE thread.chat # 0
    <3>1. thread.chat \in Chat
      BY <1>1, <2>2, Bounds DEF ThreadType
    <3>2. \A i \in DOMAIN rows[thread.chat] :
            i \in DOMAIN rows'[thread.chat] /\ rows'[thread.chat][i] = rows[thread.chat][i]
      BY <3>1 DEF Advance, RowsAdvance
    <3> QED  BY <1>0, <1>1, <3>2 DEF CompleteIsStored
  <2> QED  BY <2>1, <2>2
<1>8. SessionInv'
  BY <1>0, <1>1, <1>2 DEF SessionInv, PostAdvances
<1> QED  BY <1>6, <1>7, <1>8

LEMMA AdvanceTasks ==
  ASSUME IInv, TypeOK', Advance, NEW t \in tasks'
  PROVE  TaskInv(t)'
<1>1. t \in tasks /\ t \in Task /\ TaskInv(t) /\ RowsInv
  BY Typed DEF Advance, IInv
<1>2. CASE t.op # "open"
  BY <1>1, <1>2 DEF TaskInv
<1>3. CASE t.op = "open"
  <2>1. t.chat \in Chat
    BY <1>1, <1>3 DEF TaskInv
  <2>2. /\ RowsAdvance(t.chat) /\ t.n \in Nat
        /\ Len(rows[t.chat]) \in Nat /\ DOMAIN rows[t.chat] = 1..Len(rows[t.chat])
        /\ Len(rows'[t.chat]) \in Nat /\ DOMAIN rows'[t.chat] = 1..Len(rows'[t.chat])
    <3>1. TypeOK
      BY DEF IInv
    <3>2. t.n \in Nat
      BY <1>1 DEF Task
    <3> QED  BY <2>1, <3>1, <3>2, TypedRows, TypedRowsNext, Typed DEF Advance
  <2>3. Len(rows[t.chat]) <= Len(rows'[t.chat])
    BY <2>2 DEF RowsAdvance
  <2>4. t.state = "answered" => t.n <= Len(rows'[t.chat])
    BY <1>1, <1>3, <2>2, <2>3 DEF TaskInv
  <2>5. ASSUME t.for = "reply"
        PROVE  /\ t.send \in Send /\ post'[t.send].server = "done" /\ post'[t.send].chat = t.chat
               /\ t.state = "answered" =>
                    \A j \in DOMAIN rows'[t.chat] : rows'[t.chat][j].send = t.send => j <= t.n
    <3>1. t.send \in Send /\ post[t.send].server = "done" /\ post[t.send].chat = t.chat
          /\ (t.state = "answered" => \A j \in DOMAIN rows[t.chat] : rows[t.chat][j].send = t.send => j <= t.n)
      BY <1>1, <2>5 DEF TaskInv
    <3>2. PostAdvances(t.send)
      BY <3>1 DEF Advance
    <3> QED  BY <2>2, <3>1, <3>2 DEF RowsAdvance, PostAdvances
  <2> QED  BY <1>1, <1>3, <2>1, <2>4, <2>5 DEF TaskInv
<1> QED  BY <1>2, <1>3

LEMMA AdvanceRead ==
  ASSUME IInv, TypeOK', Advance
  PROVE  ReadInv' /\ RowsShown'
<1>0. TypeOK /\ ThreadInv /\ SessionInv /\ ReadInv /\ RowsShown /\ \A t \in tasks : TaskInv(t)
  BY DEF IInv
<1>1. /\ thread' = thread /\ session' = session /\ active' = active /\ tasks' = tasks
      /\ newest' = newest /\ unseen' = unseen /\ thread \in ThreadType
  BY <1>0, Typed DEF Advance, workspace, history
<1>2. ASSUME session = "in", NEW c \in Chat, NEW j \in DOMAIN rows'[c], j \notin DOMAIN rows[c]
      PROVE  rows'[c][j].send \in unseen \/ rows'[c][j].send = thread.sending
  <2> DEFINE s == rows'[c][j].send
  <2>1. s \in Send
    BY TypedRowsNext
  <2>2. post[s].server \in {"asked", "working"}
    BY <1>2 DEF Advance, RowsAdvance
  <2> QED  BY <1>0, <1>2, <2>1, <2>2 DEF ReadInv
<1>3. ASSUME NEW c \in Chat, NEW j \in DOMAIN rows[c]
      PROVE  j \in DOMAIN rows'[c] /\ rows'[c][j] = rows[c][j]
  BY DEF Advance, RowsAdvance
<1>4. ReadInv'
  <2> SUFFICES ASSUME session = "in"
               PROVE  /\ \A s \in Send :
                           post'[s].server \in {"asked", "working"} => s \in unseen \/ s = thread.sending
                      /\ active.chat # 0 => active.upTo <= Len(rows'[active.chat]) /\ Awaited(active.chat, active.upTo)'
                      /\ \A t \in tasks :
                           t.op = "open" /\ t.state = "answered" =>
                             \A j \in DOMAIN rows'[t.chat] :
                               j > t.n /\ j > newest[t.chat] =>
                                 rows'[t.chat][j].send \in unseen \/ rows'[t.chat][j].send = thread.sending
    BY <1>1 DEF ReadInv
  <2>1. ASSUME NEW s \in Send, post'[s].server \in {"asked", "working"}
        PROVE  s \in unseen \/ s = thread.sending
    <3>1. PostAdvances(s) /\ post[s] \in PostType
      BY <1>0, Typed DEF Advance
    <3>2. post[s].server \in {"asked", "working"}
      BY <2>1, <3>1 DEF PostAdvances, PostType
    <3> QED  BY <1>0, <3>2 DEF ReadInv
  <2>2. ASSUME active.chat # 0
        PROVE  active.upTo <= Len(rows'[active.chat]) /\ Awaited(active.chat, active.upTo)'
    <3>1. active.chat \in Chat /\ active.upTo \in Nat
      BY <1>0, <2>2, Bounds, Typed
    <3>2. active.upTo <= Len(rows[active.chat]) /\ Awaited(active.chat, active.upTo)
      BY <1>0, <2>2 DEF ReadInv
    <3>3. /\ Len(rows[active.chat]) \in Nat /\ DOMAIN rows[active.chat] = 1..Len(rows[active.chat])
          /\ Len(rows'[active.chat]) \in Nat /\ DOMAIN rows'[active.chat] = 1..Len(rows'[active.chat])
      <4>1. TypeOK /\ rows \in [Chat -> Seq(Row)]
        BY <1>0, Typed
      <4>2. /\ Len(rows[active.chat]) \in Nat /\ DOMAIN rows[active.chat] = 1..Len(rows[active.chat])
        BY <3>1, <4>1, TypedRows
      <4>3. /\ Len(rows'[active.chat]) \in Nat /\ DOMAIN rows'[active.chat] = 1..Len(rows'[active.chat])
        BY <3>1, TypedRowsNext
      <4> QED  BY <4>2, <4>3
    <3>4. Len(rows[active.chat]) <= Len(rows'[active.chat])
      <4>1. 1..Len(rows[active.chat]) \subseteq 1..Len(rows'[active.chat])
        BY <1>3, <3>1, <3>3
      <4> HIDE <1>3
      <4> QED  BY <3>3, <4>1
    <3>5. active.upTo <= Len(rows'[active.chat])
      BY <3>1, <3>2, <3>3, <3>4
    <3>6. ASSUME NEW j \in DOMAIN rows'[active.chat], j > active.upTo
          PROVE  rows'[active.chat][j].send \in unseen \/ rows'[active.chat][j].send = thread.sending
      <4>1. CASE j \in DOMAIN rows[active.chat]
        BY <1>3, <3>1, <3>2, <3>6, <4>1 DEF Awaited
      <4>2. CASE j \notin DOMAIN rows[active.chat]
        BY <1>2, <3>1, <3>6, <4>2
      <4> QED  BY <4>1, <4>2
    <3> QED  BY <1>1, <3>5, <3>6 DEF Awaited
  <2>3. ASSUME NEW t \in tasks, t.op = "open", t.state = "answered",
               NEW j \in DOMAIN rows'[t.chat], j > t.n, j > newest[t.chat]
        PROVE  rows'[t.chat][j].send \in unseen \/ rows'[t.chat][j].send = thread.sending
    <3>1. t.chat \in Chat
      BY <1>0, <2>3 DEF TaskInv
    <3>2. CASE j \in DOMAIN rows[t.chat]
      BY <1>0, <1>3, <2>3, <3>1, <3>2 DEF ReadInv
    <3>3. CASE j \notin DOMAIN rows[t.chat]
      BY <1>2, <2>3, <3>1, <3>3
    <3> QED  BY <3>2, <3>3
  <2> QED  BY <2>1, <2>2, <2>3
<1>5. RowsShown'
  <2> SUFFICES ASSUME thread.chat # 0, NEW j \in DOMAIN rows'[thread.chat]
               PROVE  \/ rows'[thread.chat][j].send \in unseen
                      \/ \E i \in DOMAIN thread.messages :
                           /\ thread.messages[i].role = rows'[thread.chat][j].role
                           /\ thread.messages[i].send = rows'[thread.chat][j].send
    BY <1>1 DEF RowsShown
  <2>1. thread.chat \in Chat
    BY <1>1, Bounds DEF ThreadType
  <2>2. CASE j \in DOMAIN rows[thread.chat]
    BY <1>0, <1>3, <2>1, <2>2 DEF RowsShown
  <2>3. CASE j \notin DOMAIN rows[thread.chat]
    <3> DEFINE row == rows'[thread.chat][j]
    <3>1. session = "in"
      BY <1>0 DEF SessionInv, NoThread
    <3>2. row.send \in unseen \/ row.send = thread.sending
      BY <1>2, <2>1, <2>3, <3>1
    <3>3. row.role \in {"user", "assistant"} /\ row.send \in Send
      BY <2>1, TypedRowsNext
    <3>4. ASSUME row.send = thread.sending
          PROVE  Has(thread.messages, "user", row.send) /\ Has(thread.messages, "assistant", row.send)
      BY <1>0, <3>3, <3>4, Bounds DEF ThreadInv, SendingInv
    <3> QED  BY <3>2, <3>3, <3>4 DEF Has
  <2> QED  BY <2>2, <2>3
<1> QED  BY <1>4, <1>5

LEMMA Advanced ==
  ASSUME IInv, TypeOK', Advance, \A r \in Send : PostInv(r)'
  PROVE  IInv'
<1>1. \A t \in tasks' : TaskInv(t)'
  BY AdvanceTasks
<1> QED  BY <1>1, AdvanceRows, AdvanceThread, AdvanceRead DEF IInv

\* What a post was before it still is, if it is left alone.
PostsStay == \A q \in Send : post[q].server # "idle" => post'[q].server # "idle"
RowsStay ==
  \A c \in Chat : \A i \in DOMAIN rows[c] : i \in DOMAIN rows'[c] /\ rows'[c][i] = rows[c][i]

LEMMA HasStays ==
  ASSUME RowsStay, NEW c \in Chat, NEW role, NEW s, Has(rows[c], role, s)
  PROVE  Has(rows'[c], role, s)
  BY DEF RowsStay, Has

LEMMA PostKept ==
  ASSUME IInv, PostsStay, RowsStay, NEW r \in Send, post'[r] = post[r]
  PROVE  PostInv(r)'
<1>1. PostInv(r) /\ TypeOK
  BY DEF IInv
<1>2. \A q \in 1..(r - 1) : q \in Send
  BY Bounds
<1>3. CASE post[r].server = "idle"
  <2>1. post[r] = Unsent
    BY <1>1, <1>3 DEF PostInv
  <2>2. post[r].sent = <<>>
    BY <2>1 DEF Unsent
  <2> QED  BY <1>1, <1>3, <2>2 DEF PostInv
<1>4. CASE post[r].server # "idle"
  <2>1. post[r].chat \in Chat /\ \A q \in 1..(r - 1) : post[q].server # "idle"
    BY <1>1, <1>4 DEF PostInv
  <2>2. \A q \in 1..(r - 1) : post'[q].server # "idle"
    BY <1>2, <2>1 DEF PostsStay
  <2>3. Has(rows[post[r].chat], "assistant", r) => Has(rows'[post[r].chat], "assistant", r)
    BY <2>1, HasStays
  <2> QED  BY <1>1, <1>4, <2>1, <2>2, <2>3 DEF PostInv
<1> QED  BY <1>3, <1>4

\* Rows that are as they were, or one more of a message that is being served.
LEMMA RowsAdvanced ==
  ASSUME IInv, NEW s \in Send, post[s].server \in {"asked", "working"},
         post'[s].server \in {"working", "done"},
         \/ rows' = rows
         \/ \E role \in {"user", "assistant"}, status \in {"submitted", "interrupted"} \cup Terminal :
              Put(post[s].chat, s, role, status)
  PROVE  rows' \in [Chat -> Seq(Row)] /\ RowsStay /\ \A c \in Chat : RowsAdvance(c)
<1>1. rows \in [Chat -> Seq(Row)] /\ post[s].chat \in Chat
  BY Typed DEF IInv, PostInv
<1>2. CASE rows' = rows
  BY <1>1, <1>2 DEF RowsAdvance, RowsStay
<1>3. ASSUME NEW role \in {"user", "assistant"}, NEW status \in {"submitted", "interrupted"} \cup Terminal,
             Put(post[s].chat, s, role, status)
      PROVE  rows' \in [Chat -> Seq(Row)] /\ RowsStay /\ \A c \in Chat : RowsAdvance(c)
  <2> DEFINE d == post[s].chat
  <2>1. /\ rows' \in [Chat -> Seq(Row)]
        /\ \A c \in Chat : c # d => rows'[c] = rows[c]
        /\ Len(rows'[d]) = Len(rows[d]) + 1
        /\ \A i \in DOMAIN rows[d] : rows'[d][i] = rows[d][i]
        /\ rows'[d][Len(rows[d]) + 1].send = s
    BY <1>1, <1>3, RowPut
  <2>2. /\ Len(rows[d]) \in Nat /\ DOMAIN rows[d] = 1..Len(rows[d])
        /\ DOMAIN rows'[d] = 1..Len(rows'[d])
    BY <1>1, <2>1
  <2>3. RowsAdvance(d)
    <3>1. \A i \in DOMAIN rows'[d] : i \in DOMAIN rows[d] \/ i = Len(rows[d]) + 1
      BY <2>1, <2>2
    <3>2. \A i \in DOMAIN rows[d] : i \in DOMAIN rows'[d]
      BY <2>1, <2>2
    <3> QED  BY <2>1, <3>1, <3>2 DEF RowsAdvance
  <2>4. \A c \in Chat : c # d => RowsAdvance(c)
    BY <2>1 DEF RowsAdvance
  <2>5. \A c \in Chat : RowsAdvance(c)
    BY <2>3, <2>4
  <2> QED  BY <2>1, <2>5 DEF RowsStay, RowsAdvance
<1> QED  BY <1>2, <1>3

\* The server took a post on: the page is as it was.
LEMMA ServerTypes ==
  ASSUME TypeOK, post' \in [Send -> PostType], rows' \in [Chat -> Seq(Row)],
         faults' \in 0..MaxFaults,
         UNCHANGED <<created, session, workspace, thread, tasks, uses, history>>
  PROVE  TypeOK'
  BY DEF TypeOK, PostType, workspace, history

LEMMA ServedPost ==
  ASSUME IInv, NEW s \in Send, NEW p \in PostType, post' = [post EXCEPT ![s] = p],
         post[s].server # "idle", p.server # "idle",
         p.chat = post[s].chat, p.handed = post[s].handed,
         post[s].server = "working" => p.server \in {"working", "done"},
         post[s].server = "done" => p.server = "done",
         post[s].net = "over" => p.net = "over"
  PROVE  PostsStay /\ \A r \in Send : PostAdvances(r)
<1>1. post \in [Send -> PostType]
  BY Typed DEF IInv
<1>2. post'[s] = p /\ \A r \in Send : r # s => post'[r] = post[r]
  BY <1>1, PostChanges
<1>3. p.server \in {"working", "done"} \/ post[s].server \notin {"working", "done"}
  OBVIOUS
<1>4. PostAdvances(s)
  BY <1>2, <1>3 DEF PostAdvances
<1>5. \A r \in Send : r # s => PostAdvances(r)
  BY <1>2 DEF PostAdvances
<1> QED  BY <1>4, <1>5 DEF PostsStay, PostAdvances

LEMMA ServedStep ==
  ASSUME IInv, NEW s \in Send, NEW p \in PostType, post' = [post EXCEPT ![s] = p],
         post[s].server # "idle", p.server # "idle",
         p.chat = post[s].chat, p.handed = post[s].handed,
         post[s].server = "working" => p.server \in {"working", "done"},
         post[s].server = "done" => p.server = "done",
         post[s].net = "over" => p.net = "over",
         p.server # "asked" \/ p.sent = <<>>,
         p.server # "asked" \/ p.net \in {"none", "gone", "over"},
         p.net = "open" => p.server = "working",
         p.net = "closed" => p.server = "done",
         StreamInv(p), SentInv(p),
         (\E i \in DOMAIN p.sent : p.sent[i] # "chunk") => Has(rows'[p.chat], "assistant", s),
         rows' \in [Chat -> Seq(Row)], RowsStay, \A c \in Chat : RowsAdvance(c),
         faults' \in 0..MaxFaults,
         UNCHANGED <<created, session, workspace, thread, tasks, uses, history>>
  PROVE  IInv'
<1>0. TypeOK /\ PostInv(s) /\ post \in [Send -> PostType]
  BY Typed DEF IInv
<1>1. post' \in [Send -> PostType] /\ post'[s] = p /\ \A r \in Send : r # s => post'[r] = post[r]
  BY <1>0, PostChanges
<1>2. PostsStay /\ \A r \in Send : PostAdvances(r)
  BY ServedPost
<1>3. TypeOK'
  BY <1>0, <1>1, ServerTypes
<1>4. Advance
  BY <1>2 DEF Advance
<1>5. PostInv(s)'
  <2>1. \A r \in 1..(s - 1) : post'[r].server # "idle"
    <3>1. \A r \in 1..(s - 1) : r \in Send /\ post[r].server # "idle"
      BY <1>0, Bounds DEF PostInv
    <3> QED  BY <1>2, <3>1 DEF PostsStay
  <2>2. p.chat \in Chat
    BY <1>0 DEF PostInv
  <2> QED  BY <1>1, <2>1, <2>2 DEF PostInv
<1>6. \A r \in Send : PostInv(r)'
  BY <1>1, <1>2, <1>5, PostKept
<1> QED  BY <1>3, <1>4, <1>6, Advanced

LEMMA ByAccept ==
  ASSUME IInv, NEW s \in Send, Accept(s)
  PROVE  IInv'
<1> DEFINE p == [post[s] EXCEPT !.server = "working", !.net = IF @ = "none" THEN "open" ELSE @]
<1>0. TypeOK /\ PostInv(s) /\ post \in [Send -> PostType] /\ post[s] \in PostType /\ post[s].server = "asked"
  BY Typed DEF IInv, Accept
<1>1. post[s].sent = <<>> /\ post[s].net \in {"none", "gone", "over"} /\ StreamInv(post[s])
  BY <1>0 DEF PostInv
<1>2. /\ p \in PostType /\ p.server = "working" /\ p.chat = post[s].chat /\ p.handed = post[s].handed
      /\ p.sent = post[s].sent /\ p.read = post[s].read /\ p.buffer = post[s].buffer
      /\ p.net \in {"open", "gone", "over"} /\ (post[s].net = "over" => p.net = "over")
  BY <1>0, <1>1 DEF PostType
<1>3. post' = [post EXCEPT ![s] = p]
  BY <1>0 DEF Accept
<1> HIDE DEF p
<1>4. post'[s] = p
  BY <1>0, <1>2, <1>3, PostChanges
<1>5. rows' \in [Chat -> Seq(Row)] /\ RowsStay /\ \A c \in Chat : RowsAdvance(c)
  BY <1>0, <1>2, <1>4, RowsAdvanced DEF Accept
<1>6. faults' \in 0..MaxFaults
  BY <1>0 DEF Accept, bounds, TypeOK
<1>7. StreamInv(p) /\ SentInv(p) /\ DOMAIN p.sent = {}
  BY <1>1, <1>2 DEF StreamInv, SentInv
<1> QED  BY <1>0, <1>2, <1>3, <1>5, <1>6, <1>7, ServedStep DEF Accept, bounds

LEMMA ByReject ==
  ASSUME IInv, NEW s \in Send, Reject(s)
  PROVE  IInv'
<1> DEFINE p == [post[s] EXCEPT !.server = "done", !.net = IF @ = "none" THEN "cut" ELSE @]
<1>0. TypeOK /\ PostInv(s) /\ post \in [Send -> PostType] /\ post[s] \in PostType /\ post[s].server = "asked"
  BY Typed DEF IInv, Reject
<1>1. post[s].sent = <<>> /\ post[s].net \in {"none", "gone", "over"} /\ StreamInv(post[s])
  BY <1>0 DEF PostInv
<1>2. /\ p \in PostType /\ p.server = "done" /\ p.chat = post[s].chat /\ p.handed = post[s].handed
      /\ p.sent = post[s].sent /\ p.read = post[s].read /\ p.buffer = post[s].buffer
      /\ p.net \in {"cut", "gone", "over"} /\ (post[s].net = "over" => p.net = "over")
  BY <1>0, <1>1 DEF PostType
<1>3. post' = [post EXCEPT ![s] = p]
  BY <1>0 DEF Reject
<1> HIDE DEF p
<1>4. post'[s] = p
  BY <1>0, <1>2, <1>3, PostChanges
<1>5. rows' \in [Chat -> Seq(Row)] /\ RowsStay /\ \A c \in Chat : RowsAdvance(c)
  BY <1>0, <1>2, <1>4, RowsAdvanced DEF Reject
<1>6. faults' \in 0..MaxFaults
  BY <1>0, Counted DEF Reject
<1>7. StreamInv(p) /\ SentInv(p) /\ DOMAIN p.sent = {}
  BY <1>1, <1>2 DEF StreamInv, SentInv
<1> QED  BY <1>0, <1>2, <1>3, <1>5, <1>6, <1>7, ServedStep DEF Reject

LEMMA ByDisconnect ==
  ASSUME IInv, NEW s \in Send, Disconnect(s)
  PROVE  IInv'
<1> DEFINE p == [post[s] EXCEPT !.net = "cut"]
<1>0. TypeOK /\ PostInv(s) /\ post \in [Send -> PostType] /\ post[s] \in PostType
      /\ post[s].net \in {"open", "closed"}
  BY Typed DEF IInv, Disconnect
<1>1. post[s].server \in {"working", "done"} /\ post[s].chat \in Chat /\ StreamInv(post[s]) /\ SentInv(post[s])
      /\ ((\E i \in DOMAIN post[s].sent : post[s].sent[i] # "chunk") => Has(rows[post[s].chat], "assistant", s))
  BY <1>0 DEF PostInv
<1>2. /\ p \in PostType /\ p.server = post[s].server /\ p.chat = post[s].chat /\ p.handed = post[s].handed
      /\ p.sent = post[s].sent /\ p.read = post[s].read /\ p.buffer = post[s].buffer /\ p.net = "cut"
  BY <1>0 DEF PostType
<1>3. post' = [post EXCEPT ![s] = p]
  BY <1>0 DEF Disconnect
<1>4. rows' = rows /\ rows \in [Chat -> Seq(Row)]
  BY <1>0, Typed DEF Disconnect, server
<1> HIDE DEF p
<1>5. RowsStay /\ \A c \in Chat : RowsAdvance(c)
  BY <1>4 DEF RowsStay, RowsAdvance
<1>6. faults' \in 0..MaxFaults
  BY <1>0, Counted DEF Disconnect
<1>7. StreamInv(p) /\ SentInv(p)
  BY <1>1, <1>2 DEF StreamInv, SentInv
<1>8. (\E i \in DOMAIN p.sent : p.sent[i] # "chunk") => Has(rows'[p.chat], "assistant", s)
  BY <1>1, <1>2, <1>4
<1> QED  BY <1>0, <1>1, <1>2, <1>3, <1>4, <1>5, <1>6, <1>7, <1>8, ServedStep DEF Disconnect, server

\* A working stream has had chunks only.
LEMMA WorkingStream ==
  ASSUME IInv, NEW s \in Send, post[s].server = "working"
  PROVE  /\ post[s].chat \in Chat /\ StreamInv(post[s])
         /\ \A i \in DOMAIN post[s].sent : post[s].sent[i] = "chunk" /\ i <= MaxChunks
  BY DEF IInv, PostInv, SentInv

LEMMA ByCutShort ==
  ASSUME IInv, NEW s \in Send, CutShort(s)
  PROVE  IInv'
<1> DEFINE p == [post[s] EXCEPT !.server = "done", !.net = Closed(@)]
<1>0. TypeOK /\ PostInv(s) /\ post \in [Send -> PostType] /\ post[s] \in PostType /\ post[s].server = "working"
  BY Typed DEF IInv, CutShort
<1>1. /\ post[s].chat \in Chat /\ StreamInv(post[s])
      /\ \A i \in DOMAIN post[s].sent : post[s].sent[i] = "chunk" /\ i <= MaxChunks
  BY <1>0, WorkingStream
<1>2. /\ p \in PostType /\ p.server = "done" /\ p.chat = post[s].chat /\ p.handed = post[s].handed
      /\ p.sent = post[s].sent /\ p.read = post[s].read /\ p.buffer = post[s].buffer
      /\ p.net # "open" /\ (post[s].net = "over" => p.net = "over")
  BY <1>0, <1>1 DEF PostType, Closed
<1>3. post' = [post EXCEPT ![s] = p]
  BY <1>0 DEF CutShort
<1> HIDE DEF p
<1>4. post'[s] = p
  BY <1>0, <1>2, <1>3, PostChanges
<1>5. rows' \in [Chat -> Seq(Row)] /\ RowsStay /\ \A c \in Chat : RowsAdvance(c)
  BY <1>0, <1>2, <1>4, RowsAdvanced DEF CutShort
<1>6. faults' \in 0..MaxFaults
  BY <1>0, Counted DEF CutShort
<1>7. StreamInv(p) /\ SentInv(p) /\ ~ \E i \in DOMAIN p.sent : p.sent[i] # "chunk"
  BY <1>1, <1>2 DEF StreamInv, SentInv
<1> QED  BY <1>0, <1>2, <1>3, <1>5, <1>6, <1>7, ServedStep DEF CutShort

\* What was read of a stream is not touched by what is sent after it.
LEMMA BytesGrow ==
  ASSUME NEW sent \in Seq(Event), NEW event \in Event, NEW a \in Nat, NEW b \in Nat, b <= 3 * Len(sent)
  PROVE  SubSeq(Bytes(Append(sent, event)), a + 1, b) = SubSeq(Bytes(sent), a + 1, b)
<1> DEFINE new == Append(sent, event)
<1>1. new \in Seq(Event) /\ Len(new) = Len(sent) + 1 /\ \A i \in 1..Len(sent) : new[i] = sent[i]
  OBVIOUS
<1> HIDE DEF new
<1>2. /\ Len(Bytes(sent)) = 3 * Len(sent) /\ Bytes(sent) \in Seq(Event \cup {Newline})
      /\ \A i \in 1..(3 * Len(sent)) :
           Bytes(sent)[i] = IF i % 3 = 1 THEN sent[(i \div 3) + 1] ELSE Newline
  BY BytesAre
<1>3. /\ Len(Bytes(new)) = 3 * Len(new) /\ Bytes(new) \in Seq(Event \cup {Newline})
      /\ \A i \in 1..(3 * Len(new)) :
           Bytes(new)[i] = IF i % 3 = 1 THEN new[(i \div 3) + 1] ELSE Newline
  BY <1>1, BytesAre
<1>4. ASSUME NEW i \in 1..(3 * Len(sent))  PROVE Bytes(new)[i] = Bytes(sent)[i]
  <2>1. i \in 1..(3 * Len(new))
    BY <1>1
  <2>2. i % 3 = 1 => (i \div 3) + 1 \in 1..Len(sent)
    OBVIOUS
  <2> QED  BY <1>1, <1>2, <1>3, <2>1, <2>2
<1>5. Len(sent) \in Nat /\ Len(Bytes(sent)) <= Len(Bytes(new))
  BY <1>1, <1>2, <1>3
<1>6. \A i \in 1..b : Bytes(new)[i] = Bytes(sent)[i]
  BY <1>4, <1>5
<1>7. b <= Len(Bytes(sent)) /\ b <= Len(Bytes(new))
  BY <1>2, <1>5
<1> HIDE DEF Bytes
<1>8. SubSeq(Bytes(new), a + 1, b) = SubSeq(Bytes(sent), a + 1, b)
  BY <1>2, <1>3, <1>6, <1>7
<1> QED  BY <1>8 DEF new

LEMMA ByEmit ==
  ASSUME IInv, NEW s \in Send, NEW event \in Event, Emit(s, event)
  PROVE  IInv'
<1>0. TypeOK /\ PostInv(s) /\ post \in [Send -> PostType] /\ post[s] \in PostType /\ post[s].server = "working"
  BY Typed DEF IInv, Emit
<1>a. PICK content \in NoContent..Full :
         post' = [post EXCEPT ![s].sent = Append(@, event), ![s].content = content,
                    ![s].server = IF event = "chunk" THEN @ ELSE "done",
                    ![s].net = IF event = "chunk" THEN @ ELSE Closed(@)]
  <2>1. NoContent \in NoContent..Full /\ Contents[s] \subseteq NoContent..Full
    BY ContentsAre
  <2> QED  BY <2>1 DEF Emit
<1> DEFINE p == [post[s] EXCEPT !.sent = Append(@, event), !.content = content,
                   !.server = IF event = "chunk" THEN @ ELSE "done",
                   !.net = IF event = "chunk" THEN @ ELSE Closed(@)]
<1>1. /\ post[s].chat \in Chat /\ StreamInv(post[s])
      /\ \A i \in DOMAIN post[s].sent : post[s].sent[i] = "chunk" /\ i <= MaxChunks
  BY <1>0, WorkingStream
<1>2. post[s].net # "closed"
  BY <1>0 DEF PostInv
<1>3. /\ p \in PostType /\ p.server = (IF event = "chunk" THEN "working" ELSE "done")
      /\ p.chat = post[s].chat /\ p.handed = post[s].handed
      /\ p.sent = Append(post[s].sent, event) /\ p.read = post[s].read /\ p.buffer = post[s].buffer
      /\ p.net = (IF event = "chunk" THEN post[s].net ELSE Closed(post[s].net))
      /\ (post[s].net = "over" => p.net = "over")
  <2>1. Append(post[s].sent, event) \in Seq(Event)
    BY <1>0 DEF PostType
  <2> QED  BY <1>0, <2>1 DEF PostType, Closed
<1>4. post' = [post EXCEPT ![s] = p]
  BY <1>0, <1>a
<1> HIDE DEF p
<1>5. post'[s] = p
  BY <1>0, <1>3, <1>4, PostChanges
<1>6. rows' \in [Chat -> Seq(Row)] /\ RowsStay /\ \A c \in Chat : RowsAdvance(c)
  BY <1>0, <1>3, <1>5, RowsAdvanced DEF Emit, Event
<1>7. faults' \in 0..MaxFaults
  BY <1>0 DEF Emit, bounds, TypeOK
<1>8. post[s].sent \in Seq(Event) /\ Len(post[s].sent) \in Nat /\ post[s].read \in Nat
  BY <1>0 DEF PostType
<1>9. /\ Len(p.sent) = Len(post[s].sent) + 1 /\ p.sent[Len(p.sent)] = event /\ DOMAIN p.sent = 1..Len(p.sent)
      /\ \A i \in 1..Len(post[s].sent) : p.sent[i] = post[s].sent[i] /\ i \in DOMAIN post[s].sent
  BY <1>3, <1>8
<1>10. StreamInv(p)
  <2>1. p.read <= 3 * Len(p.sent)
    <3>1. post[s].read <= 3 * Len(post[s].sent)
      BY <1>1 DEF StreamInv
    <3>2. Len(p.sent) = Len(post[s].sent) + 1 /\ p.read = post[s].read
      BY <1>3, <1>9
    <3> QED  BY <1>8, <3>1, <3>2
  <2>2. p.handed = SubSeq(p.sent, 1, p.read \div 3)
    <3>1. post[s].handed = SubSeq(post[s].sent, 1, p.read \div 3) /\ post[s].read <= 3 * Len(post[s].sent)
      BY <1>1, <1>3 DEF StreamInv
    <3>2. p.read \div 3 \in Nat /\ p.read \div 3 <= Len(post[s].sent)
      BY <1>3, <1>8, <3>1
    <3>3. SubSeq(Append(post[s].sent, event), 1, p.read \div 3) = SubSeq(post[s].sent, 1, p.read \div 3)
      BY <1>8, <3>2
    <3> QED  BY <1>3, <3>1, <3>3
  <2>3. p.buffer = SubSeq(Bytes(p.sent), 3 * (p.read \div 3) + 1, p.read)
    <3>1. post[s].buffer = SubSeq(Bytes(post[s].sent), 3 * (post[s].read \div 3) + 1, post[s].read)
          /\ post[s].read <= 3 * Len(post[s].sent)
      BY <1>1 DEF StreamInv
    <3>2. 3 * (post[s].read \div 3) \in Nat
      BY <1>8
    <3>3. SubSeq(Bytes(Append(post[s].sent, event)), 3 * (post[s].read \div 3) + 1, post[s].read)
          = SubSeq(Bytes(post[s].sent), 3 * (post[s].read \div 3) + 1, post[s].read)
      BY <1>8, <3>1, <3>2, BytesGrow
    <3> QED  BY <1>3, <3>1, <3>3
  <2> QED  BY <2>1, <2>2, <2>3 DEF StreamInv
<1>11. SentInv(p)
  <2>1. ASSUME NEW i \in 1..Len(post[s].sent)  PROVE p.sent[i] = "chunk" /\ i <= MaxChunks
    BY <1>1, <1>9
  <2>2. CASE event = "chunk"
    <3>1. Len(post[s].sent) < MaxChunks
      BY <2>2 DEF Emit
    <3>2. Len(p.sent) <= MaxChunks
      BY <1>8, <1>9, <3>1, Bounds
    <3> QED  BY <1>8, <1>9, <2>1, <2>2, <3>2 DEF SentInv
  <2>3. CASE event # "chunk"
    BY <1>3, <1>8, <1>9, <2>1, <2>3 DEF SentInv
  <2> QED  BY <2>2, <2>3
<1>12. (\E i \in DOMAIN p.sent : p.sent[i] # "chunk") => Has(rows'[p.chat], "assistant", s)
  <2>1. CASE event = "chunk"
    BY <1>1, <1>8, <1>9, <2>1
  <2>2. CASE event # "chunk"
    <3>1. event \in Terminal /\ Put(post[s].chat, s, "assistant", event) /\ rows \in [Chat -> Seq(Row)]
      BY <1>0, <2>2, Typed DEF Emit, Event
    <3>2. LET c == post[s].chat IN
          /\ rows' \in [Chat -> Seq(Row)] /\ Len(rows'[c]) = Len(rows[c]) + 1
          /\ rows'[c][Len(rows[c]) + 1].role = "assistant" /\ rows'[c][Len(rows[c]) + 1].send = s
      BY <1>1, <3>1, RowPut
    <3>3. Len(rows[post[s].chat]) \in Nat /\ DOMAIN rows'[post[s].chat] = 1..Len(rows'[post[s].chat])
      BY <1>1, <3>1, <3>2
    <3>4. Len(rows[post[s].chat]) + 1 \in DOMAIN rows'[post[s].chat]
      BY <3>2, <3>3
    <3> QED  BY <1>3, <3>2, <3>4 DEF Has
  <2> QED  BY <2>1, <2>2
<1>13. /\ (p.net = "open" => p.server = "working") /\ (p.net = "closed" => p.server = "done")
       /\ p.server \in {"working", "done"}
  BY <1>2, <1>3 DEF Closed
<1>14. UNCHANGED <<created, session, workspace, thread, tasks, uses, history>>
  BY DEF Emit, bounds
<1> QED  BY <1>0, <1>3, <1>4, <1>6, <1>7, <1>10, <1>11, <1>12, <1>13, <1>14, ServedStep

-----------------------------------------------------------------------------
(***************************************************************************)
(* Steps of the page that leave the rows and what the posts carry alone.   *)
(***************************************************************************)
PostsAlike ==
  \A s \in Send :
    /\ post'[s].server = post[s].server /\ post'[s].chat = post[s].chat
    /\ post'[s].handed = post[s].handed

LEMMA PostsUnchanged ==
  ASSUME IInv, post' = post, rows' = rows
  PROVE  /\ PostsAlike /\ post' \in [Send -> PostType] /\ rows' \in [Chat -> Seq(Row)]
         /\ \A s \in Send : PostInv(s)'
<1>1. PostsStay /\ RowsStay
  BY DEF PostsStay, RowsStay
<1>2. post \in [Send -> PostType] /\ rows \in [Chat -> Seq(Row)]
  BY Typed DEF IInv
<1> QED  BY <1>1, <1>2, PostKept DEF PostsAlike

\* The connection of a message is done with.
LEMMA PostOver ==
  ASSUME IInv, NEW s \in Send, post[s].server # "idle", rows' = rows,
         post' = [post EXCEPT ![s].net = "over", ![s].content = NoContent]
  PROVE  /\ PostsAlike /\ post' \in [Send -> PostType] /\ rows' \in [Chat -> Seq(Row)]
         /\ \A r \in Send : PostInv(r)'
<1> DEFINE p == [post[s] EXCEPT !.net = "over", !.content = NoContent]
<1>0. TypeOK /\ PostInv(s) /\ post \in [Send -> PostType] /\ post[s] \in PostType /\ rows \in [Chat -> Seq(Row)]
  BY Typed DEF IInv
<1>1. /\ p \in PostType /\ p.server = post[s].server /\ p.chat = post[s].chat /\ p.handed = post[s].handed
      /\ p.sent = post[s].sent /\ p.read = post[s].read /\ p.buffer = post[s].buffer /\ p.net = "over"
  BY <1>0, ContentsAre DEF PostType
<1>2. post' = [post EXCEPT ![s] = p]
  BY <1>0
<1> HIDE DEF p
<1>3. post' \in [Send -> PostType] /\ post'[s] = p /\ \A r \in Send : r # s => post'[r] = post[r]
  BY <1>0, <1>1, <1>2, PostChanges
<1>4. PostsAlike
  BY <1>1, <1>3 DEF PostsAlike
<1>5. PostsStay /\ RowsStay
  BY <1>4 DEF PostsStay, RowsStay, PostsAlike
<1>6. PostInv(s)'
  <2>1. \A r \in 1..(s - 1) : post'[r].server # "idle"
    <3>1. \A r \in 1..(s - 1) : r \in Send /\ post[r].server # "idle"
      BY <1>0, Bounds DEF PostInv
    <3> QED  BY <1>5, <3>1 DEF PostsStay
  <2>2. StreamInv(p) /\ SentInv(p)
    BY <1>0, <1>1 DEF PostInv, StreamInv, SentInv
  <2>3. p.chat \in Chat /\ p.server # "idle" /\ (p.server = "asked" => p.sent = <<>>)
        /\ ((\E i \in DOMAIN p.sent : p.sent[i] # "chunk") => Has(rows[p.chat], "assistant", s))
    BY <1>0, <1>1 DEF PostInv
  <2> QED  BY <1>1, <1>3, <2>1, <2>2, <2>3 DEF PostInv
<1> QED  BY <1>0, <1>3, <1>4, <1>5, <1>6, PostKept

LEMMA RowsKept ==
  ASSUME IInv, PostsAlike, rows' = rows, \A c \in Chat : newest'[c] <= Len(rows[c])
  PROVE  RowsInv'
<1>1. \A c \in Chat : \A i \in DOMAIN rows[c] : rows[c][i].send \in Send
  BY Typed, TypedRows DEF IInv
<1> QED  BY <1>1 DEF RowsInv, PostsAlike, IInv

LEMMA TaskKept ==
  ASSUME PostsAlike, rows' = rows, NEW u, TaskInv(u)
  PROVE  TaskInv(u)'
  BY DEF TaskInv, PostsAlike

-----------------------------------------------------------------------------
(***************************************************************************)
(* Steps that only touch what is awaited.                                  *)
(***************************************************************************)
LEMMA TasksOnly ==
  ASSUME IInv, tasks' \subseteq Task, created' \in 0..MaxChats,
         uses' \in 0..MaxUses, faults' \in 0..MaxFaults,
         UNCHANGED <<rows, post, session, workspace, thread, history>>,
         \A u \in tasks' : TaskInv(u),
         session # "in" => \A u \in tasks' : u.for = "gone",
         \A u \in tasks' : u.op = "open" /\ u.state = "answered" => u \in tasks \/ u.n = Len(rows[u.chat])
  PROVE  IInv'
<1>0. TypeOK /\ RowsInv /\ ThreadInv /\ CompleteIsStored /\ SessionInv /\ ReadInv /\ RowsShown
  BY DEF IInv
<1>1. TypeOK'
  BY <1>0 DEF TypeOK, workspace, history
<1>2. (\A s \in Send : PostInv(s)') /\ PostsAlike
  BY PostsUnchanged
<1>3. RowsInv'
  BY <1>0 DEF RowsInv, history
<1>4. ThreadInv'
  BY <1>0 DEF ThreadInv, SendingInv
<1>5. CompleteIsStored' /\ RowsShown'
  BY <1>0 DEF CompleteIsStored, RowsShown, history
<1>6. SessionInv'
  BY <1>0 DEF SessionInv, workspace
<1>7. \A u \in tasks' : TaskInv(u)'
  BY <1>2, TaskKept
<1>8. ReadInv'
  <2>1. ASSUME session = "in", NEW u \in tasks', u.op = "open", u.state = "answered",
               NEW j \in DOMAIN rows[u.chat], j > u.n, j > newest[u.chat]
        PROVE  rows[u.chat][j].send \in unseen \/ rows[u.chat][j].send = thread.sending
    <3>1. CASE u \in tasks
      BY <1>0, <2>1, <3>1 DEF ReadInv
    <3>2. CASE u.n = Len(rows[u.chat])
      <4>1. u.chat \in Chat
        BY <2>1 DEF TaskInv
      <4>2. Len(rows[u.chat]) \in Nat /\ DOMAIN rows[u.chat] = 1..Len(rows[u.chat])
        BY <1>0, <4>1, Typed, TypedRows
      <4> QED  BY <2>1, <3>2, <4>2
    <3> QED  BY <2>1, <3>1, <3>2
  <2> QED  BY <1>0, <2>1 DEF ReadInv, Awaited, workspace, history
<1> QED  BY <1>1, <1>2, <1>3, <1>4, <1>5, <1>6, <1>7, <1>8 DEF IInv

LEMMA Requested ==
  ASSUME NEW op \in {"list", "create", "open", "confirm"},
         NEW for \in {"mount", "new", "click", "reply", "confirm", "gone"},
         NEW c \in 0..MaxChats, NEW s \in 0..MaxSends
  PROVE  LET u == Request(op, for, c, s) IN
         /\ u \in Task /\ u.op = op /\ u.for = for /\ u.chat = c /\ u.send = s
         /\ u.state = "asked" /\ u.n = 0
  BY DEF Request, Task

LEMMA ByNewChat ==
  ASSUME IInv, NewChat
  PROVE  IInv'
<1> DEFINE u == Request("create", "new", 0, 0)
<1>1. /\ u \in Task /\ u.op = "create" /\ u.for = "new" /\ u.state = "asked"
  BY Requested, Bounds
<1>2. tasks' = tasks \cup {u} /\ session = "in"
  BY DEF NewChat
<1> HIDE DEF u
<1>3. TaskInv(u)
  BY <1>1 DEF TaskInv
<1>4. TypeOK /\ tasks \subseteq Task /\ \A v \in tasks : TaskInv(v)
  BY Typed DEF IInv
<1>5. uses' \in 0..MaxUses /\ faults' \in 0..MaxFaults
  BY <1>4, Counted DEF NewChat
<1>6. created' \in 0..MaxChats
  BY <1>4 DEF TypeOK, NewChat, server
<1> QED  BY <1>1, <1>2, <1>3, <1>4, <1>5, <1>6, TasksOnly DEF NewChat, server, bounds

\* A request that has been answered, or refused.
LEMMA TaskAnswered ==
  ASSUME NEW u \in Task, NEW n \in Nat, NEW state \in {"answered", "failed"}
  PROVE  LET v == [u EXCEPT !.state = state, !.n = n] IN
         /\ v \in Task /\ v.op = u.op /\ v.for = u.for /\ v.chat = u.chat /\ v.send = u.send
         /\ v.state = state /\ v.n = n
  BY DEF Task

LEMMA ByServe ==
  ASSUME IInv, NEW u \in tasks, Serve(u)
  PROVE  IInv'
<1> DEFINE n == CASE u.op = "open" -> Len(rows[u.chat])
                  [] u.op = "confirm" -> 0
                  [] OTHER -> created'
           v == [u EXCEPT !.state = "answered", !.n = n]
<1>0. TypeOK /\ u \in Task /\ tasks \subseteq Task /\ (\A w \in tasks : TaskInv(w)) /\ SessionInv
  BY Typed DEF IInv
<1>1. /\ created' \in 0..MaxChats /\ (u.op = "create" => created' \in Chat)
  <2>1. created \in 0..MaxChats
    BY <1>0 DEF TypeOK
  <2> QED  BY <2>1, Bounds DEF Serve
<1>2. TaskInv(u)
  BY <1>0
<1>3. u.op = "open" => u.chat \in Chat /\ Len(rows[u.chat]) \in Nat /\ DOMAIN rows[u.chat] = 1..Len(rows[u.chat])
  BY <1>0, <1>2, Typed, TypedRows DEF TaskInv
<1>4. n \in Nat
  BY <1>1, <1>3, Bounds
<1>5. /\ (u.op = "open" => n = Len(rows[u.chat]))
      /\ (u.op \in {"list", "create"} => n = created')
  OBVIOUS
<1>6. tasks' = (tasks \ {u}) \cup {v}
  BY DEF Serve
<1> HIDE DEF n
<1>7. /\ v \in Task /\ v.op = u.op /\ v.for = u.for /\ v.chat = u.chat /\ v.send = u.send
      /\ v.state = "answered" /\ v.n = n
  BY <1>0, <1>4, TaskAnswered
<1> HIDE DEF v
<1>8. TaskInv(v)
  BY <1>1, <1>2, <1>3, <1>5, <1>7 DEF TaskInv
<1>9. session # "in" => \A w \in tasks' : w.for = "gone"
  BY <1>0, <1>6, <1>7 DEF SessionInv
<1>10. faults' \in 0..MaxFaults /\ uses' \in 0..MaxUses
  BY <1>0, Counted DEF Serve, bounds
<1>11. \A w \in tasks' : w.op = "open" /\ w.state = "answered" => w \in tasks \/ w.n = Len(rows[w.chat])
  BY <1>5, <1>6, <1>7
<1>12. tasks' \subseteq Task /\ \A w \in tasks' : TaskInv(w)
  BY <1>0, <1>6, <1>7, <1>8
<1> QED  BY <1>1, <1>9, <1>10, <1>11, <1>12, TasksOnly DEF Serve

LEMMA ByRefuse ==
  ASSUME IInv, NEW u \in tasks, Refuse(u)
  PROVE  IInv'
<1> DEFINE v == [u EXCEPT !.state = "failed"]
<1>0. TypeOK /\ u \in Task /\ tasks \subseteq Task /\ (\A w \in tasks : TaskInv(w)) /\ SessionInv
  BY Typed DEF IInv
<1>1. created' \in 0..MaxChats
  <2>1. created \in 0..MaxChats
    BY <1>0 DEF TypeOK
  <2> QED  BY <2>1, Bounds DEF Refuse
<1>2. TaskInv(u) /\ u.state = "asked"
  BY <1>0 DEF Refuse
<1>6. tasks' = (tasks \ {u}) \cup {v}
  BY DEF Refuse
<1>7. /\ v \in Task /\ v.op = u.op /\ v.for = u.for /\ v.chat = u.chat /\ v.send = u.send
      /\ v.state = "failed"
  BY <1>0 DEF Task
<1> HIDE DEF v
<1>8. TaskInv(v)
  BY <1>2, <1>7 DEF TaskInv
<1>9. session # "in" => \A w \in tasks' : w.for = "gone"
  BY <1>0, <1>6, <1>7 DEF SessionInv
<1>10. faults' \in 0..MaxFaults /\ uses' \in 0..MaxUses
  BY <1>0, Counted DEF Refuse
<1>11. \A w \in tasks' : w.op = "open" /\ w.state = "answered" => w \in tasks \/ w.n = Len(rows[w.chat])
  BY <1>6, <1>7
<1>12. tasks' \subseteq Task /\ \A w \in tasks' : TaskInv(w)
  BY <1>0, <1>6, <1>7, <1>8
<1> QED  BY <1>1, <1>9, <1>10, <1>11, <1>12, TasksOnly DEF Refuse

LEMMA ByChatCreated ==
  ASSUME IInv, NEW u \in tasks, ChatCreated(u)
  PROVE  IInv'
<1> DEFINE v == Request("list", "new", u.n, 0)
<1>0. TypeOK /\ u \in Task /\ tasks \subseteq Task /\ (\A w \in tasks : TaskInv(w)) /\ SessionInv
  BY Typed DEF IInv
<1>1. u.n \in Chat /\ u.n \in 0..MaxChats
  BY <1>0, Bounds DEF TaskInv, ChatCreated
<1>2. v \in Task /\ v.op = "list" /\ v.for = "new" /\ v.state = "asked" /\ v.chat = u.n
  BY <1>1, Requested, Bounds
<1>3. tasks' = (tasks \ {u}) \cup (IF u.for = "gone" THEN {} ELSE {v})
  BY DEF ChatCreated, Rest
<1> HIDE DEF v
<1>4. TaskInv(v)
  BY <1>1, <1>2 DEF TaskInv
<1>5. session # "in" => \A w \in tasks' : w.for = "gone"
  BY <1>0, <1>3 DEF SessionInv
<1>6. faults' \in 0..MaxFaults /\ uses' \in 0..MaxUses /\ created' \in 0..MaxChats
  <2>1. created \in 0..MaxChats
    BY <1>0 DEF TypeOK
  <2> QED  BY <1>0, <2>1, Counted DEF ChatCreated, bounds, server
<1>7. \A w \in tasks' : w.op = "open" /\ w.state = "answered" => w \in tasks
  BY <1>2, <1>3
<1>8. tasks' \subseteq Task /\ \A w \in tasks' : TaskInv(w)
  BY <1>0, <1>2, <1>3, <1>4
<1> QED  BY <1>5, <1>6, <1>7, <1>8, TasksOnly DEF ChatCreated, server

-----------------------------------------------------------------------------
(***************************************************************************)
(* Rendering.                                                              *)
(***************************************************************************)
\* A thread that shows the rows of a chat that were read, and awaits nothing.
IsFresh(r, a) ==
  /\ a.chat # 0 /\ r.chat = a.chat /\ r.sending = 0 /\ r.checkpoint = 0 /\ r.confirming = 0
  /\ DOMAIN r.messages = 1..a.upTo
  /\ \A i \in 1..a.upTo :
       /\ i \in DOMAIN rows[a.chat]
       /\ r.messages[i].role = rows[a.chat][i].role /\ r.messages[i].send = rows[a.chat][i].send
       /\ r.messages[i].status = "complete" => r.messages[i].role = "assistant"

LEMMA FreshIs ==
  ASSUME rows \in [Chat -> Seq(Row)], NEW a, a.chat \in Chat, a.upTo \in Nat, a.upTo <= Len(rows[a.chat])
  PROVE  Fresh(a) \in ThreadType /\ IsFresh(Fresh(a), a)
<1> DEFINE Shows(row) == [role |-> row.role, send |-> row.send, text |-> Full,
                          status |-> IF row.role = "assistant" THEN "complete" ELSE "none"]
           ms == [i \in 1..a.upTo |-> Shows(rows[a.chat][i])]
<1>1. Len(rows[a.chat]) \in Nat /\ DOMAIN rows[a.chat] = 1..Len(rows[a.chat])
      /\ \A i \in DOMAIN rows[a.chat] : rows[a.chat][i] \in Row
  BY TypedRows
<1>2. \A i \in 1..a.upTo : i \in DOMAIN rows[a.chat]
  BY <1>1
<1>3. ASSUME NEW row \in Row
      PROVE  /\ Shows(row) \in Message /\ Shows(row).role = row.role /\ Shows(row).send = row.send
             /\ Shows(row).status = "complete" => Shows(row).role = "assistant"
  <2>1. Full \in 0..Full
    BY Bounds DEF Full
  <2> QED  BY <2>1 DEF Row, Message
<1> HIDE DEF Shows
<1>4. ms \in Seq(Message) /\ DOMAIN ms = 1..a.upTo /\ \A i \in 1..a.upTo : ms[i] = Shows(rows[a.chat][i])
  BY <1>1, <1>2, <1>3
<1>5. Fresh(a) = [NoThread EXCEPT !.chat = a.chat, !.messages = ms]
  BY DEF Fresh, Shows
<1> HIDE DEF ms
<1>6. /\ Fresh(a).chat = a.chat /\ Fresh(a).sending = 0 /\ Fresh(a).checkpoint = 0 /\ Fresh(a).confirming = 0
      /\ Fresh(a).messages = ms
  BY <1>5 DEF NoThread
<1>7. Fresh(a) \in ThreadType
  <2>1. Fresh(a) = [chat |-> a.chat, messages |-> ms, sending |-> 0, checkpoint |-> 0, confirming |-> 0]
    BY <1>5 DEF NoThread
  <2>2. a.chat \in 0..MaxChats /\ 0 \in 0..MaxSends /\ ms \in Seq(Message)
    BY <1>4, Bounds
  <2> QED  BY <2>1, <2>2 DEF ThreadType
<1>8. a.chat # 0
  BY Bounds
<1> QED  BY <1>1, <1>2, <1>3, <1>4, <1>6, <1>7, <1>8 DEF IsFresh

LEMMA RenderedIs ==
  ASSUME rows \in [Chat -> Seq(Row)], NEW p, NEW f, NEW a, NEW u \in ThreadType,
         a.chat \in 0..MaxChats, a.upTo \in Nat, a.chat # 0 => a.upTo <= Len(rows[a.chat])
  PROVE  /\ Rendered(p, f, a, u) \in ThreadType
         /\ Rendered(p, f, a, u).chat = Displayed(p, f, a)
         /\ \/ Rendered(p, f, a, u) = NoThread
            \/ Rendered(p, f, a, u) = u /\ u.chat # 0
            \/ IsFresh(Rendered(p, f, a, u), a) /\ a.chat # u.chat
<1>1. NoThread \in ThreadType /\ NoThread.chat = 0
  BY Bounds DEF NoThread, ThreadType
<1>2. CASE Displayed(p, f, a) = 0
  BY <1>1, <1>2 DEF Rendered
<1>3. CASE Displayed(p, f, a) # 0 /\ Displayed(p, f, a) = u.chat
  BY <1>3 DEF Rendered
<1>4. CASE Displayed(p, f, a) # 0 /\ Displayed(p, f, a) # u.chat
  <2>1. Displayed(p, f, a) = a.chat /\ a.chat \in Chat /\ a.chat # 0 /\ a.chat # u.chat
    BY <1>4, Bounds DEF Displayed
  <2>2. Rendered(p, f, a, u) = Fresh(a)
    BY <1>4 DEF Rendered
  <2>3. Fresh(a) \in ThreadType /\ IsFresh(Fresh(a), a)
    BY <2>1, FreshIs
  <2> QED  BY <2>1, <2>2, <2>3 DEF IsFresh
<1> QED  BY <1>2, <1>3, <1>4

\* What a handler has made of the thread before it is rendered.
Kin(u) ==
  /\ u \in ThreadType /\ u.chat = thread.chat /\ DOMAIN u.messages = DOMAIN thread.messages
  /\ \A i \in DOMAIN thread.messages :
       /\ u.messages[i].role = thread.messages[i].role /\ u.messages[i].send = thread.messages[i].send
       /\ u.messages[i].status = "complete" => thread.messages[i].status = "complete"
  /\ u.sending \in {0, thread.sending} /\ (u.sending # 0 => u.messages = thread.messages)
  /\ u.checkpoint \in {0, thread.checkpoint}
  /\ thread.chat = 0 => u = NoThread

\* The frame of a rendering step.
Frame(u, missed) ==
  /\ Kin(u) /\ missed \subseteq Send /\ Render(u, missed)
  /\ session = "in" /\ session' = "in" /\ rows' = rows /\ PostsAlike
  /\ active'.chat \in 0..MaxChats /\ active'.upTo \in Nat
  /\ active'.chat # 0 => active'.upTo <= Len(rows[active'.chat])

LEMMA FrameIs ==
  ASSUME IInv, NEW u, NEW missed, Frame(u, missed)
  PROVE  /\ thread' \in ThreadType /\ thread'.chat = Displayed(page', failed', active')
         /\ \/ thread' = NoThread
            \/ thread' = u /\ u.chat # 0
            \/ IsFresh(thread', active') /\ active'.chat # u.chat
         /\ unseen' \subseteq Send /\ unseen \subseteq unseen' /\ missed \subseteq unseen'
<1>1. rows \in [Chat -> Seq(Row)] /\ unseen \subseteq Send
  BY DEF IInv, TypeOK
<1>2. u \in ThreadType /\ thread' = Rendered(page', failed', active', u)
      /\ unseen' = unseen \cup missed \cup
            (IF u.sending # 0 /\ thread'.chat # u.chat THEN {u.sending} ELSE {})
  BY DEF Frame, Kin, Render
<1>3. u.sending # 0 => u.sending \in Send
  BY <1>2, Bounds DEF ThreadType
<1>4. /\ active'.chat \in 0..MaxChats /\ active'.upTo \in Nat
      /\ active'.chat # 0 => active'.upTo <= Len(rows[active'.chat])
  BY DEF Frame
<1>5. /\ Rendered(page', failed', active', u) \in ThreadType
      /\ Rendered(page', failed', active', u).chat = Displayed(page', failed', active')
      /\ \/ Rendered(page', failed', active', u) = NoThread
         \/ Rendered(page', failed', active', u) = u /\ u.chat # 0
         \/ IsFresh(Rendered(page', failed', active', u), active') /\ active'.chat # u.chat
  BY <1>1, <1>2, <1>4, RenderedIs
<1>6. unseen' \subseteq Send /\ unseen \subseteq unseen' /\ missed \subseteq unseen'
  BY <1>1, <1>2, <1>3 DEF Frame
<1> QED  BY <1>2, <1>5, <1>6

LEMMA FrameThread ==
  ASSUME IInv, NEW u, NEW missed, Frame(u, missed)
  PROVE  ThreadInv' /\ CompleteIsStored' /\ SessionInv'
<1>0. TypeOK /\ ThreadInv /\ CompleteIsStored /\ RowsInv /\ rows \in [Chat -> Seq(Row)] /\ thread \in ThreadType
  BY Typed DEF IInv
<1>1. PostsAlike /\ rows' = rows /\ session' = "in" /\ Kin(u)
  BY DEF Frame
<1>2. \/ thread' = NoThread
      \/ thread' = u /\ u.chat # 0
      \/ IsFresh(thread', active') /\ active'.chat # u.chat
  BY FrameIs
<1>3. SessionInv'
  BY <1>1 DEF SessionInv
<1>4. CASE thread' = NoThread
  <2>1. DOMAIN thread'.messages = {} /\ thread'.sending = 0 /\ thread'.checkpoint = 0
    BY <1>4 DEF NoThread
  <2> QED  BY <1>3, <1>4, <2>1 DEF ThreadInv, CompleteIsStored
<1>5. CASE thread' = u /\ u.chat # 0
  <2>1. \A i \in DOMAIN thread'.messages : post'[thread'.messages[i].send].server # "idle"
    BY <1>0, <1>1, <1>5, TypedMessages DEF Kin, ThreadInv, PostsAlike
  <2>2. thread'.checkpoint # 0 => post'[thread'.checkpoint].server # "idle"
    <3>1. thread.checkpoint # 0 => thread.checkpoint \in Send
      BY <1>0, Bounds DEF ThreadType
    <3> QED  BY <1>0, <1>1, <1>5, <3>1 DEF Kin, ThreadInv, PostsAlike
  <2>3. ASSUME NEW s, s = thread'.sending, s # 0  PROVE SendingInv(s)'
    <3>1. thread'.sending = thread.sending /\ thread.sending # 0 /\ thread'.messages = thread.messages
          /\ thread'.chat = thread.chat /\ thread'.checkpoint \in {0, thread.checkpoint}
      BY <1>1, <1>5, <2>3 DEF Kin
    <3>2. SendingInv(thread.sending) /\ thread.sending \in Send
      BY <1>0, <3>1, Bounds DEF ThreadInv, ThreadType
    <3>3. post'[thread.sending].server = post[thread.sending].server
          /\ post'[thread.sending].chat = post[thread.sending].chat
          /\ post'[thread.sending].handed = post[thread.sending].handed
      BY <1>1, <3>2 DEF PostsAlike
    <3>4. thread'.checkpoint <= thread.sending
      BY <3>1, <3>2, Bounds DEF SendingInv
    <3> QED  BY <2>3, <3>1, <3>2, <3>3, <3>4 DEF SendingInv
  <2>4. ThreadInv'
    <3>1. (thread.sending # 0 => SendingInv(thread.sending))'
      BY <2>3 DEF SendingInv
    <3> QED  BY <1>5, <2>1, <2>2, <3>1 DEF ThreadInv
  <2>5. CompleteIsStored'
    BY <1>0, <1>1, <1>5 DEF CompleteIsStored, Kin
  <2> QED  BY <1>3, <2>4, <2>5
<1>6. CASE IsFresh(thread', active')
  <2>1. /\ thread'.chat = active'.chat /\ thread'.chat # 0 /\ thread'.sending = 0 /\ thread'.checkpoint = 0
        /\ active'.chat \in Chat
    BY <1>6, Bounds DEF IsFresh, Frame
  <2>2. ASSUME NEW i \in DOMAIN thread'.messages
        PROVE  /\ i \in DOMAIN rows[thread'.chat]
               /\ thread'.messages[i].role = rows[thread'.chat][i].role
               /\ thread'.messages[i].send = rows[thread'.chat][i].send
               /\ thread'.messages[i].status = "complete" => thread'.messages[i].role = "assistant"
    BY <1>6 DEF IsFresh
  <2>3. \A i \in DOMAIN thread'.messages : post'[thread'.messages[i].send].server # "idle"
    <3>1. ASSUME NEW i \in DOMAIN thread'.messages
          PROVE  post'[thread'.messages[i].send].server # "idle"
      <4>1. i \in DOMAIN rows[thread'.chat] /\ thread'.messages[i].send = rows[thread'.chat][i].send
        BY <2>2
      <4>2. rows[thread'.chat][i].send \in Send
        BY <1>0, <2>1, <4>1, TypedRows
      <4>3. post[rows[thread'.chat][i].send].server \in {"working", "done"}
        BY <1>0, <2>1, <4>1 DEF RowsInv
      <4> QED  BY <1>1, <4>1, <4>2, <4>3 DEF PostsAlike
    <3> QED  BY <3>1
  <2>4. ThreadInv'
    BY <2>1, <2>3 DEF ThreadInv
  <2>5. CompleteIsStored'
    BY <1>1, <2>2 DEF CompleteIsStored
  <2> QED  BY <1>3, <2>4, <2>5
<1> QED  BY <1>2, <1>4, <1>5, <1>6

\* Who looks for a message after the step.
LEMMA FrameAwaits ==
  ASSUME IInv, NEW u, NEW missed, Frame(u, missed), NEW s \in Send, s \in unseen \/ s = thread.sending
  PROVE  s \in unseen' \/ s = thread'.sending \/ (s = thread.sending /\ u.sending = 0)
<1>1. unseen \subseteq unseen'
  BY FrameIs
<1>2. CASE s \in unseen
  BY <1>1, <1>2
<1>3. CASE s = thread.sending /\ u.sending # 0
  <2>1. s # 0 /\ u.sending = s /\ u.chat = thread.chat
    BY <1>3, Bounds DEF Frame, Kin
  <2>2. thread.chat # 0
    BY <1>3, <2>1 DEF IInv, ThreadInv, NoThread
  <2>3. CASE thread'.chat # u.chat
    BY <2>1, <2>3 DEF Frame, Render
  <2>4. CASE thread'.chat = u.chat
    <3>1. thread' = u
      BY <2>1, <2>2, <2>4, FrameIs DEF NoThread, IsFresh
    <3> QED  BY <2>1, <3>1
  <2> QED  BY <2>3, <2>4
<1> QED  BY <1>2, <1>3

LEMMA FrameShows ==
  ASSUME IInv, NEW u, NEW missed, Frame(u, missed),
         (active.chat # 0 => Awaited(active.chat, active.upTo))'
  PROVE  RowsShown'
<1>0. TypeOK /\ RowsShown /\ rows \in [Chat -> Seq(Row)]
  BY Typed DEF IInv
<1>1. rows' = rows /\ Kin(u)
  BY DEF Frame
<1>2. /\ \/ thread' = NoThread
         \/ thread' = u /\ u.chat # 0
         \/ IsFresh(thread', active') /\ active'.chat # u.chat
      /\ unseen \subseteq unseen'
  BY FrameIs
<1>3. CASE thread' = NoThread
  BY <1>3 DEF RowsShown, NoThread
<1>4. CASE thread' = u /\ u.chat # 0
  BY <1>0, <1>1, <1>2, <1>4 DEF RowsShown, Kin
<1>5. CASE IsFresh(thread', active')
  <2> SUFFICES ASSUME NEW j \in DOMAIN rows[thread'.chat]
               PROVE  \/ rows[thread'.chat][j].send \in unseen'
                      \/ \E i \in DOMAIN thread'.messages :
                           /\ thread'.messages[i].role = rows[thread'.chat][j].role
                           /\ thread'.messages[i].send = rows[thread'.chat][j].send
    BY <1>1 DEF RowsShown
  <2>1. /\ thread'.chat = active'.chat /\ thread'.chat # 0 /\ thread'.sending = 0
        /\ active'.chat \in Chat /\ active'.upTo \in Nat
    BY <1>5, Bounds DEF IsFresh, Frame
  <2>2. j \in Nat /\ j >= 1 /\ rows[thread'.chat][j].send \in Send
    BY <1>0, <2>1, TypedRows
  <2>3. CASE j <= active'.upTo
    <3>1. j \in 1..active'.upTo
      BY <2>1, <2>2, <2>3
    <3> QED  BY <1>5, <2>1, <3>1 DEF IsFresh
  <2>4. CASE j > active'.upTo
    <3>1. rows[thread'.chat][j].send \in unseen' \/ rows[thread'.chat][j].send = thread'.sending
      BY <1>1, <2>1, <2>4 DEF Awaited
    <3> QED  BY <2>1, <2>2, <3>1, Bounds
  <2> QED  BY <2>1, <2>2, <2>3, <2>4
<1> QED  BY <1>2, <1>3, <1>4, <1>5

\* What no one has read yet still has someone who looks for it.
LEMMA FrameReads ==
  ASSUME IInv, NEW u, NEW missed, Frame(u, missed),
         u.sending = thread.sending \/ thread.sending \in missed,
         active' = active, newest' = newest,
         \A k \in tasks' : k.op = "open" /\ k.state = "answered" => k \in tasks
  PROVE  ReadInv' /\ RowsShown'
<1>0. TypeOK /\ ReadInv /\ rows \in [Chat -> Seq(Row)] /\ (\A k \in tasks : TaskInv(k))
      /\ active.chat \in 0..MaxChats
  BY Typed DEF IInv
<1>1. rows' = rows /\ PostsAlike /\ session = "in" /\ session' = "in"
  BY DEF Frame
<1>2. missed \subseteq unseen'
  BY FrameIs
<1>3. ASSUME NEW s \in Send, s \in unseen \/ s = thread.sending
      PROVE  s \in unseen' \/ s = thread'.sending
  <2>1. s \in unseen' \/ s = thread'.sending \/ (s = thread.sending /\ u.sending = 0)
    BY <1>3, FrameAwaits
  <2>2. s # 0
    BY Bounds
  <2> QED  BY <1>2, <2>1, <2>2
<1>4. ASSUME NEW c \in Chat, NEW j \in DOMAIN rows[c],
             rows[c][j].send \in unseen \/ rows[c][j].send = thread.sending
      PROVE  rows[c][j].send \in unseen' \/ rows[c][j].send = thread'.sending
  <2>1. rows[c][j].send \in Send
    BY <1>0, TypedRows
  <2> QED  BY <1>3, <1>4, <2>1
<1>5. \A s \in Send :
        post'[s].server \in {"asked", "working"} => s \in unseen' \/ s = thread'.sending
  BY <1>0, <1>1, <1>3 DEF ReadInv, PostsAlike
<1>6. (active.chat # 0 => active.upTo <= Len(rows[active.chat]) /\ Awaited(active.chat, active.upTo))'
  <2>1. CASE active.chat = 0
    BY <2>1
  <2>2. CASE active.chat # 0
    <3>1. active.chat \in Chat /\ active.upTo <= Len(rows[active.chat]) /\ Awaited(active.chat, active.upTo)
      BY <1>0, <1>1, <2>2, Bounds DEF ReadInv
    <3> QED  BY <1>1, <1>4, <3>1 DEF Awaited
  <2> QED  BY <2>1, <2>2
<1>7. ASSUME NEW k \in tasks', k.op = "open", k.state = "answered",
             NEW j \in DOMAIN rows[k.chat], j > k.n, j > newest[k.chat]
      PROVE  rows[k.chat][j].send \in unseen' \/ rows[k.chat][j].send = thread'.sending
  <2>1. k \in tasks /\ k.chat \in Chat
    BY <1>0, <1>7 DEF TaskInv
  <2>2. rows[k.chat][j].send \in unseen \/ rows[k.chat][j].send = thread.sending
    BY <1>0, <1>1, <1>7, <2>1 DEF ReadInv
  <2> QED  BY <1>4, <2>1, <2>2
<1>8. ReadInv'
  BY <1>1, <1>5, <1>6, <1>7 DEF ReadInv
<1>9. RowsShown'
  BY <1>6, FrameShows
<1> QED  BY <1>8, <1>9

\* The answer to a request for a chat is shown; the message whose reply it
\* followed is looked for no longer, and all its rows are in the answer.
LEMMA FrameOpens ==
  ASSUME IInv, NEW u, NEW k \in tasks, k.op = "open", k.state = "answered",
         Frame(u, Overtaken(k.chat, k.n)), ShowChat(k), tasks' \subseteq tasks,
         u.sending = thread.sending \/ (k.for = "reply" /\ thread.sending = k.send)
  PROVE  ReadInv' /\ RowsShown' /\ newest' \in [Chat -> Nat] /\ RowsInv'
<1>0. TypeOK /\ ReadInv /\ RowsInv /\ rows \in [Chat -> Seq(Row)] /\ (\A v \in tasks : TaskInv(v))
      /\ TaskInv(k) /\ k \in Task
  BY Typed DEF IInv
<1>1. rows' = rows /\ PostsAlike /\ session = "in" /\ session' = "in"
  BY DEF Frame
<1>2. k.chat \in Chat /\ k.n \in Nat /\ k.n <= Len(rows[k.chat])
  BY <1>0 DEF TaskInv, Task
<1>3. newest \in [Chat -> Nat] /\ \A c \in Chat : newest[c] <= Len(rows[c])
  BY <1>0 DEF TypeOK, RowsInv
<1>4. newest' \in [Chat -> Nat] /\ (\A c \in Chat : newest'[c] <= Len(rows[c]))
      /\ (\A c \in Chat : newest[c] <= newest'[c]) /\ k.n <= newest'[k.chat]
  <2>1. newest' = [newest EXCEPT ![k.chat] = IF k.n > @ THEN k.n ELSE @]
    BY DEF ShowChat
  <2> QED  BY <1>2, <1>3, <2>1
<1>5. RowsInv'
  BY <1>1, <1>4, RowsKept
<1>6. unseen \subseteq unseen' /\ Overtaken(k.chat, k.n) \subseteq unseen'
  BY FrameIs
<1>7. active'.chat = k.chat /\ active'.upTo = k.n
  BY DEF ShowChat
<1>8. ASSUME NEW c \in Chat, NEW j \in DOMAIN rows[c],
             rows[c][j].send \in unseen \/ rows[c][j].send = thread.sending, c # k.chat \/ j > k.n
      PROVE  rows[c][j].send \in unseen' \/ rows[c][j].send = thread'.sending
  <2> DEFINE s == rows[c][j].send
  <2>1. s \in Send /\ post[s].chat = c
    BY <1>0, TypedRows DEF RowsInv
  <2>2. s \in unseen' \/ s = thread'.sending \/ (s = thread.sending /\ u.sending = 0)
    BY <1>8, <2>1, FrameAwaits
  <2>3. ASSUME s = thread.sending, u.sending = 0  PROVE FALSE
    <3>1. k.for = "reply" /\ s = k.send
      BY <2>1, <2>3, Bounds
    <3>2. post[k.send].chat = k.chat /\ \A i \in DOMAIN rows[k.chat] : rows[k.chat][i].send = k.send => i <= k.n
      BY <1>0, <3>1 DEF TaskInv
    <3>3. c = k.chat /\ j <= k.n /\ j \in Nat
      BY <1>0, <2>1, <3>1, <3>2, TypedRows
    <3> QED  BY <1>2, <1>8, <3>3
  <2> QED  BY <2>2, <2>3
<1>9. \A s \in Send :
        post'[s].server \in {"asked", "working"} => s \in unseen' \/ s = thread'.sending
  <2>1. ASSUME NEW s \in Send, post[s].server \in {"asked", "working"}
        PROVE  s \in unseen' \/ s = thread'.sending
    <3>1. s \in unseen \/ s = thread.sending
      BY <1>0, <1>1, <2>1 DEF ReadInv
    <3>2. s \in unseen' \/ s = thread'.sending \/ (s = thread.sending /\ u.sending = 0)
      BY <3>1, FrameAwaits
    <3>3. k.for = "reply" => post[k.send].server = "done"
      BY <1>0 DEF TaskInv
    <3>4. s # 0
      BY Bounds
    <3> QED  BY <2>1, <3>2, <3>3, <3>4
  <2> QED  BY <1>1, <2>1 DEF PostsAlike
<1>10. ASSUME NEW j \in DOMAIN rows[k.chat], j > k.n
       PROVE  rows[k.chat][j].send \in unseen' \/ rows[k.chat][j].send = thread'.sending
  <2>1. j \in Nat /\ newest[k.chat] \in Nat
    BY <1>0, <1>2, <1>3, TypedRows
  <2>2. CASE j <= newest[k.chat]
    <3>1. j \in (k.n + 1)..newest[k.chat]
      BY <1>2, <1>10, <2>1, <2>2
    <3> QED  BY <1>6, <3>1 DEF Overtaken
  <2>3. CASE j > newest[k.chat]
    <3>1. rows[k.chat][j].send \in unseen \/ rows[k.chat][j].send = thread.sending
      BY <1>0, <1>1, <1>10, <2>3 DEF ReadInv
    <3> QED  BY <1>2, <1>8, <1>10, <3>1
  <2> QED  BY <2>1, <2>2, <2>3
<1>11. (active.chat # 0 => active.upTo <= Len(rows[active.chat]) /\ Awaited(active.chat, active.upTo))'
  BY <1>1, <1>2, <1>7, <1>10 DEF Awaited
<1>12. ASSUME NEW v \in tasks', v.op = "open", v.state = "answered",
              NEW j \in DOMAIN rows[v.chat], j > v.n, j > newest'[v.chat]
       PROVE  rows[v.chat][j].send \in unseen' \/ rows[v.chat][j].send = thread'.sending
  <2>1. v \in tasks /\ v.chat \in Chat
    BY <1>0, <1>12 DEF TaskInv
  <2>2. j \in Nat /\ newest[v.chat] \in Nat /\ newest'[v.chat] \in Nat /\ newest[v.chat] <= newest'[v.chat]
    BY <1>0, <1>3, <1>4, <2>1, TypedRows
  <2>3. rows[v.chat][j].send \in unseen \/ rows[v.chat][j].send = thread.sending
    BY <1>0, <1>1, <1>12, <2>1, <2>2 DEF ReadInv
  <2>4. v.chat # k.chat \/ j > k.n
    BY <1>2, <1>4, <1>12, <2>1, <2>2
  <2> QED  BY <1>8, <2>1, <2>3, <2>4
<1>13. ReadInv'
  BY <1>1, <1>9, <1>11, <1>12 DEF ReadInv
<1>14. RowsShown'
  BY <1>11, FrameShows
<1> QED  BY <1>4, <1>5, <1>13, <1>14

LEMMA RenderStep ==
  ASSUME IInv, NEW u, NEW missed, Frame(u, missed), created' = created,
         post' \in [Send -> PostType], \A s \in Send : PostInv(s)',
         ReadInv', RowsShown', RowsInv', newest' \in [Chat -> Nat],
         page' \in {"chat", "other"}, list' \in 0..MaxChats, active' \in [chat : 0..MaxChats, upTo : Nat],
         failed' \in BOOLEAN, loading' \in BOOLEAN,
         tasks' \subseteq Task, \A k \in tasks' : TaskInv(k)',
         uses' \in 0..MaxUses, faults' \in 0..MaxFaults
  PROVE  IInv'
<1>1. created \in 0..MaxChats /\ rows \in [Chat -> Seq(Row)]
  BY DEF IInv, TypeOK
<1>2. /\ thread' \in ThreadType /\ thread'.chat = Displayed(page', failed', active') /\ unseen' \subseteq Send
  BY FrameIs
<1>3. rows' = rows /\ session' = "in"
  BY DEF Frame
<1>4. TypeOK'
  BY <1>1, <1>2, <1>3 DEF TypeOK, PostType, ThreadType
<1>5. ThreadInv' /\ CompleteIsStored' /\ SessionInv'
  BY FrameThread
<1> QED  BY <1>4, <1>5 DEF IInv

LEMMA Workspace ==
  ASSUME TypeOK
  PROVE  /\ page \in {"chat", "other"} /\ list \in 0..MaxChats /\ active \in [chat : 0..MaxChats, upTo : Nat]
         /\ failed \in BOOLEAN /\ loading \in BOOLEAN /\ newest \in [Chat -> Nat]
  BY DEF TypeOK

LEMMA SignedIn ==
  ASSUME IInv, NEW k \in tasks, k.op # "create"
  PROVE  session = "in"
  BY DEF IInv, SessionInv, TaskInv

LEMMA Reads ==
  ASSUME IInv, session = "in"
  PROVE  active.chat # 0 => active.upTo <= Len(rows[active.chat])
  BY DEF IInv, ReadInv

LEMMA KinSelf ==
  ASSUME IInv
  PROVE  Kin(thread)
  BY Typed DEF Kin, IInv, ThreadInv

\* The page stops waiting for its message, or for an answer to its prompt.
LEMMA ThreadQuits ==
  ASSUME NEW t \in ThreadType
  PROVE  LET u == [t EXCEPT !.sending = 0] IN
         /\ u \in ThreadType /\ u.chat = t.chat /\ u.messages = t.messages
         /\ u.sending = 0 /\ u.checkpoint = t.checkpoint
  BY Bounds DEF ThreadType

LEMMA ThreadClears ==
  ASSUME NEW t \in ThreadType
  PROVE  LET v == [t EXCEPT !.checkpoint = 0] IN
         /\ v \in ThreadType /\ v.chat = t.chat /\ v.messages = t.messages
         /\ v.sending = t.sending /\ v.checkpoint = 0
  BY Bounds DEF ThreadType

LEMMA KinSettled ==
  ASSUME IInv, NEW s \in Send
  PROVE  /\ Kin(Settled(thread, s))
         /\ Settled(thread, s).sending = thread.sending \/ thread.sending = s
<1>1. CASE thread.sending # s
  BY <1>1, KinSelf DEF Settled
<1>2. CASE thread.sending = s
  <2> DEFINE u == [thread EXCEPT !.sending = 0]
  <2>1. Settled(thread, s) = u
    BY <1>2 DEF Settled
  <2>2. thread \in ThreadType /\ thread.chat # 0
    BY <1>2, Typed, Bounds DEF IInv, ThreadInv, NoThread
  <2>3. u \in ThreadType /\ u.chat = thread.chat /\ u.messages = thread.messages /\ u.sending = 0
        /\ u.checkpoint = thread.checkpoint
    BY <2>2, ThreadQuits
  <2> QED  BY <1>2, <2>1, <2>2, <2>3 DEF Kin
<1> QED  BY <1>1, <1>2

LEMMA KinAnswered ==
  ASSUME IInv, NEW s \in Send
  PROVE  /\ Kin(Answered(thread, s))
         /\ Answered(thread, s).sending = thread.sending
<1>1. CASE thread.confirming # s
  BY <1>1, KinSelf DEF Answered
<1>2. CASE thread.confirming = s
  <2> DEFINE v == [thread EXCEPT !.checkpoint = 0]
             u == [v EXCEPT !.confirming = 0]
  <2>1. Answered(thread, s) = u
    BY <1>2 DEF Answered
  <2>2. thread \in ThreadType /\ thread.chat # 0
    BY <1>2, Typed, Bounds DEF IInv, ThreadInv, NoThread
  <2>3. u \in ThreadType /\ u.chat = thread.chat /\ u.messages = thread.messages /\ u.sending = thread.sending
        /\ u.checkpoint = 0
    <3>1. v \in ThreadType /\ v.chat = thread.chat /\ v.messages = thread.messages /\ v.sending = thread.sending
          /\ v.checkpoint = 0
      BY <2>2, ThreadClears
    <3> HIDE DEF v
    <3> QED  BY <3>1, Bounds DEF ThreadType
  <2> QED  BY <1>2, <2>1, <2>2, <2>3 DEF Kin
<1> QED  BY <1>1, <1>2

\* The catch block.
LEMMA FailedIs ==
  ASSUME IInv, NEW s \in Send
  PROVE  /\ Kin(Failed(thread, s))
         /\ Failed(thread, s).sending = thread.sending \/ thread.sending = s
<1>1. CASE thread.sending # s
  BY <1>1, KinSelf DEF Failed
<1>2. CASE thread.sending = s
  <2> DEFINE ms == [i \in DOMAIN thread.messages |->
                      IF Replying(thread.messages[i], s) THEN [thread.messages[i] EXCEPT !.status = "error"]
                      ELSE thread.messages[i]]
             v == [thread EXCEPT !.messages = ms]
             u == [v EXCEPT !.sending = 0]
  <2>1. Failed(thread, s) = u
    BY <1>2 DEF Failed, WithReply
  <2>2. thread \in ThreadType /\ thread.chat # 0 /\ TypeOK
    BY <1>2, Typed, Bounds DEF IInv, ThreadInv, NoThread
  <2>3. ASSUME NEW m \in Message
        PROVE  LET e == [m EXCEPT !.status = "error"] IN
               e \in Message /\ e.role = m.role /\ e.send = m.send /\ e.status = "error"
    BY DEF Message
  <2>4. /\ ms \in Seq(Message) /\ DOMAIN ms = DOMAIN thread.messages
        /\ \A i \in DOMAIN thread.messages :
             /\ ms[i].role = thread.messages[i].role /\ ms[i].send = thread.messages[i].send
             /\ ms[i].status = "complete" => thread.messages[i].status = "complete"
    <3>1. \A i \in DOMAIN thread.messages : ms[i] \in Message
      BY <2>2, <2>3, TypedMessages
    <3>2. ms \in Seq(Message)
      <4>1. Len(thread.messages) \in Nat /\ DOMAIN ms = 1..Len(thread.messages) /\ ms = [i \in DOMAIN ms |-> ms[i]]
        BY <2>2, TypedMessages
      <4>2. \A i \in 1..Len(thread.messages) : ms[i] \in Message
        BY <2>2, <3>1, TypedMessages
      <4> HIDE DEF ms
      <4> QED  BY <4>1, <4>2, SeqOf
    <3> QED  BY <2>2, <2>3, <3>2, TypedMessages
  <2> HIDE DEF ms
  <2>5. u \in ThreadType /\ u.chat = thread.chat /\ u.messages = ms /\ u.sending = 0
        /\ u.checkpoint = thread.checkpoint
    <3>1. v \in ThreadType /\ v.chat = thread.chat /\ v.messages = ms /\ v.checkpoint = thread.checkpoint
      BY <2>2, <2>4 DEF ThreadType
    <3> HIDE DEF v
    <3>2. 0 \in 0..MaxSends
      BY Bounds
    <3> QED  BY <3>1, <3>2 DEF ThreadType
  <2> QED  BY <1>2, <2>1, <2>2, <2>4, <2>5 DEF Kin
<1> QED  BY <1>1, <1>2

\* What a step adds to the requests, and what is left of them.
LEMMA TasksAfter ==
  ASSUME IInv, PostsAlike, rows' = rows,
         \A k \in tasks' : k \in tasks \/ (k \in Task /\ TaskInv(k)' /\ k.state = "asked")
  PROVE  /\ tasks' \subseteq Task /\ \A k \in tasks' : TaskInv(k)'
         /\ \A k \in tasks' : k.op = "open" /\ k.state = "answered" => k \in tasks
<1>1. tasks \subseteq Task /\ \A k \in tasks : TaskInv(k)
  BY Typed DEF IInv
<1>2. \A k \in tasks : TaskInv(k)'
  BY <1>1, TaskKept
<1> QED  BY <1>1, <1>2

\* openChat.
LEMMA OpenAsks ==
  ASSUME NEW for \in {"mount", "new", "click", "reply", "confirm"}, NEW c \in Chat, NEW s \in 0..MaxSends,
         for = "reply" => s \in Send /\ post'[s].server = "done" /\ post'[s].chat = c
  PROVE  LET k == Request("open", for, c, s) IN k \in Task /\ TaskInv(k)' /\ k.state = "asked"
<1> DEFINE k == Request("open", for, c, s)
<1>1. /\ k \in Task /\ k.op = "open" /\ k.for = for /\ k.chat = c /\ k.send = s /\ k.state = "asked"
  <2>1. c \in 0..MaxChats
    BY Bounds
  <2>2. k.op = "open" /\ k.for = for /\ k.chat = c /\ k.send = s /\ k.state = "asked"
    BY DEF Request
  <2>3. k \in Task
    BY <2>1, Requested
  <2> QED  BY <2>2, <2>3
<1> HIDE DEF k
<1>2. TaskInv(k)'
  BY <1>1 DEF TaskInv
<1> QED  BY <1>1, <1>2 DEF k

LEMMA ByShowPage ==
  ASSUME IInv, NEW p \in {"chat", "other"}, ShowPage(p)
  PROVE  IInv'
<1>0. TypeOK /\ RowsInv
  BY DEF IInv
<1>1. post' = post /\ rows' = rows /\ created' = created /\ active' = active /\ newest' = newest /\ tasks' = tasks
      /\ session = "in" /\ session' = "in" /\ failed' = failed /\ list' = list /\ loading' = loading
  BY DEF ShowPage, server
<1>2. PostsAlike /\ post' \in [Send -> PostType] /\ \A s \in Send : PostInv(s)'
  BY <1>1, PostsUnchanged
<1>3. Frame(thread, {})
  BY <1>0, <1>1, <1>2, KinSelf, Workspace, Reads, Typed DEF Frame, ShowPage
<1>4. ReadInv' /\ RowsShown'
  BY <1>1, <1>3, FrameReads
<1>5. RowsInv'
  BY <1>0, <1>1, <1>2, RowsKept DEF RowsInv
<1>6. tasks' \subseteq Task /\ \A k \in tasks' : TaskInv(k)'
  BY <1>1, <1>2, TasksAfter
<1>7. uses' \in 0..MaxUses /\ faults' \in 0..MaxFaults
  BY <1>0, Counted DEF ShowPage
<1> QED  BY <1>0, <1>1, <1>2, <1>3, <1>4, <1>5, <1>6, <1>7, Workspace, RenderStep DEF ShowPage

LEMMA ByClickChat ==
  ASSUME IInv, NEW c \in Chat, ClickChat(c)
  PROVE  IInv'
<1> DEFINE k == Request("open", "click", c, 0)
<1>0. TypeOK /\ RowsInv
  BY DEF IInv
<1>1. post' = post /\ rows' = rows /\ created' = created /\ active' = active /\ newest' = newest
      /\ tasks' = tasks \cup {k} /\ session = "in" /\ session' = "in" /\ failed' = FALSE
      /\ page' = page /\ list' = list /\ loading' = loading
  BY DEF ClickChat, server, Open
<1>2. PostsAlike /\ post' \in [Send -> PostType] /\ \A s \in Send : PostInv(s)'
  BY <1>1, PostsUnchanged
<1>3. k \in Task /\ TaskInv(k)' /\ k.state = "asked"
  BY OpenAsks, Bounds
<1> HIDE DEF k
<1>4. Frame(thread, {})
  BY <1>0, <1>1, <1>2, KinSelf, Workspace, Reads, Typed DEF Frame, ClickChat
<1>5. /\ tasks' \subseteq Task /\ \A v \in tasks' : TaskInv(v)'
      /\ \A v \in tasks' : v.op = "open" /\ v.state = "answered" => v \in tasks
  BY <1>1, <1>2, <1>3, TasksAfter
<1>6. ReadInv' /\ RowsShown'
  BY <1>1, <1>4, <1>5, FrameReads
<1>7. RowsInv'
  BY <1>0, <1>1, <1>2, RowsKept DEF RowsInv
<1>8. uses' \in 0..MaxUses /\ faults' \in 0..MaxFaults
  BY <1>0, Counted DEF ClickChat
<1> QED  BY <1>0, <1>1, <1>2, <1>4, <1>5, <1>6, <1>7, <1>8, Workspace, RenderStep

\* A render that changes nothing about what is to be displayed.
LEMMA RenderSame ==
  ASSUME IInv, Render(thread, {}), page' = page, failed' = failed, active' = active
  PROVE  thread' = thread /\ unseen' = unseen
<1>1. thread.chat = Displayed(page, failed, active) /\ (thread.chat = 0 => thread = NoThread)
  BY DEF IInv, TypeOK, ThreadInv
<1>2. thread' = thread
  BY <1>1 DEF Render, Rendered
<1> QED  BY <1>2 DEF Render

LEMMA ByLoadFailed ==
  ASSUME IInv, NEW k \in tasks, LoadFailed(k)
  PROVE  IInv'
<1>0. TypeOK /\ RowsInv /\ SessionInv /\ tasks \subseteq Task /\ (\A v \in tasks : TaskInv(v))
  BY Typed DEF IInv
<1>1. post' = post /\ rows' = rows /\ created' = created /\ active' = active /\ newest' = newest
      /\ tasks' \subseteq tasks /\ session' = session /\ page' = page /\ list' = list
      /\ faults' = faults /\ uses' = uses
  BY DEF LoadFailed, server, Rest, bounds
<1>2. PostsAlike /\ post' \in [Send -> PostType] /\ \A s \in Send : PostInv(s)'
  BY <1>1, PostsUnchanged
<1>3. /\ tasks' \subseteq Task /\ \A v \in tasks' : TaskInv(v)'
      /\ \A v \in tasks' : v.op = "open" /\ v.state = "answered" => v \in tasks
  BY <1>1, <1>2, TasksAfter
<1>4. uses' \in 0..MaxUses /\ faults' \in 0..MaxFaults /\ created' \in 0..MaxChats
  BY <1>0, <1>1, Counted DEF TypeOK
<1>5. CASE session = "in"
  <2>1. Frame(thread, {})
    BY <1>0, <1>1, <1>2, <1>5, KinSelf, Workspace, Reads, Typed DEF Frame, LoadFailed
  <2>2. ReadInv' /\ RowsShown'
    BY <1>1, <1>3, <2>1, FrameReads
  <2>3. RowsInv'
    BY <1>0, <1>1, <1>2, RowsKept DEF RowsInv
  <2>4. failed' \in BOOLEAN /\ loading' \in BOOLEAN
    BY <1>0, Workspace DEF LoadFailed
  <2> QED  BY <1>0, <1>1, <1>2, <1>3, <1>4, <2>1, <2>2, <2>3, <2>4, Workspace, RenderStep
<1>6. CASE session # "in"
  <2>1. k.for = "gone"
    BY <1>0, <1>6 DEF SessionInv
  <2>2. failed' = failed /\ loading' = loading
    BY <2>1 DEF LoadFailed
  <2>3. thread' = thread /\ unseen' = unseen
    BY <1>1, <2>2, RenderSame DEF LoadFailed
  <2>4. \A v \in tasks' : v.for = "gone" /\ v \in tasks
    BY <1>0, <1>1, <1>6 DEF SessionInv
  <2>5. UNCHANGED <<rows, post, session, workspace, thread, history>>
    BY <1>1, <2>2, <2>3 DEF workspace, history
  <2>6. \A v \in tasks' : TaskInv(v)
    BY <1>0, <1>1
  <2> QED  BY <1>3, <1>4, <2>4, <2>5, <2>6, TasksOnly
<1> QED  BY <1>5, <1>6

LEMMA ByListed ==
  ASSUME IInv, NEW k \in tasks, Listed(k)
  PROVE  IInv'
<1> DEFINE next == IF k.for = "new" THEN k.chat ELSE k.n
           v == Request("open", k.for, next, 0)
<1>0. TypeOK /\ RowsInv /\ k \in Task /\ TaskInv(k) /\ k.op = "list" /\ k.state = "answered"
  BY Typed DEF IInv, Listed
<1>1. post' = post /\ rows' = rows /\ created' = created /\ active' = active /\ newest' = newest
      /\ session' = session /\ page' = page /\ list' = k.n
      /\ faults' = faults /\ uses' = uses
  BY DEF Listed, server, bounds
<1>2. PostsAlike /\ post' \in [Send -> PostType] /\ \A s \in Send : PostInv(s)'
  BY <1>1, PostsUnchanged
<1>3. session = "in"
  BY <1>0, SignedIn
<1>4. k.for \in {"mount", "new", "click", "confirm"} /\ k.n \in 0..MaxChats /\ next \in 0..MaxChats
  BY <1>0, Bounds DEF TaskInv, Task
<1>5. \/ next = 0 /\ tasks' = tasks \ {k} /\ failed' = failed /\ loading' = FALSE
      \/ next # 0 /\ tasks' = (tasks \ {k}) \cup {v} /\ failed' = FALSE /\ loading' = loading
  BY DEF Listed, Open, Rest
<1> HIDE DEF next
<1>6. next # 0 => v \in Task /\ TaskInv(v)' /\ v.state = "asked"
  <2>1. next # 0 => next \in Chat
    BY <1>4, Bounds
  <2> QED  BY <1>4, <2>1, OpenAsks, Bounds
<1> HIDE DEF v
<1>7. /\ tasks' \subseteq Task /\ \A w \in tasks' : TaskInv(w)'
      /\ \A w \in tasks' : w.op = "open" /\ w.state = "answered" => w \in tasks
  BY <1>1, <1>2, <1>5, <1>6, TasksAfter
<1>8. Frame(thread, {})
  BY <1>0, <1>1, <1>2, <1>3, KinSelf, Workspace, Reads, Typed DEF Frame, Listed
<1>9. ReadInv' /\ RowsShown'
  BY <1>1, <1>7, <1>8, FrameReads
<1>10. RowsInv'
  BY <1>0, <1>1, <1>2, RowsKept DEF RowsInv
<1>11. failed' \in BOOLEAN /\ loading' \in BOOLEAN
  BY <1>0, <1>5, Workspace
<1>12. uses' \in 0..MaxUses /\ faults' \in 0..MaxFaults
  BY <1>0, <1>1, Counted
<1> QED  BY <1>0, <1>1, <1>2, <1>4, <1>7, <1>8, <1>9, <1>10, <1>11, <1>12, Workspace, RenderStep

LEMMA OvertakenSent ==
  ASSUME IInv, NEW c \in Chat, NEW n \in Nat
  PROVE  Overtaken(c, n) \subseteq Send
<1>0. TypeOK
  BY DEF IInv
<1>1. newest[c] <= Len(rows[c]) /\ newest[c] \in Nat
  BY <1>0, Workspace DEF IInv, RowsInv
<1>2. Len(rows[c]) \in Nat /\ DOMAIN rows[c] = 1..Len(rows[c]) /\ \A i \in DOMAIN rows[c] : rows[c][i].send \in Send
  BY <1>0, Typed, TypedRows
<1>3. (n + 1)..newest[c] \subseteq DOMAIN rows[c]
  BY <1>1, <1>2
<1> QED  BY <1>2, <1>3 DEF Overtaken

LEMMA ByOpened ==
  ASSUME IInv, NEW k \in tasks, Opened(k)
  PROVE  IInv'
<1>0. TypeOK /\ k \in Task /\ TaskInv(k) /\ k.op = "open" /\ k.state = "answered"
  BY Typed DEF IInv, Opened
<1>1. post' = post /\ rows' = rows /\ created' = created /\ session' = session /\ page' = page /\ list' = list
      /\ faults' = faults /\ uses' = uses /\ failed' = failed /\ tasks' \subseteq tasks
      /\ active' = [chat |-> k.chat, upTo |-> k.n]
  BY DEF Opened, ShowChat, server, bounds, Rest
<1>2. PostsAlike /\ post' \in [Send -> PostType] /\ \A s \in Send : PostInv(s)'
  BY <1>1, PostsUnchanged
<1>3. session = "in"
  BY <1>0, SignedIn
<1>4. k.chat \in Chat /\ k.chat \in 0..MaxChats /\ k.n \in Nat /\ k.n <= Len(rows[k.chat])
  BY <1>0, Bounds DEF TaskInv, Task
<1>5. Overtaken(k.chat, k.n) \subseteq Send
  BY <1>4, OvertakenSent
<1>6. active'.chat = k.chat /\ active'.upTo = k.n /\ active' \in [chat : 0..MaxChats, upTo : Nat]
  BY <1>1, <1>4
<1>7. Frame(thread, Overtaken(k.chat, k.n))
  BY <1>1, <1>2, <1>3, <1>4, <1>5, <1>6, KinSelf DEF Frame, Opened
<1>8. ReadInv' /\ RowsShown' /\ newest' \in [Chat -> Nat] /\ RowsInv'
  BY <1>0, <1>1, <1>7, FrameOpens DEF Opened
<1>9. tasks' \subseteq Task /\ \A w \in tasks' : TaskInv(w)'
  BY <1>1, <1>2, TasksAfter
<1>10. loading' \in BOOLEAN
  BY <1>0, Workspace DEF Opened
<1>11. uses' \in 0..MaxUses /\ faults' \in 0..MaxFaults
  BY <1>0, <1>1, Counted
<1> QED  BY <1>0, <1>1, <1>2, <1>6, <1>7, <1>8, <1>9, <1>10, <1>11, Workspace, RenderStep

LEMMA ByReloaded ==
  ASSUME IInv, NEW k \in tasks, Reloaded(k)
  PROVE  IInv'
<1>0. TypeOK /\ RowsInv /\ k \in Task /\ TaskInv(k) /\ k.op = "open" /\ k.for = "reply"
  BY Typed DEF IInv, Reloaded
<1>1. post' = post /\ rows' = rows /\ created' = created /\ session' = session
      /\ page' = page /\ list' = list /\ failed' = failed /\ loading' = loading
      /\ faults' = faults /\ uses' = uses /\ tasks' \subseteq tasks
  BY DEF Reloaded, ShowChat, server, bounds, Rest, workspace
<1>2. PostsAlike /\ post' \in [Send -> PostType] /\ \A s \in Send : PostInv(s)'
  BY <1>1, PostsUnchanged
<1>3. session = "in"
  BY <1>0, SignedIn
<1>4. k.chat \in Chat /\ k.chat \in 0..MaxChats /\ k.send \in Send
  BY <1>0, Bounds DEF TaskInv
<1>5. tasks' \subseteq Task /\ \A w \in tasks' : TaskInv(w)'
  BY <1>1, <1>2, TasksAfter
<1>6. uses' \in 0..MaxUses /\ faults' \in 0..MaxFaults
  BY <1>0, <1>1, Counted
<1>7. CASE k.state = "answered"
  <2>1. k.n \in Nat /\ k.n <= Len(rows[k.chat])
    BY <1>0, <1>7 DEF TaskInv, Task
  <2>2. ShowChat(k) /\ Render(Settled(thread, k.send), Overtaken(k.chat, k.n))
    BY <1>7 DEF Reloaded
  <2>3. active' = [chat |-> k.chat, upTo |-> k.n]
    BY <2>2 DEF ShowChat
  <2>4. active'.chat = k.chat /\ active'.upTo = k.n /\ active' \in [chat : 0..MaxChats, upTo : Nat]
    BY <1>4, <2>1, <2>3
  <2>5. Overtaken(k.chat, k.n) \subseteq Send
    BY <1>4, <2>1, OvertakenSent
  <2>6. Frame(Settled(thread, k.send), Overtaken(k.chat, k.n))
    BY <1>1, <1>2, <1>3, <1>4, <2>1, <2>2, <2>4, <2>5, KinSettled DEF Frame
  <2>7. Settled(thread, k.send).sending = thread.sending \/ thread.sending = k.send
    BY <1>4, KinSettled
  <2>8. ReadInv' /\ RowsShown' /\ newest' \in [Chat -> Nat] /\ RowsInv'
    BY <1>0, <1>1, <1>7, <2>2, <2>6, <2>7, FrameOpens
  <2> QED  BY <1>0, <1>1, <1>2, <1>5, <1>6, <2>4, <2>6, <2>8, Workspace, RenderStep
<1>8. CASE k.state = "failed"
  <2>1. active' = active /\ newest' = newest /\ Render(Failed(thread, k.send), {k.send})
    BY <1>8 DEF Reloaded, workspace
  <2>2. active'.chat \in 0..MaxChats /\ active'.upTo \in Nat
        /\ (active'.chat # 0 => active'.upTo <= Len(rows[active'.chat]))
    BY <1>0, <1>3, <2>1, Typed, Reads
  <2>3. Frame(Failed(thread, k.send), {k.send})
    BY <1>1, <1>2, <1>3, <1>4, <2>1, <2>2, FailedIs DEF Frame
  <2>4. Failed(thread, k.send).sending = thread.sending \/ thread.sending \in {k.send}
    BY <1>4, FailedIs
  <2>5. ReadInv' /\ RowsShown'
    BY <1>1, <2>1, <2>3, <2>4, FrameReads
  <2>6. RowsInv'
    BY <1>0, <1>1, <1>2, <2>1, RowsKept DEF RowsInv
  <2> QED  BY <1>0, <1>1, <1>2, <1>5, <1>6, <2>1, <2>3, <2>5, <2>6, Workspace, RenderStep
<1> QED  BY <1>7, <1>8 DEF Reloaded

LEMMA ByConfirmed ==
  ASSUME IInv, NEW k \in tasks, Confirmed(k)
  PROVE  IInv'
<1> DEFINE v == Request("open", "confirm", k.chat, 0)
<1>0. TypeOK /\ RowsInv /\ k \in Task /\ TaskInv(k) /\ k.op = "confirm"
  BY Typed DEF IInv, Confirmed
<1>1. post' = post /\ rows' = rows /\ created' = created /\ active' = active /\ newest' = newest
      /\ session' = session /\ page' = page /\ list' = list /\ loading' = loading
      /\ faults' = faults /\ uses' = uses
  BY DEF Confirmed, server, bounds
<1>2. PostsAlike /\ post' \in [Send -> PostType] /\ \A s \in Send : PostInv(s)'
  BY <1>1, PostsUnchanged
<1>3. session = "in"
  BY <1>0, SignedIn
<1>4. k.chat \in Chat /\ k.send \in Send
  BY <1>0 DEF TaskInv
<1>5. \/ tasks' = (tasks \ {k}) \cup {v} /\ failed' = FALSE
      \/ tasks' = tasks \ {k} /\ failed' = failed
  BY DEF Confirmed, Open, Rest
<1>6. v \in Task /\ TaskInv(v)' /\ v.state = "asked"
  BY <1>4, OpenAsks, Bounds
<1> HIDE DEF v
<1>7. /\ tasks' \subseteq Task /\ \A w \in tasks' : TaskInv(w)'
      /\ \A w \in tasks' : w.op = "open" /\ w.state = "answered" => w \in tasks
  BY <1>1, <1>2, <1>5, <1>6, TasksAfter
<1>8. Frame(Answered(thread, k.send), {}) /\ Answered(thread, k.send).sending = thread.sending
  BY <1>0, <1>1, <1>2, <1>3, <1>4, KinAnswered, Reads, Typed DEF Frame, Confirmed
<1>9. ReadInv' /\ RowsShown'
  BY <1>1, <1>7, <1>8, FrameReads
<1>10. RowsInv'
  BY <1>0, <1>1, <1>2, RowsKept DEF RowsInv
<1>11. failed' \in BOOLEAN
  BY <1>0, <1>5, Workspace
<1>12. uses' \in 0..MaxUses /\ faults' \in 0..MaxFaults
  BY <1>0, <1>1, Counted
<1> QED  BY <1>0, <1>1, <1>2, <1>7, <1>8, <1>9, <1>10, <1>11, <1>12, Workspace, RenderStep

\* A handler's thread is rendered where it was.
LEMMA RenderStay ==
  ASSUME IInv, NEW u, Kin(u), page' = page, failed' = failed, active' = active, thread' = u
  PROVE  thread' = Rendered(page', failed', active', u) /\ thread'.chat = u.chat
<1>1. thread.chat = Displayed(page, failed, active) /\ u.chat = thread.chat /\ (thread.chat = 0 => u = NoThread)
  BY DEF IInv, TypeOK, Kin
<1> QED  BY <1>1 DEF Rendered

LEMMA ByStreamEnded ==
  ASSUME IInv, NEW s \in Send, StreamEnded(s)
  PROVE  IInv'
<1>0. TypeOK /\ RowsInv /\ SessionInv /\ PostInv(s) /\ post[s].net = "closed"
  BY DEF IInv, StreamEnded
<1>a. PICK c \in Chat : c = post[s].chat
  BY <1>0 DEF PostInv
<1> DEFINE v == Request("open", "reply", c, s)
<1>1. post' = [post EXCEPT ![s].net = "over", ![s].content = NoContent] /\ rows' = rows /\ created' = created /\ active' = active
      /\ newest' = newest /\ session' = session /\ page' = page /\ list' = list /\ loading' = loading
      /\ faults' = faults /\ uses' = uses /\ failed' = FALSE /\ tasks' = tasks \cup {v}
  BY <1>a DEF StreamEnded, Open, server, bounds
<1>2. post[s].server = "done" /\ post[s].chat \in Chat
  BY <1>0 DEF PostInv
<1>3. session = "in"
  BY <1>0, <1>2 DEF SessionInv
<1>4. PostsAlike /\ post' \in [Send -> PostType] /\ \A r \in Send : PostInv(r)'
  BY <1>1, <1>2, PostOver
<1>5. v \in Task /\ TaskInv(v)' /\ v.state = "asked"
  <2>1. post'[s].server = "done" /\ post'[s].chat = c /\ s \in 0..MaxSends
    BY <1>a, <1>2, <1>4, Bounds DEF PostsAlike
  <2> QED  BY <2>1, OpenAsks
<1> HIDE DEF v
<1>6. /\ tasks' \subseteq Task /\ \A w \in tasks' : TaskInv(w)'
      /\ \A w \in tasks' : w.op = "open" /\ w.state = "answered" => w \in tasks
  BY <1>1, <1>4, <1>5, TasksAfter
<1>7. Frame(thread, {})
  BY <1>0, <1>1, <1>3, <1>4, KinSelf, Reads, Typed DEF Frame, StreamEnded
<1>8. ReadInv' /\ RowsShown'
  BY <1>1, <1>6, <1>7, FrameReads
<1>9. RowsInv'
  BY <1>0, <1>1, <1>4, RowsKept DEF RowsInv
<1>10. uses' \in 0..MaxUses /\ faults' \in 0..MaxFaults
  BY <1>0, <1>1, Counted
<1> QED  BY <1>0, <1>1, <1>4, <1>6, <1>7, <1>8, <1>9, <1>10, Workspace, RenderStep

LEMMA ByStreamFailed ==
  ASSUME IInv, NEW s \in Send, StreamFailed(s)
  PROVE  IInv'
<1>0. TypeOK /\ RowsInv /\ SessionInv /\ PostInv(s) /\ post[s].net = "cut"
  BY DEF IInv, StreamFailed
<1>1. post' = [post EXCEPT ![s].net = "over", ![s].content = NoContent] /\ rows' = rows /\ created' = created /\ active' = active
      /\ newest' = newest /\ session' = session /\ page' = page /\ list' = list /\ loading' = loading
      /\ faults' = faults /\ uses' = uses /\ failed' = failed /\ tasks' = tasks
      /\ thread' = Failed(thread, s) /\ unseen' = unseen \cup {s}
  BY DEF StreamFailed, server, bounds, workspace
<1>2. post[s].server # "idle"
  BY <1>0 DEF PostInv, Unsent
<1>3. session = "in"
  BY <1>0, <1>2 DEF SessionInv
<1>4. PostsAlike /\ post' \in [Send -> PostType] /\ \A r \in Send : PostInv(r)'
  BY <1>1, <1>2, PostOver
<1>5. Kin(Failed(thread, s)) /\ (Failed(thread, s).sending = thread.sending \/ thread.sending \in {s})
  BY FailedIs
<1>6. Render(Failed(thread, s), {s})
  <2>1. thread' = Rendered(page', failed', active', Failed(thread, s)) /\ thread'.chat = Failed(thread, s).chat
    BY <1>1, <1>5, RenderStay
  <2> QED  BY <1>1, <2>1 DEF Render
<1>7. Frame(Failed(thread, s), {s})
  BY <1>0, <1>1, <1>3, <1>4, <1>5, <1>6, Reads, Typed DEF Frame
<1>8. /\ tasks' \subseteq Task /\ \A w \in tasks' : TaskInv(w)'
  BY <1>1, <1>4, TasksAfter
<1>9. ReadInv' /\ RowsShown'
  BY <1>1, <1>5, <1>7, FrameReads
<1>10. RowsInv'
  BY <1>0, <1>1, <1>4, RowsKept DEF RowsInv
<1>11. uses' \in 0..MaxUses /\ faults' \in 0..MaxFaults
  BY <1>0, <1>1, Counted
<1> QED  BY <1>0, <1>1, <1>4, <1>7, <1>8, <1>9, <1>10, <1>11, Workspace, RenderStep

LEMMA ByHandleConfirm ==
  ASSUME IInv, HandleConfirm
  PROVE  IInv'
<1> DEFINE u == [thread EXCEPT !.confirming = thread.checkpoint]
<1>0. TypeOK /\ RowsInv /\ SessionInv /\ ThreadInv /\ thread \in ThreadType /\ thread.checkpoint # 0
  BY Typed DEF IInv, HandleConfirm
<1>3. session = "in" /\ thread.chat # 0
  BY <1>0 DEF SessionInv, ThreadInv, NoThread
<1>a. PICK c \in Chat, d \in Send : c = thread.chat /\ d = thread.checkpoint
  BY <1>0, <1>3, Bounds DEF ThreadType
<1> DEFINE v == Request("confirm", "confirm", c, d)
<1>1. post' = post /\ rows' = rows /\ created' = created /\ active' = active
      /\ newest' = newest /\ session' = session /\ page' = page /\ list' = list /\ loading' = loading
      /\ faults' = faults /\ uses' = uses /\ failed' = failed /\ tasks' = tasks \cup {v}
      /\ thread' = u /\ unseen' = unseen
  BY <1>a DEF HandleConfirm, ConfirmAction, server, bounds, workspace, history
<1>2. PostsAlike /\ post' \in [Send -> PostType] /\ \A s \in Send : PostInv(s)'
  BY <1>1, PostsUnchanged
<1>4. u \in ThreadType /\ u.chat = thread.chat /\ u.messages = thread.messages /\ u.sending = thread.sending
      /\ u.checkpoint = thread.checkpoint
  BY <1>0 DEF ThreadType
<1>5. c \in 0..MaxChats /\ d \in 0..MaxSends
  BY Bounds
<1> HIDE DEF u
<1>6. Kin(u)
  BY <1>3, <1>4 DEF Kin
<1>7. v \in Task /\ v.op = "confirm" /\ v.for = "confirm" /\ v.state = "asked" /\ v.chat \in Chat /\ v.send \in Send
  BY <1>5, Requested
<1> HIDE DEF v
<1>8. TaskInv(v)'
  BY <1>7 DEF TaskInv
<1>9. /\ tasks' \subseteq Task /\ \A w \in tasks' : TaskInv(w)'
      /\ \A w \in tasks' : w.op = "open" /\ w.state = "answered" => w \in tasks
  BY <1>1, <1>2, <1>7, <1>8, TasksAfter
<1>10. Render(u, {})
  <2>1. thread' = Rendered(page', failed', active', u) /\ thread'.chat = u.chat
    BY <1>1, <1>6, RenderStay
  <2> QED  BY <1>1, <2>1 DEF Render
<1>11. Frame(u, {})
  BY <1>0, <1>1, <1>2, <1>3, <1>6, <1>10, Reads, Typed DEF Frame
<1>12. ReadInv' /\ RowsShown'
  BY <1>1, <1>4, <1>9, <1>11, FrameReads
<1>13. RowsInv'
  BY <1>0, <1>1, <1>2, RowsKept DEF RowsInv
<1>14. uses' \in 0..MaxUses /\ faults' \in 0..MaxFaults
  BY <1>0, <1>1, Counted
<1> QED  BY <1>0, <1>1, <1>2, <1>9, <1>11, <1>12, <1>13, <1>14, Workspace, RenderStep

-----------------------------------------------------------------------------
(***************************************************************************)
(* The session.                                                            *)
(***************************************************************************)
LEMMA DroppedIs ==
  ASSUME IInv, NEW net \in {"over", "gone"}, post' = Dropped(net), rows' = rows
  PROVE  /\ PostsAlike /\ post' \in [Send -> PostType] /\ \A s \in Send : PostInv(s)'
         /\ \A s \in Send : post[s].server # "idle" => post'[s].net \in {net, "over"}
<1>0. TypeOK /\ post \in [Send -> PostType] /\ \A s \in Send : PostInv(s) /\ post[s] \in PostType
  BY Typed DEF IInv
<1>1. ASSUME NEW s \in Send
      PROVE  /\ post'[s] \in PostType
             /\ post'[s].server = post[s].server /\ post'[s].chat = post[s].chat
             /\ post'[s].sent = post[s].sent /\ post'[s].read = post[s].read
             /\ post'[s].buffer = post[s].buffer /\ post'[s].handed = post[s].handed
             /\ (post[s].server = "idle" => post'[s] = post[s])
             /\ (post[s].server # "idle" => post'[s].net \in {net, "over"})
  <2>1. post'[s] = IF post[s].server # "idle" /\ post[s].net # "over"
                   THEN [post[s] EXCEPT !.net = net] ELSE post[s]
    BY DEF Dropped
  <2>2. post[s] \in PostType
    BY <1>0
  <2> QED  BY <2>1, <2>2 DEF PostType
<1>2. post' \in [Send -> PostType]
  BY <1>1 DEF Dropped
<1>3. PostsAlike
  BY <1>1 DEF PostsAlike
<1>4. ASSUME NEW s \in Send  PROVE PostInv(s)'
  <2>1. PostInv(s)
    BY <1>0
  <2>2. \A r \in 1..(s - 1) : r \in Send
    BY Bounds
  <2>3. post'[s].server # "idle" => \A r \in 1..(s - 1) : post'[r].server # "idle"
    BY <1>1, <2>1, <2>2 DEF PostInv
  <2>4. StreamInv(post'[s]) /\ SentInv(post'[s])
    BY <1>1, <2>1 DEF PostInv, StreamInv, SentInv
  <2>5. post'[s].server # "idle" => post'[s].net \in {"over", "gone"}
    BY <1>1
  <2>6. (\E i \in DOMAIN post'[s].sent : post'[s].sent[i] # "chunk") => Has(rows[post'[s].chat], "assistant", s)
    BY <1>1, <2>1 DEF PostInv
  <2>7. (post'[s].server = "asked" => post'[s].sent = <<>>) /\ (post'[s].server # "idle" => post'[s].chat \in Chat)
        /\ (post'[s].server = "idle" => post'[s] = Unsent)
    BY <1>1, <2>1 DEF PostInv
  <2>8. post'[s].server = "idle" => post'[s].net = "none"
    BY <2>7 DEF Unsent
  <2>9. post'[s].net \notin {"open", "closed"} /\ (post'[s].server = "asked" => post'[s].net \in {"none", "gone", "over"})
    BY <2>5, <2>8
  <2> QED  BY <2>3, <2>4, <2>6, <2>7, <2>9 DEF PostInv
<1> QED  BY <1>1, <1>2, <1>3, <1>4

\* Only what may still create a chat is left of the requests.
LEMMA AbandonedAre ==
  ASSUME IInv, NEW k \in Abandoned
  PROVE  k \in Task /\ k.for = "gone" /\ k.op = "create" /\ TaskInv(k)'
<1>1. PICK v \in tasks : v.op = "create" /\ k = [v EXCEPT !.for = "gone"]
  BY DEF Abandoned
<1>2. v \in Task /\ TaskInv(v)
  BY Typed DEF IInv
<1>3. k \in Task /\ k.for = "gone" /\ k.op = "create" /\ k.state = v.state /\ k.n = v.n
  BY <1>1, <1>2 DEF Task
<1>4. k.state = "answered" => k.n \in Chat
  BY <1>1, <1>2, <1>3 DEF TaskInv
<1>5. TaskInv(k)'
  BY <1>3, <1>4 DEF TaskInv
<1> QED  BY <1>3, <1>5

LEMMA Entered ==
  ASSUME IInv, EnterWorkspace, PostsAlike, post' \in [Send -> PostType], \A s \in Send : PostInv(s)',
         rows' = rows, created' = created, newest' = newest, uses' \in 0..MaxUses, faults' \in 0..MaxFaults
  PROVE  IInv'
<1> DEFINE v == Request("list", "mount", 0, 0)
<1>0. TypeOK /\ RowsInv
  BY DEF IInv
<1>1. /\ session' = "in" /\ thread' = NoThread /\ page' = "chat" /\ list' = 0 /\ active' = NoChat
      /\ failed' = FALSE /\ loading' = TRUE
      /\ unseen' = {s \in Send : post[s].server \in {"asked", "working"}}
      /\ tasks' = Abandoned \cup {v}
  BY DEF EnterWorkspace
<1>2. v \in Task /\ v.op = "list" /\ v.for = "mount" /\ v.state = "asked"
  BY Requested, Bounds
<1> HIDE DEF v
<1>3. TaskInv(v)'
  BY <1>2 DEF TaskInv
<1>4. \A k \in tasks' : k \in Task /\ k.op # "open" /\ TaskInv(k)'
  BY <1>1, <1>2, <1>3, AbandonedAre
<1>5. NoThread \in ThreadType /\ NoThread.chat = 0 /\ NoThread.sending = 0 /\ NoThread.checkpoint = 0
      /\ DOMAIN NoThread.messages = {} /\ NoChat.chat = 0 /\ NoChat.upTo = 0
  BY Bounds DEF NoThread, ThreadType, NoChat
<1>6. TypeOK'
  <2>1. created \in 0..MaxChats /\ rows \in [Chat -> Seq(Row)] /\ newest \in [Chat -> Nat]
    BY <1>0 DEF TypeOK
  <2>2. thread'.chat = Displayed(page', failed', active')
    BY <1>1, <1>5 DEF Displayed
  <2>3. tasks' \subseteq Task
    BY <1>4
  <2>4. active' \in [chat : 0..MaxChats, upTo : Nat] /\ list' \in 0..MaxChats
    BY <1>1, Bounds DEF NoChat
  <2> QED  BY <1>1, <1>5, <2>1, <2>2, <2>3, <2>4 DEF TypeOK, PostType, ThreadType
<1>7. RowsInv'
  BY <1>0, RowsKept DEF RowsInv
<1>8. ThreadInv' /\ CompleteIsStored' /\ RowsShown'
  BY <1>1, <1>5 DEF ThreadInv, CompleteIsStored, RowsShown
<1>9. SessionInv'
  BY <1>1 DEF SessionInv
<1>10. ReadInv'
  BY <1>1, <1>4, <1>5 DEF ReadInv, PostsAlike
<1> QED  BY <1>4, <1>6, <1>7, <1>8, <1>9, <1>10 DEF IInv

\* Outside the workspace: nothing is displayed and nothing awaited.
LEMMA Outside ==
  ASSUME IInv, PostsAlike, post' \in [Send -> PostType], \A s \in Send : PostInv(s)',
         session' \in {"out", "signing"}, thread' = NoThread, active' = NoChat,
         page' \in {"chat", "other"}, list' \in 0..MaxChats, failed' \in BOOLEAN, loading' \in BOOLEAN,
         Displayed(page', failed', active') = 0,
         unseen' \subseteq Send, \A k \in tasks' : k \in Task /\ k.for = "gone" /\ TaskInv(k)',
         \A s \in Send : post'[s].server # "idle" => post'[s].net = "over",
         rows' = rows, created' = created, newest' = newest, uses' \in 0..MaxUses, faults' \in 0..MaxFaults
  PROVE  IInv'
<1>0. TypeOK /\ RowsInv
  BY DEF IInv
<1>5. NoThread \in ThreadType /\ NoThread.chat = 0 /\ NoThread.sending = 0 /\ NoThread.checkpoint = 0
      /\ DOMAIN NoThread.messages = {} /\ NoChat \in [chat : 0..MaxChats, upTo : Nat]
  BY Bounds DEF NoThread, ThreadType, NoChat
<1>6. TypeOK'
  <2>1. created \in 0..MaxChats /\ rows \in [Chat -> Seq(Row)] /\ newest \in [Chat -> Nat]
    BY <1>0 DEF TypeOK
  <2> QED  BY <1>5, <2>1 DEF TypeOK, PostType, ThreadType
<1>7. RowsInv'
  BY <1>0, RowsKept DEF RowsInv
<1>8. ThreadInv' /\ CompleteIsStored' /\ RowsShown'
  BY <1>5 DEF ThreadInv, CompleteIsStored, RowsShown
<1>9. SessionInv'
  BY DEF SessionInv
<1>10. ReadInv'
  BY DEF ReadInv
<1> QED  BY <1>6, <1>7, <1>8, <1>9, <1>10 DEF IInv

LEMMA ByReload ==
  ASSUME IInv, Reload
  PROVE  IInv'
<1>1. EnterWorkspace /\ post' = Dropped("gone") /\ rows' = rows /\ created' = created /\ newest' = newest
      /\ uses < MaxUses /\ uses' = uses + 1 /\ faults' = faults
  BY DEF Reload, server
<1>2. uses' \in 0..MaxUses /\ faults' \in 0..MaxFaults
  BY <1>1, Counted DEF IInv
<1>3. PostsAlike /\ post' \in [Send -> PostType] /\ \A s \in Send : PostInv(s)'
  BY <1>1, DroppedIs
<1> QED  BY <1>1, <1>2, <1>3, Entered

LEMMA ByLogout ==
  ASSUME IInv, Logout
  PROVE  IInv'
<1>1. LeaveWorkspace /\ session' = "out" /\ post' = Dropped("over") /\ rows' = rows /\ created' = created
      /\ newest' = newest /\ uses' = uses /\ faults' = faults
  BY DEF Logout, server, bounds
<1>2. uses' \in 0..MaxUses /\ faults' \in 0..MaxFaults
  BY <1>1, Counted DEF IInv
<1>3. PostsAlike /\ post' \in [Send -> PostType] /\ (\A s \in Send : PostInv(s)')
      /\ \A s \in Send : post[s].server # "idle" => post'[s].net = "over"
  BY <1>1, DroppedIs
<1>4. \A s \in Send : post'[s].server # "idle" => post'[s].net = "over"
  BY <1>3 DEF PostsAlike
<1>5. /\ thread' = NoThread /\ active' = NoChat /\ page' = "chat" /\ list' \in 0..MaxChats /\ failed' = FALSE
      /\ loading' = FALSE /\ unseen' = {} /\ tasks' = Abandoned
  BY <1>1, Bounds DEF LeaveWorkspace
<1>6. Displayed(page', failed', active') = 0
  BY <1>5 DEF Displayed, NoChat
<1>7. \A k \in tasks' : k \in Task /\ k.for = "gone" /\ TaskInv(k)'
  BY <1>5, AbandonedAre
<1> QED  BY <1>1, <1>2, <1>3, <1>4, <1>5, <1>6, <1>7, Outside

\* What holds outside the workspace goes on to hold there.
LEMMA StaysOut ==
  ASSUME IInv, session # "in", session' \in {"out", "signing"},
         UNCHANGED <<server, post, workspace, thread, tasks, history>>,
         uses' \in 0..MaxUses, faults' \in 0..MaxFaults
  PROVE  IInv'
<1>0. TypeOK /\ SessionInv /\ tasks \subseteq Task /\ \A k \in tasks : TaskInv(k)
  BY Typed DEF IInv
<1>1. thread = NoThread /\ active = NoChat /\ (\A k \in tasks : k.for = "gone")
      /\ \A s \in Send : post[s].server # "idle" => post[s].net = "over"
  BY <1>0 DEF SessionInv
<1>2. post' = post /\ rows' = rows /\ created' = created /\ page' = page /\ list' = list /\ active' = active
      /\ failed' = failed /\ loading' = loading /\ thread' = thread /\ tasks' = tasks /\ newest' = newest
      /\ unseen' = unseen
  BY DEF server, workspace, history
<1>3. PostsAlike /\ post' \in [Send -> PostType] /\ \A s \in Send : PostInv(s)'
  BY <1>2, PostsUnchanged
<1>4. \A k \in tasks' : k \in Task /\ k.for = "gone" /\ TaskInv(k)'
  BY <1>0, <1>1, <1>2, <1>3, TaskKept
<1>5. Displayed(page', failed', active') = 0
  BY <1>1, <1>2 DEF Displayed, NoChat
<1>6. unseen' \subseteq Send
  BY <1>0, <1>2 DEF TypeOK
<1> QED  BY <1>0, <1>1, <1>2, <1>3, <1>4, <1>5, <1>6, Workspace, Outside

LEMMA BySubmitLogin ==
  ASSUME IInv, SubmitLogin
  PROVE  IInv'
<1>1. uses' \in 0..MaxUses /\ faults' \in 0..MaxFaults
  BY Counted DEF IInv, SubmitLogin
<1> QED  BY <1>1, StaysOut DEF SubmitLogin

LEMMA ByLoginAnswered ==
  ASSUME IInv, LoginAnswered
  PROVE  IInv'
<1>1. uses' \in 0..MaxUses /\ faults' \in 0..MaxFaults
  BY Counted DEF IInv, LoginAnswered
<1>2. session = "signing" /\ post' = post /\ rows' = rows /\ created' = created /\ newest' = newest
  BY DEF LoginAnswered, server
<1>3. CASE EnterWorkspace
  <2>1. PostsAlike /\ post' \in [Send -> PostType] /\ \A s \in Send : PostInv(s)'
    BY <1>2, PostsUnchanged
  <2> QED  BY <1>1, <1>2, <1>3, <2>1, Entered
<1>4. CASE ~EnterWorkspace
  <2>1. session' = "out" /\ UNCHANGED <<server, post, workspace, thread, tasks, history>>
    BY <1>4 DEF LoginAnswered, history
  <2> QED  BY <1>1, <1>2, <2>1, StaysOut
<1> QED  BY <1>3, <1>4

-----------------------------------------------------------------------------
(***************************************************************************)
(* A message is sent.                                                      *)
(***************************************************************************)
LEMMA TwoMore ==
  ASSUME NEW seq \in Seq(Message), NEW a \in Message, NEW b \in Message
  PROVE  LET more == seq \o <<a, b>> IN
         /\ more \in Seq(Message) /\ DOMAIN more = 1..(Len(seq) + 2)
         /\ \A i \in DOMAIN seq : i \in DOMAIN more /\ more[i] = seq[i]
         /\ more[Len(seq) + 1] = a /\ more[Len(seq) + 2] = b
         /\ Len(seq) + 1 \in DOMAIN more /\ Len(seq) + 2 \in DOMAIN more
         /\ \A i \in DOMAIN more : i \in DOMAIN seq \/ i = Len(seq) + 1 \/ i = Len(seq) + 2
  OBVIOUS

LEMMA BySendMessage ==
  ASSUME IInv, NEW s \in Send, SendMessage(s)
  PROVE  IInv'
<1> DEFINE p0 == [post[s] EXCEPT !.chat = thread.chat]
           p == [p0 EXCEPT !.server = "asked"]
           a == [role |-> "user", send |-> s, text |-> Full, status |-> "none"]
           b == [role |-> "assistant", send |-> s, text |-> 0, status |-> "running"]
           ms == thread.messages \o <<a, b>>
           v == [thread EXCEPT !.sending = s]
           u == [v EXCEPT !.messages = ms]
<1>0. /\ TypeOK /\ RowsInv /\ ThreadInv /\ CompleteIsStored /\ SessionInv /\ ReadInv /\ RowsShown
      /\ (\A k \in tasks : TaskInv(k)) /\ (\A r \in Send : PostInv(r))
      /\ post \in [Send -> PostType] /\ thread \in ThreadType /\ rows \in [Chat -> Seq(Row)]
      /\ post[s].server = "idle" /\ (\A r \in 1..(s - 1) : post[r].server # "idle")
      /\ thread.chat # 0 /\ thread.sending = 0
  BY Typed DEF IInv, SendMessage, CanSend
<1>1. post[s] = Unsent /\ thread.chat \in Chat /\ thread.chat \in 0..MaxChats /\ session = "in"
  <2>1. post[s] = Unsent
    BY <1>0 DEF PostInv
  <2>2. thread.chat \in Chat /\ thread.chat \in 0..MaxChats
    BY <1>0, Bounds DEF ThreadType
  <2>3. session = "in"
    BY <1>0 DEF SessionInv, NoThread
  <2> QED  BY <2>1, <2>2, <2>3
<1>2. /\ p \in PostType /\ p.chat = thread.chat /\ p.server = "asked" /\ p.net = "none"
      /\ p.sent = <<>> /\ p.read = 0 /\ p.buffer = <<>> /\ p.handed = <<>>
  <2>0. post[s] \in PostType
    BY <1>0
  <2>1. /\ p0 \in PostType /\ p0.chat = thread.chat /\ p0.net = "none"
        /\ p0.sent = <<>> /\ p0.read = 0 /\ p0.buffer = <<>> /\ p0.handed = <<>>
    <3>1. /\ post[s].net = "none" /\ post[s].sent = <<>> /\ post[s].read = 0
          /\ post[s].buffer = <<>> /\ post[s].handed = <<>>
      BY <1>1 DEF Unsent
    <3>2. thread.chat \in 0..MaxChats
      BY <1>1
    <3> QED  BY <2>0, <3>1, <3>2 DEF PostType
  <2> HIDE DEF p0
  <2> QED  BY <2>1 DEF PostType
<1>3. post' = [post EXCEPT ![s] = p]
  BY <1>0 DEF SendMessage
<1>4. a \in Message /\ b \in Message
  <2>1. Full \in 0..Full /\ 0 \in 0..Full
    BY Bounds DEF Full
  <2> QED  BY <2>1 DEF Message
<1>5. /\ a.role = "user" /\ a.send = s /\ a.status = "none"
      /\ b.role = "assistant" /\ b.send = s /\ b.status = "running" /\ b.text = 0
  OBVIOUS
<1>6. thread' = u /\ rows' = rows /\ created' = created /\ session' = session /\ page' = page /\ list' = list
      /\ active' = active /\ failed' = failed /\ loading' = loading /\ tasks' = tasks /\ newest' = newest
      /\ unseen' = unseen /\ uses' = uses /\ faults' = faults
  BY <1>0 DEF SendMessage, server, workspace, bounds, history, ThreadType
<1> HIDE DEF p, a, b
<1>7. LET seq == thread.messages IN
      /\ ms \in Seq(Message)
      /\ \A i \in DOMAIN seq : i \in DOMAIN ms /\ ms[i] = seq[i]
      /\ ms[Len(seq) + 1] = a /\ ms[Len(seq) + 2] = b
      /\ Len(seq) + 1 \in DOMAIN ms /\ Len(seq) + 2 \in DOMAIN ms
      /\ \A i \in DOMAIN ms : i \in DOMAIN seq \/ ms[i] = a \/ ms[i] = b
  <2>1. thread.messages \in Seq(Message)
    BY <1>0 DEF ThreadType
  <2> QED  BY <1>4, <2>1, TwoMore
<1> HIDE DEF ms
<1>8. /\ u \in ThreadType /\ u.chat = thread.chat /\ u.messages = ms /\ u.sending = s
      /\ u.checkpoint = thread.checkpoint
  <2>0. thread \in ThreadType /\ s \in 0..MaxSends
    BY <1>0, Bounds
  <2>1. v \in ThreadType /\ v.chat = thread.chat /\ v.sending = s /\ v.checkpoint = thread.checkpoint
    BY <2>0 DEF ThreadType
  <2>2. ms \in Seq(Message)
    BY <1>7
  <2> HIDE DEF v
  <2> QED  BY <2>1, <2>2 DEF ThreadType
<1> HIDE DEF u, v
<1>9. post' \in [Send -> PostType] /\ post'[s] = p /\ (\A r \in Send : r # s => post'[r] = post[r])
      /\ \A r \in Send : post[r].server # "idle" => post'[r] = post[r]
  BY <1>0, <1>2, <1>3, PostChanges
<1>10. PostsStay /\ RowsStay
  BY <1>6, <1>9 DEF PostsStay, RowsStay
<1>11. \A r \in Send : PostInv(r)'
  <2>1. \A r \in Send : r # s => PostInv(r)'
    BY <1>9, <1>10, PostKept
  <2>2. \A r \in 1..(s - 1) : post'[r].server # "idle"
    <3>1. \A r \in 1..(s - 1) : r \in Send
      BY Bounds
    <3> QED  BY <1>0, <1>10, <3>1 DEF PostsStay
  <2>3. StreamInv(p) /\ SentInv(p)
    <3>1. StreamInv(Unsent)
      BY <1>0, <1>1 DEF PostInv
    <3> QED  BY <1>2, <3>1 DEF StreamInv, SentInv, Unsent
  <2>4. PostInv(s)'
    BY <1>1, <1>2, <1>9, <2>2, <2>3 DEF PostInv
  <2> QED  BY <2>1, <2>4
<1>12. TypeOK'
  BY <1>0, <1>6, <1>8, <1>9 DEF TypeOK, PostType, ThreadType
<1>13. \A c \in Chat : \A i \in DOMAIN rows[c] :
         rows[c][i].send \in Send /\ post[rows[c][i].send].server \in {"working", "done"}
  BY <1>0, TypedRows DEF RowsInv
<1>14. RowsInv'
  <2>1. RowsInv
    BY <1>0
  <2>2. \A c \in Chat : \A i \in DOMAIN rows[c] : post'[rows[c][i].send] = post[rows[c][i].send]
    BY <1>9, <1>13
  <2> QED  BY <1>6, <2>1, <2>2 DEF RowsInv
<1>15. ThreadInv'
  <2>1. \A i \in DOMAIN thread.messages : thread.messages[i].send \in Send /\ thread.messages[i].send # s
    BY <1>0, TypedMessages DEF ThreadInv
  <2>2. \A i \in DOMAIN ms : post'[ms[i].send].server # "idle"
    BY <1>0, <1>2, <1>5, <1>7, <1>9, <2>1 DEF ThreadInv
  <2>3. thread.checkpoint # 0 => thread.checkpoint \in Send /\ post[thread.checkpoint].server # "idle"
    BY <1>0, Bounds DEF ThreadInv, ThreadType
  <2>4. thread.checkpoint <= s
    <3>1. CASE thread.checkpoint = 0
      BY <3>1, Bounds
    <3>2. CASE thread.checkpoint # 0 /\ thread.checkpoint > s
      <4>1. PostInv(thread.checkpoint) /\ s \in 1..(thread.checkpoint - 1)
        BY <1>0, <2>3, <3>2, Bounds
      <4> QED  BY <1>0, <2>3, <3>2, <4>1 DEF PostInv
    <3>3. thread.checkpoint \in Nat /\ s \in Nat
      BY <1>0, Bounds DEF ThreadType
    <3> QED  BY <3>1, <3>2, <3>3
  <2>5. Has(ms, "user", s) /\ Has(ms, "assistant", s)
    BY <1>5, <1>7 DEF Has
  <2>6. ASSUME NEW i \in DOMAIN ms, Replying(ms[i], s)  PROVE ReplyInv(ms[i], p.handed)
    <3>1. ms[i] = b
      BY <1>5, <1>7, <2>1, <2>6 DEF Replying
    <3>2. Len(p.handed) = 0
      BY <1>2
    <3> QED  BY <1>5, <3>1, <3>2 DEF ReplyInv
  <2>7. SendingInv(s)'
    BY <1>2, <1>6, <1>8, <1>9, <2>4, <2>5, <2>6 DEF SendingInv
  <2>8. thread'.checkpoint # 0 => post'[thread'.checkpoint].server # "idle"
    BY <1>6, <1>8, <1>9, <2>3
  <2>9. (thread.sending # 0 => SendingInv(thread.sending))'
    <3>1. thread'.sending = s
      BY <1>6, <1>8
    <3> QED  BY <2>7, <3>1 DEF SendingInv
  <2> QED  BY <1>0, <1>6, <1>8, <2>2, <2>8, <2>9 DEF ThreadInv
<1>16. CompleteIsStored'
  <2>1. CompleteIsStored
    BY <1>0
  <2>2. \A i \in DOMAIN ms : ms[i].status = "complete" =>
          i \in DOMAIN thread.messages /\ ms[i] = thread.messages[i]
    BY <1>5, <1>7
  <2>3. thread'.messages = ms /\ thread'.chat = thread.chat /\ rows' = rows
    BY <1>6, <1>8
  <2> QED  BY <2>1, <2>2, <2>3 DEF CompleteIsStored
<1>17. SessionInv'
  BY <1>1, <1>6 DEF SessionInv
<1>18. \A k \in tasks' : TaskInv(k)'
  <2>1. ASSUME NEW k \in tasks  PROVE TaskInv(k)'
    BY <1>0, <1>6, <1>9 DEF TaskInv
  <2> QED  BY <1>6, <2>1
<1>19. ReadInv'
  <2>1. ASSUME NEW r \in Send, r \in unseen \/ r = thread.sending  PROVE r \in unseen'
    BY <1>0, <1>6, <2>1, Bounds
  <2>2. ASSUME NEW c \in Chat, NEW j \in DOMAIN rows[c],
               rows[c][j].send \in unseen \/ rows[c][j].send = thread.sending
        PROVE  rows[c][j].send \in unseen'
    BY <1>13, <2>1, <2>2
  <2>3. \A r \in Send : post'[r].server \in {"asked", "working"} => r \in unseen' \/ r = thread'.sending
    BY <1>0, <1>1, <1>6, <1>8, <1>9, <2>1 DEF ReadInv
  <2>4. (active.chat # 0 => active.upTo <= Len(rows[active.chat]) /\ Awaited(active.chat, active.upTo))'
    <3>1. CASE active.chat = 0
      BY <1>6, <3>1
    <3>2. CASE active.chat # 0
      <4>1. active.chat \in Chat /\ active.upTo <= Len(rows[active.chat]) /\ Awaited(active.chat, active.upTo)
        BY <1>0, <1>1, <3>2, Typed, Bounds DEF ReadInv
      <4> QED  BY <1>6, <2>2, <4>1 DEF Awaited
    <3> QED  BY <3>1, <3>2
  <2>5. ASSUME NEW k \in tasks, k.op = "open", k.state = "answered",
               NEW j \in DOMAIN rows[k.chat], j > k.n, j > newest[k.chat]
        PROVE  rows[k.chat][j].send \in unseen'
    <3>1. k.chat \in Chat
      BY <1>0, <2>5 DEF TaskInv
    <3> QED  BY <1>0, <1>1, <2>2, <2>5, <3>1 DEF ReadInv
  <2> QED  BY <1>6, <2>3, <2>4, <2>5 DEF ReadInv
<1>20. RowsShown'
  BY <1>0, <1>6, <1>7, <1>8 DEF RowsShown
<1> QED  BY <1>11, <1>12, <1>14, <1>15, <1>16, <1>17, <1>18, <1>19, <1>20 DEF IInv

(***************************************************************************)
(* The events of a read, followed by the thread.                           *)
(***************************************************************************)
\* A set of naturals has a least element.
LEMMA NatMin ==
  ASSUME NEW T \in SUBSET Nat, T # {}
  PROVE  \E x \in T : \A y \in T : x <= y
<1>1. PICK x \in T : \A y \in T : ~ (<<y, x>> \in OpToRel(<, Nat))
  BY NatLessThanWellFounded, WFMin
<1>2. \A y \in T : ~ (y < x)
  BY <1>1 DEF OpToRel
<1>3. \A y \in T : y \in Nat
  OBVIOUS
<1> QED  BY <1>2, <1>3

\* A thread whose running reply has grown by n chunks.
Chunked(t, s, n) ==
  [t EXCEPT !.messages = [i \in DOMAIN t.messages |->
     IF Replying(t.messages[i], s)
     THEN [t.messages[i] EXCEPT !.text = t.messages[i].text + n] ELSE t.messages[i]]]

LEMMA ChunkedNone ==
  ASSUME NEW t \in ThreadType, NEW s
  PROVE  Chunked(t, s, 0) = t
<1> DEFINE ms == t.messages
           m0 == [i \in DOMAIN ms |->
                    IF Replying(ms[i], s) THEN [ms[i] EXCEPT !.text = ms[i].text + 0] ELSE ms[i]]
<1>1. ms \in Seq(Message)
  BY DEF ThreadType
<1>2. \A i \in DOMAIN ms : ms[i] \in Message
  BY <1>1, SeqOf
<1>3. \A m \in Message : [m EXCEPT !.text = m.text + 0] = m
  BY DEF Message, Full
<1>4. m0 = ms
  BY <1>1, <1>2, <1>3
<1>5. Chunked(t, s, 0) = [t EXCEPT !.messages = ms]
  BY <1>4 DEF Chunked
<1> QED  BY <1>5 DEF ThreadType

LEMMA ChunkedMore ==
  ASSUME NEW t \in ThreadType, NEW s, NEW n \in Nat
  PROVE  Shown(Chunked(t, s, n), s, "chunk") = Chunked(t, s, n + 1)
<1> DEFINE ms == t.messages
           m1 == [i \in DOMAIN ms |->
                    IF Replying(ms[i], s) THEN [ms[i] EXCEPT !.text = ms[i].text + n] ELSE ms[i]]
           m2 == [i \in DOMAIN ms |->
                    IF Replying(ms[i], s) THEN [ms[i] EXCEPT !.text = ms[i].text + (n + 1)] ELSE ms[i]]
           m3 == [i \in DOMAIN m1 |->
                    IF Replying(m1[i], s) THEN [m1[i] EXCEPT !.text = @ + 1] ELSE m1[i]]
<1>1. \A i \in DOMAIN ms : ms[i] \in Message
  BY SeqOf DEF ThreadType
<1>2. ASSUME NEW i \in DOMAIN ms  PROVE m3[i] = m2[i]
  <2> DEFINE m == ms[i]
             k == [m EXCEPT !.text = m.text + n]
  <2>1. m \in Message
    BY <1>1
  <2>2. CASE ~ Replying(m, s)
    BY <2>2, SMTT(20)
  <2>3. CASE Replying(m, s)
    <3>a. \A msg \in Message : msg.text \in Nat
      <4>1. 0..Full \subseteq Nat
        BY Bounds DEF Full
      <4> QED  BY <4>1 DEF Message
    <3> HIDE DEF m
    <3>b. m.text \in Nat
      BY <2>1, <3>a
    <3>1. m.text \in Nat /\ (m.text + n) + 1 = m.text + (n + 1)
      BY <3>b
    <3> USE DEF m
    <3>2. m1[i] = k /\ k.text = m.text + n /\ Replying(k, s)
      BY <2>1, <2>3 DEF Message, Replying
    <3>3. [k EXCEPT !.text = k.text + 1] = [m EXCEPT !.text = (m.text + n) + 1]
      BY <2>1, <3>2 DEF Message
    <3> QED  BY <2>3, <3>1, <3>2, <3>3
  <2> QED  BY <2>2, <2>3
<1>3. m3 = m2
  BY <1>2
<1>4. Chunked(t, s, n) = [t EXCEPT !.messages = m1] /\ Chunked(t, s, n + 1) = [t EXCEPT !.messages = m2]
  BY DEF Chunked
<1>5. Shown(Chunked(t, s, n), s, "chunk") = [[t EXCEPT !.messages = m1] EXCEPT !.messages = m3]
  BY <1>4 DEF Shown, WithReply, ThreadType
<1> HIDE DEF m1, m2, m3
<1> QED  BY <1>3, <1>4, <1>5 DEF ThreadType

LEMMA FollowedSteps ==
  ASSUME NEW t \in ThreadType, NEW s, NEW E \in Seq(Event),
         \A k \in 1..(Len(E) - 1) : E[k] = "chunk"
  PROVE  Followed(t, s, E) = IF Len(E) = 0 THEN t ELSE Shown(Chunked(t, s, Len(E) - 1), s, E[Len(E)])
<1> DEFINE L == Len(E)
           g == [n \in 0..L |-> IF n = 0 THEN t ELSE Shown(Chunked(t, s, n - 1), s, E[n])]
           F(f) == f = [n \in 0..L |-> IF n = 0 THEN t ELSE Shown(f[n - 1], s, E[n])]
           after == CHOOSE f : F(f)
<1>1. Followed(t, s, E) = after[L]
  BY DEF Followed
<1>2. L \in Nat
  OBVIOUS
<1>3. ASSUME NEW n \in 0..L, n < L  PROVE g[n] = Chunked(t, s, n)
  <2>1. CASE n = 0
    BY <1>2, <2>1, ChunkedNone
  <2>2. CASE n # 0
    <3>1. n - 1 \in Nat /\ (n - 1) + 1 = n /\ E[n] = "chunk"
      BY <1>2, <1>3, <2>2
    <3>2. Shown(Chunked(t, s, n - 1), s, "chunk") = Chunked(t, s, n)
      BY <3>1, ChunkedMore
    <3> QED  BY <2>2, <3>1, <3>2
  <2> QED  BY <2>1, <2>2
<1>4. F(g)
  <2>1. ASSUME NEW n \in 0..L, n # 0  PROVE g[n - 1] = Chunked(t, s, n - 1)
    BY <1>2, <1>3, <2>1
  <2> QED  BY <2>1
<1>5. F(after)
  BY <1>4
<1>6. \A n \in 0..L : after[n] = IF n = 0 THEN t ELSE Shown(after[n - 1], s, E[n])
  BY <1>5
<1> HIDE DEF after, F
<1>7. \A n \in 0..L : after[n] = g[n]
  <2> DEFINE T == {n \in 0..L : after[n] # g[n]}
  <2>1. ASSUME NEW n \in T  PROVE FALSE
    <3>0. T \in SUBSET Nat /\ T # {}
      <4>1. T \subseteq 0..L /\ 0..L \subseteq Nat
        BY <1>2
      <4> HIDE DEF T
      <4> QED  BY <2>1, <4>1
    <3>1. PICK m \in T : \A k \in T : m <= k
      <4> HIDE DEF T
      <4> QED  BY <3>0, NatMin
    <3>2. CASE m = 0
      BY <1>2, <1>6, <3>1, <3>2
    <3>3. CASE m # 0
      <4>1. m - 1 \in 0..L /\ m - 1 < L /\ m - 1 \notin T
        BY <1>2, <3>1, <3>3
      <4>2. after[m - 1] = Chunked(t, s, m - 1)
        BY <1>3, <4>1
      <4>3. after[m] = Shown(Chunked(t, s, m - 1), s, E[m])
        BY <1>6, <3>1, <3>3, <4>2
      <4> QED  BY <3>1, <3>3, <4>3
    <3> QED  BY <3>2, <3>3
  <2> QED  BY <2>1
<1> QED  BY <1>1, <1>2, <1>7

\* The messages of a thread are changed one by one.
LEMMA MessagesChange ==
  ASSUME NEW t \in ThreadType, NEW ms, ms = [i \in DOMAIN t.messages |-> ms[i]],
         \A i \in DOMAIN t.messages : ms[i] \in Message
  PROVE  LET u == [t EXCEPT !.messages = ms] IN
         /\ u \in ThreadType /\ u.messages = ms /\ DOMAIN ms = DOMAIN t.messages
         /\ u.chat = t.chat /\ u.sending = t.sending
         /\ u.checkpoint = t.checkpoint /\ u.confirming = t.confirming
<1>1. t.messages \in Seq(Message)
  BY DEF ThreadType
<1>2. Len(t.messages) \in Nat /\ DOMAIN t.messages = 1..Len(t.messages)
  BY <1>1, MessagesOf
<1>3. DOMAIN ms = DOMAIN t.messages
  OBVIOUS
<1>4. ms \in Seq(Message)
  <2>1. ms = [i \in DOMAIN ms |-> ms[i]] /\ DOMAIN ms = 1..Len(t.messages) /\ \A i \in 1..Len(t.messages) : ms[i] \in Message
    BY <1>2, <1>3
  <2> QED  BY <1>2, <2>1, SeqOf
<1> QED  BY <1>3, <1>4 DEF ThreadType

LEMMA ChunkedIs ==
  ASSUME NEW t \in ThreadType, NEW s, NEW n \in Nat,
         \A i \in DOMAIN t.messages : Replying(t.messages[i], s) => t.messages[i].text + n <= Full
  PROVE  LET u == Chunked(t, s, n) IN
         /\ u \in ThreadType /\ u.chat = t.chat /\ u.sending = t.sending
         /\ u.checkpoint = t.checkpoint /\ u.confirming = t.confirming
         /\ DOMAIN u.messages = DOMAIN t.messages
         /\ \A i \in DOMAIN t.messages :
              LET old == t.messages[i]
                  new == u.messages[i]
              IN  /\ new \in Message /\ new.role = old.role /\ new.send = old.send /\ new.status = old.status
                  /\ IF Replying(old, s) THEN new.text = old.text + n ELSE new = old
<1> DEFINE ms == [i \in DOMAIN t.messages |->
                    IF Replying(t.messages[i], s)
                    THEN [t.messages[i] EXCEPT !.text = t.messages[i].text + n] ELSE t.messages[i]]
<1>1. t.messages \in Seq(Message)
  BY DEF ThreadType
<1>2. ASSUME NEW m \in Message, m.text + n <= Full
      PROVE  LET e == [m EXCEPT !.text = m.text + n] IN
             /\ e \in Message /\ e.role = m.role /\ e.send = m.send /\ e.status = m.status
             /\ e.text = m.text + n
  <2>1. m.text \in 0..Full /\ m.text + n \in 0..Full
    BY <1>2, Bounds DEF Message, Full
  <2> QED  BY <2>1 DEF Message
<1>3. ASSUME NEW i \in DOMAIN t.messages
      PROVE  LET old == t.messages[i] IN
             /\ ms[i] \in Message /\ ms[i].role = old.role /\ ms[i].send = old.send /\ ms[i].status = old.status
             /\ IF Replying(old, s) THEN ms[i].text = old.text + n ELSE ms[i] = old
  <2>1. t.messages[i] \in Message
    BY <1>1, MessagesOf
  <2>2. CASE Replying(t.messages[i], s)
    <3>1. ms[i] = [t.messages[i] EXCEPT !.text = t.messages[i].text + n]
      BY <2>2
    <3> HIDE DEF ms
    <3> QED  BY <1>2, <2>1, <2>2, <3>1
  <2>3. CASE ~ Replying(t.messages[i], s)
    BY <2>1, <2>3
  <2> QED  BY <2>2, <2>3
<1>4. ms = [i \in DOMAIN t.messages |-> ms[i]] /\ \A i \in DOMAIN t.messages : ms[i] \in Message
  BY <1>3
<1>5. Chunked(t, s, n) = [t EXCEPT !.messages = ms]
  BY DEF Chunked
<1> HIDE DEF ms
<1> QED  BY <1>3, <1>4, <1>5, MessagesChange

\* The text of a message is kept, or a content has taken its place.
Replaced(old, new, content) ==
  new.text >= old.text \/ (new.status = "complete" /\ new.text = content)

\* What the last event of a stream makes of the message it answers.
LEMMA EndedIs ==
  ASSUME NEW t \in ThreadType, NEW s \in Send, NEW e \in Terminal,
         post[s].content \in NoContent..Full
  PROVE  LET u == Shown(t, s, e) IN
         /\ u \in ThreadType /\ u.chat = t.chat /\ u.sending = t.sending
         /\ u.checkpoint \in {t.checkpoint, s} /\ u.confirming = t.confirming
         /\ DOMAIN u.messages = DOMAIN t.messages
         /\ \A i \in DOMAIN t.messages :
              LET old == t.messages[i]
                  new == u.messages[i]
              IN  /\ new \in Message /\ new.role = old.role /\ new.send = old.send
                  /\ Replaced(old, new, post[s].content)
                  /\ ~ Replying(old, s) => new = old
<1> DEFINE content == post[s].content
           Change(m) == IF e = "failed" THEN [m EXCEPT !.status = "error"] ELSE Finished(m, content)
           ms == [i \in DOMAIN t.messages |->
                    IF Replying(t.messages[i], s) THEN Change(t.messages[i]) ELSE t.messages[i]]
           v == [t EXCEPT !.messages = ms]
           u == IF e = "confirmation_required" THEN [v EXCEPT !.checkpoint = s] ELSE v
<1>1. t.messages \in Seq(Message)
  BY DEF ThreadType
<1>2. ASSUME NEW m \in Message
      PROVE  LET c == Change(m) IN
             c \in Message /\ c.role = m.role /\ c.send = m.send /\ Replaced(m, c, content)
  <2>0. m.text \in 0..Full /\ m.text \in Nat /\ Full \in Nat
    BY Bounds DEF Message, Full
  <2>1. LET c == [m EXCEPT !.status = "error"] IN
        c \in Message /\ c.role = m.role /\ c.send = m.send /\ Replaced(m, c, content)
    BY <2>0 DEF Message, Replaced
  <2>2. LET c == Finished(m, content) IN
        c \in Message /\ c.role = m.role /\ c.send = m.send /\ Replaced(m, c, content)
    <3> DEFINE x == IF content = NoContent THEN m.text ELSE content
               c0 == [m EXCEPT !.text = x]
               c1 == [c0 EXCEPT !.status = "complete"]
    <3>1. x \in 0..Full /\ (x >= m.text \/ x = content)
      BY <2>0 DEF NoContent
    <3>2. Finished(m, content) = c1
      BY DEF Finished, Message
    <3> HIDE DEF x
    <3>3. c0 \in Message /\ c0.role = m.role /\ c0.send = m.send /\ c0.text = x
      BY <3>1 DEF Message
    <3> HIDE DEF c0
    <3>4. c1 \in Message /\ c1.role = m.role /\ c1.send = m.send /\ c1.text = x /\ c1.status = "complete"
      BY <3>3 DEF Message
    <3> HIDE DEF c1, content
    <3> QED  BY <3>1, <3>2, <3>4 DEF Replaced
  <2> QED  BY <2>1, <2>2
<1>3. Shown(t, s, e) = u
  <2>1. CASE e = "completed"
    BY <2>1 DEF Shown, WithReply
  <2>2. CASE e = "confirmation_required"
    BY <2>2 DEF Shown, WithReply
  <2>3. CASE e = "failed"
    BY <2>3 DEF Shown, WithReply
  <2> QED  BY <2>1, <2>2, <2>3 DEF Terminal
<1> HIDE DEF Change
<1>4. ASSUME NEW i \in DOMAIN t.messages
      PROVE  LET old == t.messages[i] IN
             /\ ms[i] \in Message /\ ms[i].role = old.role /\ ms[i].send = old.send
             /\ Replaced(old, ms[i], content)
             /\ ~ Replying(old, s) => ms[i] = old
  <2>1. t.messages[i] \in Message
    BY <1>1, MessagesOf
  <2>2. t.messages[i].text \in Nat
    BY <2>1, Bounds DEF Message, Full
  <2>3. Replaced(t.messages[i], t.messages[i], content)
    BY <2>2 DEF Replaced
  <2> QED  BY <1>2, <2>1, <2>3
<1>5. ms = [i \in DOMAIN t.messages |-> ms[i]] /\ \A i \in DOMAIN t.messages : ms[i] \in Message
  BY <1>4
<1> HIDE DEF ms
<1>6. /\ v \in ThreadType /\ v.messages = ms /\ DOMAIN ms = DOMAIN t.messages
      /\ v.chat = t.chat /\ v.sending = t.sending
      /\ v.checkpoint = t.checkpoint /\ v.confirming = t.confirming
  BY <1>5, MessagesChange
<1> HIDE DEF v
<1>7. /\ u \in ThreadType /\ u.messages = ms /\ u.chat = t.chat /\ u.sending = t.sending
      /\ u.checkpoint \in {t.checkpoint, s} /\ u.confirming = t.confirming
  <2>1. s \in 0..MaxSends
    BY Bounds
  <2> QED  BY <1>6, <2>1 DEF ThreadType
<1> HIDE DEF u
<1> QED  BY <1>3, <1>4, <1>6, <1>7

\* The text of a message is kept, or a content takes its place where the reply ends.
TextKept(old, new, content) ==
  \/ new.text >= old.text
  \/ old.status = "running" /\ new.status = "complete" /\ new.text = content

\* What u is after events, if t was the thread before them: at most the last of
\* them is not a chunk, and before that one the reply was running.
FollowsTo(t, s, events, u) ==
  /\ u \in ThreadType /\ u.chat = t.chat /\ u.sending = t.sending
  /\ u.checkpoint \in {t.checkpoint, s} /\ u.confirming = t.confirming
  /\ DOMAIN u.messages = DOMAIN t.messages
  /\ \A i \in DOMAIN t.messages :
       LET old == t.messages[i]
           new == u.messages[i]
       IN  /\ new \in Message /\ new.role = old.role /\ new.send = old.send
           /\ TextKept(old, new, post[s].content)
           /\ new.status # old.status =>
                /\ Replying(old, s) /\ old.status = "running"
                /\ \E k \in DOMAIN events : events[k] # "chunk"
           /\ ~ Replying(old, s) => new = old
           /\ Replying(old, s) /\ (\A k \in DOMAIN events : events[k] = "chunk") =>
                new.text = old.text + Len(events)

LEMMA FollowedIs ==
  ASSUME NEW t \in ThreadType, NEW s \in Send, NEW E \in Seq(Event), NEW h \in Nat,
         post[s].content \in NoContent..Full,
         \A k \in 1..(Len(E) - 1) : E[k] = "chunk",
         \A k \in DOMAIN E : E[k] = "chunk" => h + k <= MaxChunks,
         Len(E) # 0 =>
           \A i \in DOMAIN t.messages :
             Replying(t.messages[i], s) => t.messages[i].text <= h /\ t.messages[i].status = "running"
  PROVE  FollowsTo(t, s, E, Followed(t, s, E))
<1> DEFINE L == Len(E)
           u == Followed(t, s, E)
           n == L - 1
           c == Chunked(t, s, n)
<1>1. L \in Nat /\ DOMAIN E = 1..L /\ \A k \in DOMAIN E : E[k] \in Event
  OBVIOUS
<1>2. u = IF L = 0 THEN t ELSE Shown(c, s, E[L])
  BY FollowedSteps
<1>3. t.messages \in Seq(Message)
  BY DEF ThreadType
<1>4. \A i \in DOMAIN t.messages : t.messages[i] \in Message /\ t.messages[i].text \in Nat
  <2>1. \A m \in Message : m.text \in Nat
    BY Bounds DEF Message, Full
  <2> QED  BY <1>3, <2>1, MessagesOf
<1> SUFFICES FollowsTo(t, s, E, u)
  OBVIOUS
<1>5. CASE L = 0
  <2>1. u = t /\ t.checkpoint \in {t.checkpoint, s}
    BY <1>2, <1>5
  <2>2. \A i \in DOMAIN t.messages : TextKept(t.messages[i], t.messages[i], post[s].content)
    BY <1>4 DEF TextKept
  <2>3. \A i \in DOMAIN t.messages : t.messages[i].text = t.messages[i].text + L
    BY <1>4, <1>5
  <2> HIDE DEF u
  <2> QED  BY <1>4, <2>1, <2>2, <2>3 DEF FollowsTo
<1>6. CASE L # 0
  <2>1. n \in Nat /\ n + 1 = L /\ L \in DOMAIN E
    BY <1>1, <1>6
  <2>2. u = Shown(c, s, E[L])
    BY <1>2, <1>6
  <2>3. \A i \in DOMAIN t.messages :
          Replying(t.messages[i], s) => t.messages[i].text <= h /\ t.messages[i].status = "running"
    BY <1>6
  <2>4. n = 0 \/ h + n <= MaxChunks
    <3>1. CASE n # 0
      <4>1. n \in 1..(L - 1) /\ n \in DOMAIN E
        BY <1>1, <2>1, <3>1
      <4> QED  BY <4>1
    <3> QED  BY <3>1
  <2> HIDE DEF n, u
  <2>5. CASE E[L] = "chunk"
    <3>1. h + L <= MaxChunks
      BY <2>1, <2>5
    <3>2. u = Chunked(t, s, L)
      BY <2>1, <2>2, <2>5, ChunkedMore
    <3>3. \A i \in DOMAIN t.messages : Replying(t.messages[i], s) => t.messages[i].text + L <= Full
      BY <1>1, <1>4, <2>3, <3>1, Bounds DEF Full
    <3>4. /\ u \in ThreadType /\ u.chat = t.chat /\ u.sending = t.sending
          /\ u.checkpoint = t.checkpoint /\ u.confirming = t.confirming
          /\ DOMAIN u.messages = DOMAIN t.messages
          /\ \A i \in DOMAIN t.messages :
               LET old == t.messages[i]
                   new == u.messages[i]
               IN  /\ new \in Message /\ new.role = old.role /\ new.send = old.send /\ new.status = old.status
                   /\ IF Replying(old, s) THEN new.text = old.text + L ELSE new = old
      BY <1>1, <3>2, <3>3, ChunkedIs
    <3>5. \A i \in DOMAIN t.messages : TextKept(t.messages[i], u.messages[i], post[s].content)
      <4>1. \A i \in DOMAIN t.messages : u.messages[i].text >= t.messages[i].text
        BY <1>1, <1>4, <3>4
      <4> QED  BY <4>1 DEF TextKept
    <3> QED  BY <3>4, <3>5 DEF FollowsTo
  <2>6. CASE E[L] # "chunk"
    <3>1. E[L] \in Terminal
      BY <1>1, <2>1, <2>6 DEF Event
    <3>2. \A i \in DOMAIN t.messages : Replying(t.messages[i], s) => t.messages[i].text + n <= Full
      <4>1. \A i \in DOMAIN t.messages : t.messages[i].text <= Full
        <5>1. \A m \in Message : m.text <= Full
          BY Bounds DEF Message, Full
        <5> QED  BY <1>3, <5>1, MessagesOf
      <4> QED  BY <1>4, <2>1, <2>3, <2>4, <4>1, Bounds DEF Full
    <3>3. /\ c \in ThreadType /\ c.chat = t.chat /\ c.sending = t.sending
          /\ c.checkpoint = t.checkpoint /\ c.confirming = t.confirming
          /\ DOMAIN c.messages = DOMAIN t.messages
          /\ \A i \in DOMAIN t.messages :
               LET old == t.messages[i]
                   new == c.messages[i]
               IN  /\ new \in Message /\ new.role = old.role /\ new.send = old.send /\ new.status = old.status
                   /\ IF Replying(old, s) THEN new.text = old.text + n ELSE new = old
      BY <2>1, <3>2, ChunkedIs
    <3> HIDE DEF c
    <3>4. /\ u \in ThreadType /\ u.chat = c.chat /\ u.sending = c.sending
          /\ u.checkpoint \in {c.checkpoint, s} /\ u.confirming = c.confirming
          /\ DOMAIN u.messages = DOMAIN c.messages
          /\ \A i \in DOMAIN c.messages :
               LET old == c.messages[i]
                   new == u.messages[i]
               IN  /\ new \in Message /\ new.role = old.role /\ new.send = old.send
                   /\ Replaced(old, new, post[s].content)
                   /\ ~ Replying(old, s) => new = old
      BY <2>2, <3>1, <3>3, EndedIs
    <3>5. ASSUME NEW i \in DOMAIN t.messages
          PROVE  LET old == t.messages[i]
                     new == u.messages[i]
                 IN  /\ new \in Message /\ new.role = old.role /\ new.send = old.send
                     /\ TextKept(old, new, post[s].content)
                     /\ ~ Replying(old, s) => new = old
      <4> DEFINE old == t.messages[i]
                 mid == c.messages[i]
                 new == u.messages[i]
      <4>1. /\ mid \in Message /\ mid.role = old.role /\ mid.send = old.send
            /\ IF Replying(old, s) THEN mid.text = old.text + n ELSE mid = old
        BY <3>3
      <4>2. /\ new \in Message /\ new.role = mid.role /\ new.send = mid.send
            /\ Replaced(mid, new, post[s].content)
            /\ ~ Replying(mid, s) => new = mid
        BY <3>3, <3>4
      <4>3. old \in Message /\ old.text \in Nat
        BY <1>4
      <4>4. Replying(mid, s) <=> Replying(old, s)
        BY <4>1 DEF Replying
      <4>5. new.text \in Nat
        <5>1. \A m \in Message : m.text \in Nat
          BY Bounds DEF Message, Full
        <5> QED  BY <4>2, <5>1
      <4>7. Replying(old, s) => old.status = "running"
        BY <2>3
      <4> HIDE DEF old, mid, new
      <4>8. ASSUME Replying(old, s)  PROVE TextKept(old, new, post[s].content)
        <5>1. new.text >= old.text \/ (new.status = "complete" /\ new.text = post[s].content)
          BY <2>1, <4>1, <4>2, <4>3, <4>5, <4>8 DEF Replaced
        <5> QED  BY <4>7, <4>8, <5>1 DEF TextKept
      <4>9. ASSUME ~ Replying(old, s)  PROVE TextKept(old, new, post[s].content)
        <5>1. new = old
          BY <4>1, <4>2, <4>4, <4>9
        <5> QED  BY <4>3, <5>1 DEF TextKept
      <4>6. TextKept(old, new, post[s].content)
        BY <4>8, <4>9
      <4> QED  BY <4>1, <4>2, <4>4, <4>6 DEF old, mid, new
    <3>6. L \in DOMAIN E /\ E[L] # "chunk"
      BY <2>1, <2>6
    <3> HIDE DEF L
    <3>7. DOMAIN u.messages = DOMAIN t.messages
      BY <3>3, <3>4
    <3>8. /\ u.chat = t.chat /\ u.sending = t.sending
          /\ u.checkpoint \in {t.checkpoint, s} /\ u.confirming = t.confirming
      BY <3>3, <3>4
    <3> QED  BY <2>3, <3>4, <3>5, <3>6, <3>7, <3>8 DEF FollowsTo
  <2> QED  BY <2>5, <2>6
<1> QED  BY <1>5, <1>6

\* The events that one read hands on, E, are the next ones of the stream; a
\* terminal event is the last of them.
Handing(p, E, handed) ==
  /\ E \in Seq(Event) /\ handed \in Seq(Event)
  /\ Len(p.handed) \in Nat /\ Len(handed) = Len(p.handed) + Len(E)
  /\ \A k \in 1..(Len(E) - 1) : E[k] = "chunk"
  /\ \A k \in DOMAIN E : E[k] = "chunk" => Len(p.handed) + k <= MaxChunks
  /\ Len(E) # 0 => \A k \in DOMAIN p.handed : p.handed[k] = "chunk"
  /\ (\A k \in DOMAIN handed : handed[k] = "chunk") =>
       (\A k \in DOMAIN p.handed : p.handed[k] = "chunk") /\ (\A k \in DOMAIN E : E[k] = "chunk")
  /\ (\E k \in DOMAIN E : E[k] # "chunk") => \E j \in DOMAIN p.sent : p.sent[j] # "chunk"

LEMMA OneRead ==
  ASSUME NEW p \in PostType, StreamInv(p), SentInv(p), NEW n \in Nat, p.read + n <= 3 * Len(p.sent)
  PROVE  LET parsed == Parsed(p.buffer \o SubSeq(Bytes(p.sent), p.read + 1, p.read + n)) IN
         /\ parsed.buffer \in Seq(Event \cup {Newline})
         /\ parsed.buffer = SubSeq(Bytes(p.sent), 3 * ((p.read + n) \div 3) + 1, p.read + n)
         /\ p.handed \o parsed.events = SubSeq(p.sent, 1, (p.read + n) \div 3)
         /\ Handing(p, parsed.events, p.handed \o parsed.events)
<1> DEFINE parsed == Parsed(p.buffer \o SubSeq(Bytes(p.sent), p.read + 1, p.read + n))
           h == p.read \div 3
           q == (p.read + n) \div 3
           sent == p.sent
           E == parsed.events
           handed == p.handed \o E
<1>1. sent \in Seq(Event) /\ p.read \in Nat /\ Len(sent) \in Nat
  BY DEF PostType
<1>2. /\ E = SubSeq(sent, h + 1, q)
      /\ parsed.buffer = SubSeq(Bytes(sent), 3 * q + 1, p.read + n)
      /\ handed = SubSeq(sent, 1, q)
  BY <1>1, ReadIs
<1>3. p.handed = SubSeq(sent, 1, h)
  BY DEF StreamInv
<1>a. p.read + n \in Nat /\ p.read <= p.read + n /\ p.read + n <= 3 * Len(sent)
  BY <1>1
<1>b. h \in Nat /\ q \in Nat
  BY <1>1, <1>a, Thirds
<1>4. h \in Nat /\ q \in Nat /\ h <= q /\ q <= Len(sent) /\ p.read + n \in Nat /\ p.read + n <= 3 * Len(sent)
  BY <1>1, <1>a, <1>b, Thirds
<1>5. parsed.buffer \in Seq(Event \cup {Newline})
  <2>1. Bytes(sent) \in Seq(Event \cup {Newline}) /\ Len(Bytes(sent)) = 3 * Len(sent)
    BY <1>1, BytesAre
  <2> DEFINE bytes == Bytes(sent)
             a == 3 * q
             z == p.read + n
  <2>2. bytes \in Seq(Event \cup {Newline}) /\ a \in Nat /\ z \in Nat /\ a <= z /\ z <= Len(bytes)
    BY <1>4, <2>1
  <2>3. parsed.buffer = SubSeq(bytes, a + 1, z)
    BY <1>2
  <2> HIDE DEF bytes, a, z, parsed
  <2> QED  BY <2>2, <2>3, Stretch
<1>6. \A i \in DOMAIN sent : IF sent[i] = "chunk" THEN i <= MaxChunks ELSE i = Len(sent)
  BY DEF SentInv
<1> HIDE DEF h, q, parsed, sent
<1>7. /\ E \in Seq(Event) /\ Len(E) = q - h /\ \A k \in 1..(q - h) : E[k] = sent[h + k] /\ h + k \in DOMAIN sent
  <2>1. h + 1 \in Nat
    BY <1>4
  <2>2. E = SubSeq(sent, h + 1, q)
    BY <1>2
  <2> HIDE DEF E
  <2>3. E \in Seq(Event) /\ Len(E) = q - h /\ \A k \in 1..(q - h) : E[k] = sent[h + k]
    BY <1>1, <1>4, <2>2, Stretch
  <2>4. \A k \in 1..(q - h) : h + k \in DOMAIN sent
    BY <1>1, <1>4
  <2> QED  BY <2>3, <2>4
<1>8. /\ handed \in Seq(Event) /\ Len(handed) = q /\ \A k \in 1..q : handed[k] = sent[k] /\ k \in DOMAIN sent
  <2> HIDE DEF handed
  <2> QED  BY <1>1, <1>2, <1>4
<1>9. Len(p.handed) = h /\ DOMAIN p.handed = 1..h /\ \A k \in 1..h : p.handed[k] = sent[k] /\ k \in DOMAIN sent
  BY <1>1, <1>3, <1>4
<1> HIDE DEF E, handed
<1>10. DOMAIN E = 1..(q - h) /\ DOMAIN handed = 1..q
  BY <1>7, <1>8
<1>11. \A k \in 1..(Len(E) - 1) : E[k] = "chunk"
  BY <1>1, <1>4, <1>6, <1>7
<1>12. \A k \in DOMAIN E : E[k] = "chunk" => Len(p.handed) + k <= MaxChunks
  BY <1>6, <1>7, <1>9, <1>10
<1>13. Len(E) # 0 => \A k \in DOMAIN p.handed : p.handed[k] = "chunk"
  BY <1>1, <1>4, <1>6, <1>7, <1>9
<1>14. ASSUME \A k \in DOMAIN handed : handed[k] = "chunk"
       PROVE  (\A k \in DOMAIN p.handed : p.handed[k] = "chunk") /\ (\A k \in DOMAIN E : E[k] = "chunk")
  <2>1. \A k \in 1..q : sent[k] = "chunk"
    BY <1>8, <1>10, <1>14
  <2>2. \A k \in 1..h : k \in 1..q
    BY <1>4
  <2>3. \A k \in 1..(q - h) : h + k \in 1..q
    BY <1>4
  <2> QED  BY <1>7, <1>9, <1>10, <2>1, <2>2, <2>3
<1>15. (\E k \in DOMAIN E : E[k] # "chunk") => \E j \in DOMAIN sent : sent[j] # "chunk"
  BY <1>7, <1>10
<1>16. Len(p.handed) \in Nat /\ Len(handed) = Len(p.handed) + Len(E)
  BY <1>4, <1>7, <1>8, <1>9
<1>17. Handing(p, E, handed)
  BY <1>7, <1>8, <1>11, <1>12, <1>13, <1>14, <1>15, <1>16 DEF Handing, sent
<1> QED  BY <1>2, <1>5, <1>17 DEF parsed, E, handed, sent, q

\* A read changes what its reader holds and nothing else of the posts.
LEMMA ReadPost ==
  ASSUME IInv, NEW s \in Send, Read(s)
  PROVE  \E E \in Seq(Event), handed \in Seq(Event) :
           /\ thread' = IF thread.sending = s THEN Followed(thread, s, E) ELSE thread
           /\ Handing(post[s], E, handed)
           /\ post' \in [Send -> PostType]
           /\ \A r \in Send : r # s => post'[r] = post[r]
           /\ \A r \in Send : post'[r].server = post[r].server /\ post'[r].chat = post[r].chat
                              /\ post'[r].net = post[r].net
           /\ post'[s].sent = post[s].sent /\ post'[s].handed = handed
           /\ \A r \in Send : PostInv(r)'
           /\ faults' \in 0..MaxFaults
<1> DEFINE q == post[s]
<1>0. TypeOK /\ PostInv(s) /\ post \in [Send -> PostType] /\ q \in PostType /\ rows' = rows
  BY Typed DEF IInv, Read, server
<1>1. StreamInv(q) /\ SentInv(q) /\ q.sent \in Seq(Event) /\ q.read \in Nat /\ Len(q.sent) \in Nat
  <2>1. StreamInv(q) /\ SentInv(q)
    BY <1>0 DEF PostInv
  <2>2. \A p \in PostType : p.sent \in Seq(Event) /\ p.read \in Nat
    BY DEF PostType
  <2> HIDE DEF q
  <2>3. q.sent \in Seq(Event) /\ q.read \in Nat
    BY <1>0, <2>2
  <2> QED  BY <2>1, <2>3
<1>2. PICK n \in 1..Unread(s) :
         LET parsed == Parsed(q.buffer \o SubSeq(Bytes(q.sent), q.read + 1, q.read + n)) IN
         /\ \/ (q.read + n) % 3 = 0 /\ UNCHANGED faults
            \/ (q.read + n) % 3 # 0 /\ faults < MaxFaults /\ faults' = faults + 1
         /\ post' = [post EXCEPT ![s].read = @ + n,
                                 ![s].buffer = parsed.buffer,
                                 ![s].handed = @ \o parsed.events]
         /\ thread' = IF thread.sending = s THEN Followed(thread, s, parsed.events) ELSE thread
  BY Zenon DEF Read
<1>3. n \in Nat /\ q.read + n <= 3 * Len(q.sent)
  <2>1. n \in 1..(3 * Len(q.sent) - q.read)
    BY <1>2 DEF Unread
  <2> HIDE DEF q
  <2> QED  BY <1>1, <2>1
<1> DEFINE parsed == Parsed(q.buffer \o SubSeq(Bytes(q.sent), q.read + 1, q.read + n))
           E == parsed.events
           buffer == parsed.buffer
           handed == q.handed \o E
           p0 == [q EXCEPT !.read = q.read + n]
           p1 == [p0 EXCEPT !.buffer = buffer]
           p == [p1 EXCEPT !.handed = handed]
<1>4. /\ buffer \in Seq(Event \cup {Newline})
      /\ buffer = SubSeq(Bytes(q.sent), 3 * ((q.read + n) \div 3) + 1, q.read + n)
      /\ handed = SubSeq(q.sent, 1, (q.read + n) \div 3)
      /\ Handing(q, E, handed)
  BY <1>0, <1>1, <1>3, OneRead, Zenon
<1>5. E \in Seq(Event) /\ handed \in Seq(Event)
  BY <1>4, Zenon DEF Handing
<1>6. thread' = IF thread.sending = s THEN Followed(thread, s, E) ELSE thread
  BY <1>2
<1>7. post' = [post EXCEPT ![s] = p]
  BY <1>0, <1>2 DEF PostType
<1>8. faults' \in 0..MaxFaults
  BY <1>0, <1>2, Counted
<1> HIDE DEF parsed, E, buffer, handed
<1>9. /\ p \in PostType /\ p.chat = q.chat /\ p.server = q.server /\ p.net = q.net
      /\ p.sent = q.sent /\ p.read = q.read + n /\ p.buffer = buffer /\ p.handed = handed
  <2>1. q \in PostType /\ q.read + n \in Nat
    BY <1>0, <1>1, <1>3
  <2> HIDE DEF q
  <2>2. /\ p0 \in PostType /\ p0.chat = q.chat /\ p0.server = q.server /\ p0.net = q.net
        /\ p0.sent = q.sent /\ p0.read = q.read + n
    BY <2>1 DEF PostType
  <2> HIDE DEF p0
  <2>3. /\ p1 \in PostType /\ p1.chat = q.chat /\ p1.server = q.server /\ p1.net = q.net
        /\ p1.sent = q.sent /\ p1.read = q.read + n /\ p1.buffer = buffer
    BY <1>4, <2>2 DEF PostType
  <2> HIDE DEF p1
  <2> QED  BY <1>5, <2>3 DEF PostType
<1> HIDE DEF p, p0, p1
<1>10. post' \in [Send -> PostType] /\ post'[s] = p /\ \A r \in Send : r # s => post'[r] = post[r]
  BY <1>0, <1>7, <1>9, PostChanges
<1>11. \A r \in Send : post'[r].server = post[r].server /\ post'[r].chat = post[r].chat /\ post'[r].net = post[r].net
  BY <1>9, <1>10
<1>12. PostsStay /\ RowsStay
  BY <1>0, <1>11 DEF PostsStay, RowsStay
<1>13. PostInv(s)'
  <2>0. q.net \in {"open", "closed"}
    BY DEF Read
  <2>1. q.server \in {"working", "done"}
    BY <1>0, <2>0 DEF PostInv
  <2>2. \A r \in 1..(s - 1) : r \in Send
    BY Bounds
  <2>3. StreamInv(p)
    BY <1>3, <1>4, <1>9 DEF StreamInv
  <2>4. SentInv(p)
    BY <1>1, <1>9 DEF SentInv
  <2> QED  BY <1>0, <1>9, <1>10, <1>11, <2>0, <2>1, <2>2, <2>3, <2>4 DEF PostInv
<1>14. \A r \in Send : PostInv(r)'
  BY <1>10, <1>12, <1>13, PostKept
<1> QED  BY <1>4, <1>5, <1>6, <1>8, <1>9, <1>10, <1>11, <1>14

\* What the page makes of it.
LEMMA ReadThread ==
  ASSUME IInv, NEW s \in Send, NEW E \in Seq(Event), NEW handed \in Seq(Event),
         Handing(post[s], E, handed), thread.sending = s
  PROVE  FollowsTo(thread, s, E, Followed(thread, s, E)) /\ SendingInv(s) /\ thread.chat # 0
<1> DEFINE h == Len(post[s].handed)
<1>1. thread \in ThreadType /\ ThreadInv /\ s # 0
  BY Typed, Bounds DEF IInv
<1>2. SendingInv(s) /\ thread.chat # 0
  BY <1>1 DEF ThreadInv, NoThread
<1>3. Len(E) # 0 =>
        \A i \in DOMAIN thread.messages :
          Replying(thread.messages[i], s) => thread.messages[i].text <= h /\ thread.messages[i].status = "running"
  BY <1>2 DEF SendingInv, ReplyInv, Handing
<1>4. h \in Nat /\ (\A k \in 1..(Len(E) - 1) : E[k] = "chunk")
      /\ (\A k \in DOMAIN E : E[k] = "chunk" => h + k <= MaxChunks)
  BY DEF Handing
<1>5. post[s].content \in NoContent..Full
  BY Typed DEF IInv, PostType
<1> HIDE DEF h
<1> QED  BY <1>1, <1>2, <1>3, <1>4, <1>5, FollowedIs

LEMMA ByRead ==
  ASSUME IInv, NEW s \in Send, Read(s)
  PROVE  IInv'
<1>0. /\ TypeOK /\ RowsInv /\ ThreadInv /\ CompleteIsStored /\ SessionInv /\ ReadInv /\ RowsShown
      /\ (\A k \in tasks : TaskInv(k)) /\ PostInv(s)
  BY DEF IInv
<1>1. PICK E \in Seq(Event), handed \in Seq(Event) :
         /\ thread' = IF thread.sending = s THEN Followed(thread, s, E) ELSE thread
         /\ Handing(post[s], E, handed)
         /\ post' \in [Send -> PostType]
         /\ \A r \in Send : r # s => post'[r] = post[r]
         /\ \A r \in Send : post'[r].server = post[r].server /\ post'[r].chat = post[r].chat
                            /\ post'[r].net = post[r].net
         /\ post'[s].sent = post[s].sent /\ post'[s].handed = handed
         /\ \A r \in Send : PostInv(r)'
         /\ faults' \in 0..MaxFaults
  BY ReadPost
<1>2. /\ rows' = rows /\ created' = created /\ session' = session /\ page' = page /\ list' = list
      /\ active' = active /\ failed' = failed /\ loading' = loading /\ tasks' = tasks /\ newest' = newest
      /\ unseen' = unseen /\ uses' = uses
  BY DEF Read, server, workspace, history
<1>3. \A r \in Send : post'[r].server = post[r].server /\ post'[r].chat = post[r].chat /\ post'[r].net = post[r].net
  BY <1>1
<1>4. thread \in ThreadType /\ DOMAIN thread.messages = 1..Len(thread.messages) /\ Len(thread.messages) \in Nat
      /\ \A i \in DOMAIN thread.messages : thread.messages[i] \in Message /\ thread.messages[i].send \in Send
  BY <1>0, Typed, TypedMessages
<1>5. thread.sending = s =>
        FollowsTo(thread, s, E, thread') /\ SendingInv(s) /\ thread.chat # 0
  BY <1>1, ReadThread
<1>6. thread.sending # s => thread' = thread
  BY <1>1
<1> DEFINE Ended == \E k \in DOMAIN E : E[k] # "chunk"
<1>7. /\ thread' \in ThreadType /\ thread'.chat = thread.chat /\ thread'.sending = thread.sending
      /\ DOMAIN thread'.messages = DOMAIN thread.messages
      /\ thread'.checkpoint = thread.checkpoint \/ (thread.sending = s /\ thread'.checkpoint = s)
      /\ \A i \in DOMAIN thread.messages :
           /\ thread'.messages[i].role = thread.messages[i].role
           /\ thread'.messages[i].send = thread.messages[i].send
           /\ thread'.messages[i].status # thread.messages[i].status =>
                thread.sending = s /\ Replying(thread.messages[i], s) /\ Ended
  <2>1. CASE thread.sending = s
    BY <1>5, <2>1 DEF FollowsTo
  <2>2. CASE thread.sending # s
    BY <1>4, <1>6, <2>2
  <2> QED  BY <2>1, <2>2
<1>8. post[s].server # "idle" /\ post[s].net # "over"
  <2>1. post[s].net \in {"open", "closed"}
    BY DEF Read
  <2> QED  BY <1>0, <2>1 DEF PostInv
<1>9. session = "in"
  BY <1>0, <1>8 DEF SessionInv
<1>10. TypeOK'
  BY <1>0, <1>1, <1>2, <1>7 DEF TypeOK, PostType, ThreadType
<1>11. RowsInv'
  <2>1. \A c \in Chat : \A i \in DOMAIN rows[c] : rows[c][i].send \in Send
    BY <1>0, Typed, TypedRows
  <2> QED  BY <1>0, <1>2, <1>3, <2>1 DEF RowsInv
<1>12. ThreadInv'
  <2>1. thread'.chat = 0 => thread' = NoThread
    BY <1>0, <1>5, <1>6, <1>7 DEF ThreadInv
  <2>2. \A i \in DOMAIN thread'.messages : post'[thread'.messages[i].send].server # "idle"
    BY <1>0, <1>3, <1>4, <1>7 DEF ThreadInv
  <2>3. thread'.checkpoint # 0 => post'[thread'.checkpoint].server # "idle"
    <3>1. CASE thread'.checkpoint = s
      BY <1>3, <1>8, <3>1
    <3>2. CASE thread'.checkpoint = thread.checkpoint
      <4>1. thread.checkpoint # 0 => thread.checkpoint \in Send /\ post[thread.checkpoint].server # "idle"
        BY <1>0, <1>4, Bounds DEF ThreadInv, ThreadType
      <4> QED  BY <1>3, <3>2, <4>1
    <3> QED  BY <1>7, <3>1, <3>2
  <2>4. CASE thread.sending = s
    <3>0. SendingInv(s) /\ s \in Nat
      BY <1>5, <2>4, Bounds
    <3>1. thread'.checkpoint <= s
      BY <1>7, <3>0 DEF SendingInv
    <3>2. Has(thread'.messages, "user", s) /\ Has(thread'.messages, "assistant", s)
      BY <1>7, <3>0 DEF SendingInv, Has
    <3>3. ASSUME NEW i \in DOMAIN thread'.messages, Replying(thread'.messages[i], s),
                 \A k \in DOMAIN handed : handed[k] = "chunk"
          PROVE  thread'.messages[i].text <= Len(handed) /\ thread'.messages[i].status = "running"
      <4>1. (\A k \in DOMAIN post[s].handed : post[s].handed[k] = "chunk") /\ (\A k \in DOMAIN E : E[k] = "chunk")
            /\ Len(handed) = Len(post[s].handed) + Len(E) /\ Len(post[s].handed) \in Nat
        BY <1>1, <3>3 DEF Handing
      <4>2. i \in DOMAIN thread.messages /\ Replying(thread.messages[i], s)
        BY <1>7, <3>3 DEF Replying
      <4>3. thread.messages[i].text <= Len(post[s].handed) /\ thread.messages[i].status = "running"
        BY <3>0, <4>1, <4>2 DEF SendingInv, ReplyInv
      <4>4. thread'.messages[i].text = thread.messages[i].text + Len(E)
            /\ thread'.messages[i].status = thread.messages[i].status
        BY <1>5, <2>4, <4>1, <4>2 DEF FollowsTo
      <4>5. thread.messages[i].text \in Nat /\ Len(E) \in Nat
        <5>1. \A m \in Message : m.text \in Nat
          BY Bounds DEF Message, Full
        <5> QED  BY <1>4, <4>2, <5>1
      <4> QED  BY <4>1, <4>3, <4>4, <4>5
    <3>4. \A i \in DOMAIN thread'.messages :
            Replying(thread'.messages[i], s) => ReplyInv(thread'.messages[i], post'[s].handed)
      BY <1>1, <3>3 DEF ReplyInv
    <3>5. post'[s].server # "idle" /\ post'[s].chat = thread'.chat
      BY <1>3, <1>7, <3>0 DEF SendingInv
    <3>6. SendingInv(s)'
      BY <3>1, <3>2, <3>4, <3>5 DEF SendingInv
    <3>7. (thread.sending # 0 => SendingInv(thread.sending))'
      BY <1>7, <2>4, <3>6 DEF SendingInv
    <3> QED  BY <2>1, <2>2, <2>3, <3>7 DEF ThreadInv
  <2>5. CASE thread.sending # s
    <3>1. (thread.sending # 0 => SendingInv(thread.sending))'
      <4>1. CASE thread.sending = 0
        BY <1>7, <4>1
      <4>2. CASE thread.sending # 0
        <5>1. thread.sending \in Send /\ SendingInv(thread.sending) /\ post'[thread.sending] = post[thread.sending]
          BY <1>0, <1>1, <1>4, <2>5, <4>2, Bounds DEF ThreadInv, ThreadType
        <5> QED  BY <1>6, <2>5, <5>1 DEF SendingInv
      <4> QED  BY <4>1, <4>2
    <3> QED  BY <2>1, <2>2, <2>3, <3>1 DEF ThreadInv
  <2> QED  BY <2>4, <2>5
<1>13. CompleteIsStored'
  <2>1. ASSUME NEW i \in DOMAIN thread'.messages, thread'.messages[i].status = "complete"
        PROVE  Has(rows[thread.chat], "assistant", thread'.messages[i].send)
    <3>1. i \in DOMAIN thread.messages /\ thread'.messages[i].send = thread.messages[i].send
      BY <1>7, <2>1
    <3>2. CASE thread.messages[i].status = "complete"
      BY <1>0, <3>1, <3>2 DEF CompleteIsStored, Has
    <3>3. CASE thread.messages[i].status # "complete"
      <4>1. thread.sending = s /\ Replying(thread.messages[i], s) /\ Ended
        BY <1>7, <2>1, <3>1, <3>3
      <4>2. \E j \in DOMAIN post[s].sent : post[s].sent[j] # "chunk"
        BY <1>1, <4>1 DEF Handing
      <4>3. Has(rows[post[s].chat], "assistant", s) /\ post[s].chat = thread.chat
        BY <1>0, <1>5, <4>1, <4>2 DEF PostInv, SendingInv
      <4> QED  BY <3>1, <4>1, <4>3 DEF Replying
    <3> QED  BY <3>2, <3>3
  <2> QED  BY <1>2, <1>7, <2>1 DEF CompleteIsStored, Has
<1>14. SessionInv'
  BY <1>2, <1>9 DEF SessionInv
<1>15. \A k \in tasks' : TaskInv(k)'
  <2>1. ASSUME NEW k \in tasks  PROVE TaskInv(k)'
    <3>1. TaskInv(k)
      BY <1>0
    <3> QED  BY <1>2, <1>3, <3>1 DEF TaskInv
  <2> QED  BY <1>2, <2>1
<1>16. ReadInv'
  <2>1. ReadInv
    BY <1>0
  <2> QED  BY <1>2, <1>3, <1>7, <2>1 DEF ReadInv, Awaited
<1>17. RowsShown'
  <2>1. RowsShown
    BY <1>0
  <2> QED  BY <1>2, <1>7, <2>1 DEF RowsShown
<1> QED  BY <1>1, <1>10, <1>11, <1>12, <1>13, <1>14, <1>15, <1>16, <1>17 DEF IInv

-----------------------------------------------------------------------------
(***************************************************************************)
(* The invariant.                                                          *)
(***************************************************************************)
LEMMA Initially ==
  ASSUME Init
  PROVE  IInv
<1>1. /\ rows = [c \in Chat |-> <<>>] /\ post = [s \in Send |-> Unsent] /\ session = "out"
      /\ active = NoChat /\ thread = NoThread /\ tasks = {} /\ newest = [c \in Chat |-> 0]
  BY DEF Init
<1>2. TypeOK
  <2>1. Unsent \in PostType
    <3>1. NoContent \in NoContent..Full
      BY Bounds DEF NoContent, Full
    <3> QED  BY <3>1, Bounds DEF Unsent, PostType
  <2>2. NoThread \in ThreadType
    BY Bounds DEF NoThread, ThreadType
  <2>3. NoChat \in [chat : 0..MaxChats, upTo : Nat]
    BY Bounds DEF NoChat
  <2>4. rows \in [Chat -> Seq(Row)] /\ newest \in [Chat -> Nat]
    BY <1>1
  <2>5. thread.chat = Displayed(page, failed, active)
    BY <1>1 DEF Displayed, NoThread, NoChat
  <2>6. created \in 0..MaxChats /\ uses \in 0..MaxUses /\ faults \in 0..MaxFaults /\ list \in 0..MaxChats
    BY Bounds DEF Init
  <2>7. post \in [Send -> PostType]
    BY <1>1, <2>1
  <2>8. /\ session \in {"out", "signing", "in"} /\ page \in {"chat", "other"}
        /\ {failed, loading} \subseteq BOOLEAN /\ unseen \subseteq Send
    BY DEF Init
  <2> QED  BY <1>1, <2>2, <2>3, <2>4, <2>5, <2>6, <2>7, <2>8 DEF TypeOK, PostType, ThreadType
<1>3. ASSUME NEW s \in Send  PROVE PostInv(s)
  <2>1. post[s] = Unsent
    BY <1>1
  <2>2. StreamInv(Unsent) /\ SentInv(Unsent)
    <3>1. Len(<<>>) = 0 /\ 0 \div 3 = 0 /\ SubSeq(<<>>, 1, 0) = <<>>
      OBVIOUS
    <3>2. SubSeq(Bytes(<<>>), 1, 0) = <<>>
      <4>1. <<>> \in Seq(Event)
        OBVIOUS
      <4>2. Bytes(<<>>) \in Seq(Event \cup {Newline})
        BY <4>1, BytesAre
      <4> QED  BY <4>2
    <3> QED  BY <3>1, <3>2 DEF StreamInv, SentInv, Unsent
  <2> QED  BY <2>1, <2>2 DEF PostInv, Unsent
<1>4. RowsInv
  BY <1>1 DEF RowsInv
<1>5. ThreadInv /\ CompleteIsStored /\ RowsShown
  BY <1>1 DEF ThreadInv, CompleteIsStored, RowsShown, NoThread
<1>6. SessionInv
  BY <1>1 DEF SessionInv, Unsent
<1>7. ReadInv /\ \A t \in tasks : TaskInv(t)
  BY <1>1 DEF ReadInv
<1> QED  BY <1>2, <1>3, <1>4, <1>5, <1>6, <1>7 DEF IInv

LEMMA ByNothing ==
  ASSUME IInv, UNCHANGED vars
  PROVE  IInv'
<1>1. /\ created' = created /\ rows' = rows /\ post' = post /\ session' = session /\ page' = page
      /\ list' = list /\ active' = active /\ failed' = failed /\ loading' = loading /\ thread' = thread
      /\ tasks' = tasks /\ uses' = uses /\ faults' = faults /\ newest' = newest /\ unseen' = unseen
  BY DEF vars, server, workspace, bounds, history
<1>2. TypeOK'
  BY <1>1 DEF IInv, TypeOK
<1>3. \A s \in Send : PostInv(s)'
  BY <1>1 DEF IInv, PostInv
<1>4. RowsInv' /\ CompleteIsStored' /\ RowsShown'
  BY <1>1 DEF IInv, RowsInv, CompleteIsStored, RowsShown
<1>5. ThreadInv'
  BY <1>1 DEF IInv, ThreadInv, SendingInv
<1>6. SessionInv' /\ ReadInv'
  BY <1>1 DEF IInv, SessionInv, ReadInv, Awaited
<1>7. \A t \in tasks' : TaskInv(t)'
  BY <1>1 DEF IInv, TaskInv
<1> QED  BY <1>2, <1>3, <1>4, <1>5, <1>6, <1>7 DEF IInv

LEMMA NextStep ==
  ASSUME IInv, [Next]_vars
  PROVE  IInv'
<1>1. CASE SubmitLogin \/ LoginAnswered \/ Logout \/ Reload
  BY <1>1, BySubmitLogin, ByLoginAnswered, ByLogout, ByReload
<1>2. CASE \E p \in {"chat", "other"} : ShowPage(p)
  BY <1>2, ByShowPage
<1>3. CASE (\E c \in Chat : ClickChat(c)) \/ NewChat \/ HandleConfirm
  BY <1>3, ByClickChat, ByNewChat, ByHandleConfirm
<1>4. ASSUME NEW t \in tasks, Serve(t) \/ Refuse(t) \/ TaskStep(t)
      PROVE  IInv'
  <2>1. CASE Serve(t) \/ Refuse(t)
    BY <2>1, ByServe, ByRefuse
  <2>2. CASE Listed(t) \/ ChatCreated(t) \/ LoadFailed(t)
    BY <2>2, ByListed, ByChatCreated, ByLoadFailed
  <2>3. CASE Opened(t) \/ Reloaded(t) \/ Confirmed(t)
    BY <2>3, ByOpened, ByReloaded, ByConfirmed
  <2> QED  BY <1>4, <2>1, <2>2, <2>3 DEF TaskStep
<1>5. ASSUME NEW s \in Send, SendMessage(s) \/ Read(s) \/ StreamEnded(s) \/ StreamFailed(s)
      PROVE  IInv'
  BY <1>5, BySendMessage, ByRead, ByStreamEnded, ByStreamFailed
<1>6. ASSUME NEW s \in Send, Accept(s) \/ Reject(s) \/ CutShort(s) \/ Disconnect(s)
      PROVE  IInv'
  BY <1>6, ByAccept, ByReject, ByCutShort, ByDisconnect
<1>7. CASE \E s \in Send, event \in Event : Emit(s, event)
  BY <1>7, ByEmit
<1>8. CASE UNCHANGED vars
  BY <1>8, ByNothing
<1> QED  BY <1>1, <1>2, <1>3, <1>4, <1>5, <1>6, <1>7, <1>8 DEF Next

\* The page keeps its inductive invariant: whatever the order of clicks, answers,
\* reads and faults, what its components hold belongs together.
THEOREM PageInvariant == Spec => []IInv
<1>1. Init => IInv
  BY Initially
<1>2. IInv /\ [Next]_vars => IInv'
  BY NextStep
<1> QED  BY <1>1, <1>2, PTL DEF Spec

\* Types of the page's state; the mounted thread is that of the chat that the
\* workspace displays, after every render (App.tsx, the key of ChatThread).
THEOREM PageTypes == Spec => []TypeOK
<1>1. IInv => TypeOK
  BY DEF IInv
<1> QED  BY <1>1, PageInvariant, PTL

\* streamMessage (api.ts) hands on whole events in their order, wherever the
\* reads cut the stream, and has handed on all of them once all was read.
THEOREM EventsArriveWhole == Spec => []EventsWhole
<1>1. ASSUME IInv, NEW s \in Send
      PROVE  /\ post[s].handed = SubSeq(post[s].sent, 1, Len(post[s].handed))
             /\ post[s].read = 3 * Len(post[s].sent) => post[s].handed = post[s].sent
  <2> DEFINE sent == post[s].sent
             h == post[s].read \div 3
  <2>1. post[s] \in PostType /\ StreamInv(post[s])
    BY <1>1, Typed DEF IInv, PostInv
  <2>2. sent \in Seq(Event) /\ Len(sent) \in Nat /\ post[s].read \in Nat
    BY <2>1 DEF PostType
  <2>a. post[s].read <= 3 * Len(sent)
    BY <2>1 DEF StreamInv
  <2>3. h \in Nat /\ h <= Len(sent) /\ (post[s].read = 3 * Len(sent) => h = Len(sent))
    BY <2>2, <2>a, Thirds
  <2>4. post[s].handed = SubSeq(sent, 1, h)
    BY <2>1 DEF StreamInv
  <2> HIDE DEF sent, h
  <2>5. Len(SubSeq(sent, 1, h)) = h /\ SubSeq(sent, 1, Len(sent)) = sent
    BY <2>2, <2>3
  <2> QED  BY <2>3, <2>4, <2>5 DEF sent
<1>2. IInv => EventsWhole
  BY <1>1 DEF EventsWhole
<1> QED  BY <1>2, PageInvariant, PTL

\* An answer that the thread shows as complete is on record in its chat: the
\* stream of one chat never reaches the thread of another, and the row was
\* stored before the event that completed it (assistant.tsx, onNew).
THEOREM CompleteAnswersStored == Spec => []CompleteIsStored
<1>1. IInv => CompleteIsStored
  BY DEF IInv
<1> QED  BY <1>1, PageInvariant, PTL

\* The thread shows every row of its chat but those of messages that the
\* workspace is known not to have seen the end of.
THEOREM RowsAreShown == Spec => []RowsShown
<1>1. IInv => RowsShown
  BY DEF IInv
<1> QED  BY <1>1, PageInvariant, PTL

-----------------------------------------------------------------------------
(***************************************************************************)
(* What a step may never do to the thread on display.                      *)
(***************************************************************************)
Growing ==
  thread.chat # 0 /\ thread'.chat = thread.chat =>
    \A i \in DOMAIN thread.messages :
      LET old == thread.messages[i]
          new == thread'.messages[i]
      IN  /\ i \in DOMAIN thread'.messages
          /\ new.send = old.send /\ new.role = old.role
          /\ \/ new.text >= old.text
             \/ /\ old.status = "running" /\ new.status = "complete"
                /\ new.text = post[old.send].content
          /\ old.status = "complete" /\ new.status # "complete" =>
               \/ post[old.send].net = "cut"
               \/ \E t \in tasks \ tasks' : t.send = old.send /\ t.state = "failed"

Keeping ==
  thread.checkpoint # 0 /\ thread'.chat = thread.chat
  /\ thread'.checkpoint # thread.checkpoint =>
    \/ thread'.checkpoint > thread.checkpoint
    \/ thread.confirming # 0 /\ thread'.confirming = 0

\* A text is a number, and no smaller than itself.
LEMMA TextOf ==
  ASSUME TypeOK, NEW i \in DOMAIN thread.messages
  PROVE  thread.messages[i].text \in Nat /\ thread.messages[i].text >= thread.messages[i].text
<1>1. \A m \in Message : m.text \in Nat
  BY Bounds DEF Message, Full
<1>2. thread.messages[i].text \in Nat
  BY <1>1, TypedMessages
<1> QED  BY <1>2

\* Messages that stay as they are.
LEMMA Unmoved ==
  ASSUME IInv,
         thread.chat # 0 /\ thread'.chat = thread.chat =>
           /\ \A i \in DOMAIN thread.messages :
                i \in DOMAIN thread'.messages /\ thread'.messages[i] = thread.messages[i]
           /\ \/ thread'.checkpoint = thread.checkpoint
              \/ thread.confirming # 0 /\ thread'.confirming = 0
  PROVE  Growing /\ Keeping
<1>1. TypeOK
  BY DEF IInv
<1>2. thread.checkpoint # 0 => thread.chat # 0
  BY DEF IInv, ThreadInv, NoThread
<1>3. Growing
  BY <1>1, TextOf DEF Growing
<1>4. Keeping
  BY <1>2 DEF Keeping
<1> QED  BY <1>3, <1>4

\* A render that leaves a chat on display leaves its thread as the handler made it.
LEMMA RenderKeeps ==
  ASSUME NEW u, NEW missed, Render(u, missed), u.chat # 0, thread'.chat = u.chat
  PROVE  thread' = u
<1> DEFINE c == Displayed(page', failed', active')
<1>1. thread' = Rendered(page', failed', active', u)
  BY DEF Render
<1>2. CASE c = 0
  BY <1>1, <1>2 DEF Rendered, NoThread
<1>3. CASE c # 0 /\ c = u.chat
  BY <1>1, <1>3 DEF Rendered
<1>4. CASE c # 0 /\ c # u.chat
  <2>1. thread' = Fresh(active') /\ c = active'.chat
    BY <1>1, <1>4 DEF Rendered, Displayed
  <2>2. thread'.chat = active'.chat
    BY <2>1 DEF Fresh, NoThread
  <2> QED  BY <1>4, <2>1, <2>2
<1> QED  BY <1>2, <1>3, <1>4

LEMMA RenderSettles ==
  ASSUME IInv, NEW u, NEW missed, Render(u, missed),
         u.chat = thread.chat, u.messages = thread.messages,
         u.checkpoint = thread.checkpoint \/ (thread.confirming # 0 /\ u.confirming = 0)
  PROVE  Growing /\ Keeping
<1>1. thread.chat # 0 /\ thread'.chat = thread.chat => thread' = u
  BY RenderKeeps
<1> QED  BY <1>1, Unmoved

\* The catch block makes an error of a message, and says so by what it came from.
LEMMA FailedGrows ==
  ASSUME IInv, NEW s \in Send,
         thread.chat # 0 /\ thread'.chat = thread.chat => thread' = Failed(thread, s),
         post[s].net = "cut" \/ \E k \in tasks \ tasks' : k.send = s /\ k.state = "failed"
  PROVE  Growing /\ Keeping
<1>1. TypeOK
  BY DEF IInv
<1>2. CASE thread.sending # s
  BY <1>2, Unmoved DEF Failed
<1>3. CASE thread.sending = s /\ thread.chat # 0 /\ thread'.chat = thread.chat
  <2> DEFINE ms == [i \in DOMAIN thread.messages |->
                      IF Replying(thread.messages[i], s) THEN [thread.messages[i] EXCEPT !.status = "error"]
                      ELSE thread.messages[i]]
             v == [thread EXCEPT !.messages = ms]
             u == [v EXCEPT !.sending = 0]
  <2>1. thread' = u /\ thread \in ThreadType
    BY <1>1, <1>3, Typed DEF Failed, WithReply
  <2>2. ASSUME NEW m \in Message
        PROVE  LET e == [m EXCEPT !.status = "error"] IN
               e.role = m.role /\ e.send = m.send /\ e.text = m.text
    BY DEF Message
  <2>3. \A i \in DOMAIN thread.messages :
          /\ ms[i].role = thread.messages[i].role /\ ms[i].send = thread.messages[i].send
          /\ ms[i].text = thread.messages[i].text
          /\ ms[i].status # thread.messages[i].status => thread.messages[i].send = s
    <3>1. \A i \in DOMAIN thread.messages : thread.messages[i] \in Message
      BY <1>1, TypedMessages
    <3> QED  BY <2>2, <3>1 DEF Replying
  <2>4. DOMAIN ms = DOMAIN thread.messages
    OBVIOUS
  <2> HIDE DEF ms
  <2>5. thread'.messages = ms /\ thread'.checkpoint = thread.checkpoint
    BY <2>1 DEF ThreadType
  <2>6. \A i \in DOMAIN thread.messages : ms[i].text >= thread.messages[i].text
    BY <1>1, <2>3, TextOf
  <2>7. Growing
    BY <2>3, <2>4, <2>5, <2>6 DEF Growing
  <2> QED  BY <2>5, <2>7 DEF Keeping
<1>4. CASE ~ (thread.chat # 0 /\ thread'.chat = thread.chat)
  BY <1>4, Unmoved
<1> QED  BY <1>2, <1>3, <1>4

LEMMA GrowsByRender ==
  ASSUME IInv, NEW missed, Render(thread, missed)
  PROVE  Growing /\ Keeping
  BY RenderSettles

LEMMA GrowsByReloaded ==
  ASSUME IInv, NEW k \in tasks, Reloaded(k)
  PROVE  Growing /\ Keeping
<1>1. CASE k.state = "answered"
  <2>1. Render(Settled(thread, k.send), Overtaken(k.chat, k.n))
    BY <1>1 DEF Reloaded
  <2>2. thread \in ThreadType
    BY Typed DEF IInv
  <2>3. LET u == Settled(thread, k.send) IN
        u.chat = thread.chat /\ u.messages = thread.messages /\ u.checkpoint = thread.checkpoint
    BY <2>2 DEF Settled, ThreadType
  <2> QED  BY <2>1, <2>3, RenderSettles
<1>2. CASE k.state = "failed"
  <2>1. Render(Failed(thread, k.send), {k.send}) /\ tasks' = tasks \ {k} /\ k.op = "open" /\ k.for = "reply"
    BY <1>2 DEF Reloaded, Rest
  <2>2. k.send \in Send
    BY <2>1 DEF IInv, TaskInv
  <2>3. Failed(thread, k.send).chat = thread.chat
    BY <2>2, FailedIs DEF Kin
  <2>4. thread.chat # 0 /\ thread'.chat = thread.chat => thread' = Failed(thread, k.send)
    BY <2>1, <2>3, RenderKeeps
  <2>5. k \in tasks \ tasks'
    BY <2>1
  <2> QED  BY <1>2, <2>2, <2>4, <2>5, FailedGrows
<1> QED  BY <1>1, <1>2 DEF Reloaded

LEMMA GrowsByConfirmed ==
  ASSUME IInv, NEW k \in tasks, Confirmed(k)
  PROVE  Growing /\ Keeping
<1>1. Render(Answered(thread, k.send), {}) /\ k.op = "confirm"
  BY DEF Confirmed
<1>2. k.send \in Send /\ thread \in ThreadType
  BY <1>1, Typed DEF IInv, TaskInv
<1>3. LET u == Answered(thread, k.send) IN
      /\ u.chat = thread.chat /\ u.messages = thread.messages
      /\ u.checkpoint = thread.checkpoint \/ (thread.confirming # 0 /\ u.confirming = 0)
  <2>1. CASE thread.confirming # k.send
    BY <2>1 DEF Answered
  <2>2. CASE thread.confirming = k.send
    <3> DEFINE v == [thread EXCEPT !.checkpoint = 0]
               u == [v EXCEPT !.confirming = 0]
    <3>1. Answered(thread, k.send) = u /\ thread.confirming # 0
      BY <1>2, <2>2, Bounds DEF Answered
    <3>2. v \in ThreadType /\ v.chat = thread.chat /\ v.messages = thread.messages
      BY <1>2, ThreadClears
    <3> HIDE DEF v
    <3>3. u.chat = thread.chat /\ u.messages = thread.messages /\ u.confirming = 0
      BY <3>2 DEF ThreadType
    <3> QED  BY <3>1, <3>3
  <2> QED  BY <2>1, <2>2
<1> QED  BY <1>1, <1>3, RenderSettles

LEMMA GrowsByTask ==
  ASSUME IInv, NEW k \in tasks, Serve(k) \/ Refuse(k) \/ TaskStep(k)
  PROVE  Growing /\ Keeping
<1>1. CASE Serve(k) \/ Refuse(k) \/ ChatCreated(k)
  <2>1. thread' = thread
    BY <1>1 DEF Serve, Refuse, ChatCreated
  <2> QED  BY <2>1, Unmoved
<1>2. CASE Listed(k) \/ LoadFailed(k)
  <2>1. Render(thread, {})
    BY <1>2 DEF Listed, LoadFailed
  <2> QED  BY <2>1, GrowsByRender
<1>3. CASE Opened(k)
  <2>1. Render(thread, Overtaken(k.chat, k.n))
    BY <1>3 DEF Opened
  <2> QED  BY <2>1, GrowsByRender
<1>4. CASE Reloaded(k) \/ Confirmed(k)
  BY <1>4, GrowsByReloaded, GrowsByConfirmed
<1> QED  BY <1>1, <1>2, <1>3, <1>4 DEF TaskStep

LEMMA GrowsBySendMessage ==
  ASSUME IInv, NEW s \in Send, SendMessage(s)
  PROVE  Growing /\ Keeping
<1> DEFINE a == [role |-> "user", send |-> s, text |-> Full, status |-> "none"]
           b == [role |-> "assistant", send |-> s, text |-> 0, status |-> "running"]
           ms == thread.messages \o <<a, b>>
           v == [thread EXCEPT !.sending = s]
           u == [v EXCEPT !.messages = ms]
<1>1. thread \in ThreadType /\ thread.messages \in Seq(Message)
  BY Typed DEF IInv, ThreadType
<1>2. thread' = u
  BY <1>1 DEF SendMessage, ThreadType
<1>3. a \in Message /\ b \in Message
  <2>1. Full \in 0..Full /\ 0 \in 0..Full
    BY Bounds DEF Full
  <2> QED  BY <2>1 DEF Message
<1> HIDE DEF a, b
<1>4. \A i \in DOMAIN thread.messages : i \in DOMAIN ms /\ ms[i] = thread.messages[i]
  BY <1>1, <1>3, TwoMore
<1> HIDE DEF ms
<1>5. thread'.messages = ms /\ thread'.checkpoint = thread.checkpoint
  BY <1>1, <1>2 DEF ThreadType
<1> QED  BY <1>4, <1>5, Unmoved

LEMMA GrowsByRead ==
  ASSUME IInv, NEW s \in Send, Read(s)
  PROVE  Growing /\ Keeping
<1>1. PICK E \in Seq(Event), handed \in Seq(Event) :
         /\ thread' = IF thread.sending = s THEN Followed(thread, s, E) ELSE thread
         /\ Handing(post[s], E, handed)
  BY ReadPost
<1>2. CASE thread.sending # s
  BY <1>1, <1>2, Unmoved
<1>3. CASE thread.sending = s
  <2>1. FollowsTo(thread, s, E, thread') /\ SendingInv(s)
    BY <1>1, <1>3, ReadThread
  <2>2. Growing
    <3>1. ASSUME NEW i \in DOMAIN thread.messages
          PROVE  LET old == thread.messages[i]
                     new == thread'.messages[i]
                 IN  /\ i \in DOMAIN thread'.messages
                     /\ new.send = old.send /\ new.role = old.role
                     /\ TextKept(old, new, post[old.send].content)
                     /\ old.status = "complete" => new.status = "complete"
      <4> DEFINE old == thread.messages[i]
                 new == thread'.messages[i]
      <4>1. /\ i \in DOMAIN thread'.messages /\ new.send = old.send /\ new.role = old.role
            /\ TextKept(old, new, post[s].content)
            /\ old.status = "complete" => new.status = "complete"
        BY <2>1 DEF FollowsTo
      <4>2. Replying(old, s) \/ new = old
        BY <2>1 DEF FollowsTo
      <4> HIDE DEF new
      <4>3. TextKept(old, new, post[old.send].content)
        <5>1. CASE Replying(old, s)
          BY <4>1, <5>1 DEF Replying
        <5>2. CASE new = old
          <6>1. old.text \in Nat /\ old.text >= old.text
            BY TextOf DEF IInv
          <6> QED  BY <5>2, <6>1 DEF TextKept
        <5> QED  BY <4>2, <5>1, <5>2
      <4> QED  BY <4>1, <4>3 DEF new
    <3> QED  BY <3>1 DEF Growing, TextKept
  <2>3. thread'.checkpoint = thread.checkpoint \/ thread'.checkpoint = s
    BY <2>1 DEF FollowsTo
  <2>4. thread.checkpoint <= s /\ s \in Nat /\ thread.checkpoint \in Nat
    <3>1. thread \in ThreadType
      BY Typed DEF IInv
    <3> QED  BY <2>1, <3>1, Bounds DEF SendingInv, ThreadType
  <2>5. Keeping
    BY <2>3, <2>4 DEF Keeping
  <2> QED  BY <2>2, <2>5
<1> QED  BY <1>2, <1>3

LEMMA GrowsBySend ==
  ASSUME IInv, NEW s \in Send, SendMessage(s) \/ Read(s) \/ StreamEnded(s) \/ StreamFailed(s)
  PROVE  Growing /\ Keeping
<1>1. CASE StreamEnded(s)
  <2>1. Render(thread, {})
    BY <1>1 DEF StreamEnded
  <2> QED  BY <2>1, GrowsByRender
<1>2. CASE StreamFailed(s)
  <2>1. thread' = Failed(thread, s) /\ post[s].net = "cut"
    BY <1>2 DEF StreamFailed
  <2> QED  BY <2>1, FailedGrows
<1> QED  BY <1>1, <1>2, GrowsBySendMessage, GrowsByRead

LEMMA GrowsByHandleConfirm ==
  ASSUME IInv, HandleConfirm
  PROVE  Growing /\ Keeping
<1>1. thread \in ThreadType
  BY Typed DEF IInv
<1>2. thread'.messages = thread.messages /\ thread'.checkpoint = thread.checkpoint
  BY <1>1 DEF HandleConfirm, ThreadType
<1> QED  BY <1>2, Unmoved

\* The session is entered or left: no thread is mounted.
LEMMA GrowsBySession ==
  ASSUME IInv, SubmitLogin \/ LoginAnswered \/ Logout \/ Reload
  PROVE  Growing /\ Keeping
<1>1. thread' = thread \/ thread' = NoThread
  BY DEF SubmitLogin, LoginAnswered, Logout, Reload, EnterWorkspace, LeaveWorkspace
<1>2. CASE thread' = thread
  BY <1>2, Unmoved
<1>3. CASE thread' = NoThread
  <2>1. thread'.chat = 0
    BY <1>3 DEF NoThread
  <2> QED  BY <2>1, Unmoved
<1> QED  BY <1>1, <1>2, <1>3

LEMMA StepGrows ==
  ASSUME IInv, [Next]_vars
  PROVE  Growing /\ Keeping
<1>1. CASE SubmitLogin \/ LoginAnswered \/ Logout \/ Reload
  BY <1>1, GrowsBySession
<1>2. ASSUME NEW p \in {"chat", "other"}, ShowPage(p)  PROVE Growing /\ Keeping
  <2>1. Render(thread, {})
    BY <1>2 DEF ShowPage
  <2> QED  BY <2>1, GrowsByRender
<1>3. ASSUME NEW c \in Chat, ClickChat(c)  PROVE Growing /\ Keeping
  <2>1. Render(thread, {})
    BY <1>3 DEF ClickChat
  <2> QED  BY <2>1, GrowsByRender
<1>4. CASE NewChat \/ UNCHANGED vars
  <2>1. thread' = thread
    BY <1>4 DEF NewChat, vars
  <2> QED  BY <2>1, Unmoved
<1>5. ASSUME NEW k \in tasks, Serve(k) \/ Refuse(k) \/ TaskStep(k)  PROVE Growing /\ Keeping
  BY <1>5, GrowsByTask
<1>6. ASSUME NEW s \in Send, SendMessage(s) \/ Read(s) \/ StreamEnded(s) \/ StreamFailed(s)
      PROVE  Growing /\ Keeping
  BY <1>6, GrowsBySend
<1>7. ASSUME NEW s \in Send, Accept(s) \/ Reject(s) \/ CutShort(s) \/ Disconnect(s)
      PROVE  Growing /\ Keeping
  <2>1. thread' = thread
    BY <1>7 DEF Accept, Reject, CutShort, Disconnect
  <2> QED  BY <2>1, Unmoved
<1>8. ASSUME NEW s \in Send, NEW event \in Event, Emit(s, event)  PROVE Growing /\ Keeping
  <2>1. thread' = thread
    BY <1>8 DEF Emit
  <2> QED  BY <2>1, Unmoved
<1>9. CASE HandleConfirm
  BY <1>9, GrowsByHandleConfirm
<1> QED  BY <1>1, <1>2, <1>3, <1>4, <1>5, <1>6, <1>7, <1>8, <1>9 DEF Next

\* A thread that stays on display loses no message, and text only where the end
\* of a running reply puts its own content in its place (onNew); a complete
\* message stays complete but by a broken connection or a failed reload (the
\* catch block of onNew).
THEOREM ThreadOnlyGrows == Spec => ThreadGrows
<1>1. IInv /\ [Next]_vars => [Growing]_thread
  BY StepGrows
<1> QED  BY <1>1, PageInvariant, PTL DEF Spec, ThreadGrows, Growing

\* The confirmation bar of a thread that stays on display goes only when a newer
\* checkpoint takes its place or a decision is answered (handleConfirm).
THEOREM CheckpointStays == Spec => CheckpointKept
<1>1. IInv /\ [Next]_vars => [Keeping]_thread
  BY StepGrows
<1> QED  BY <1>1, PageInvariant, PTL DEF Spec, CheckpointKept, Keeping

=============================================================================
