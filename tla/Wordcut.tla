------------------------------ MODULE Wordcut ------------------------------
(***************************************************************************)
(* The word breaker of the documentation's search (docs/site, wordcut.js): *)
(* a text without spaces between its words is read once, by acceptors for  *)
(* the words of a dictionary and a few rules, which build a path of least  *)
(* cost; the path is read backwards into the ranges of the pieces.         *)
(*                                                                         *)
(* A character is a number in the order of the codes, a text a sequence of *)
(* characters.  The field mw of a path is left out: it is never set.       *)
(***************************************************************************)
EXTENDS Naturals, Sequences, FiniteSets

CONSTANTS
  Latin, Digit, Blank, Sign,  \* the characters the rules of that name accept
  Consonant,  \* characters a wild character of a pattern stands for
  Wild,       \* the wild characters
  Tone,       \* U+0E48 to U+0E4B
  MaiTho,     \* U+0E49, which stands for any of them in a pattern
  Above,      \* U+0E48 to U+0E4E
  Rule0,      \* the pattern of Rule0
  PartRule,   \* the patterns of PartRule
  FileWords,  \* the words of the file, which is part of the program
  Added,      \* the additionalWords init may be given
  Text,       \* what is cut, one text after another
  NotYet,     \* the path is not read yet
  Unmerged    \* the merge that is undefined

ASSUME WordcutAssumption ==
  /\ MaiTho \in Tone /\ Tone \subseteq Above /\ {NotYet, Unmerged} \cap Nat = {}
  /\ FileWords \subseteq Seq(Nat) /\ Rule0 \in Seq(Nat) /\ PartRule \subseteq Seq(Nat)
  /\ Added \subseteq SUBSET Seq(Nat) /\ Text \subseteq Seq(Nat)
  /\ IsFiniteSet(FileWords) /\ \A W \in Added : IsFiniteSet(W)

Rules == <<"WORD", "SPACE", "SINSYM", "NUMBER", "THAI", "PART", "DICT">>

VARIABLES
  dict,       \* the sorted dictionary
  text,       \* what is being cut
  acceptors,  \* those that go on, the oldest first
  path,       \* path[j + 1] is about the first j characters
  left,       \* leftBoundary
  ranges,     \* of pathToRanges, the last one first
  back        \* e of pathToRanges; NotYet while the path is built

cutVars == <<dict, text, acceptors, path, left, ranges, back>>

None == 0  \* the null of dictSeek: indices begin with 1

Info(p, w, unk, type, merge) ==
  [p |-> p, w |-> w, unk |-> unk, type |-> type, merge |-> merge]
Begin == Info(0, 0, 0, "INIT", Unmerged)

CutTypeOK ==
  /\ dict \in Seq(Seq(Nat)) /\ text \in Seq(Nat)
  /\ \A i \in 1..Len(acceptors) : acceptors[i].off >= 1
  /\ path # <<>> /\ Len(path) <= Len(text) + 1
  /\ \A j \in 2..Len(path) :
       /\ path[j].p \in 0..j - 2 /\ path[j].merge \in {Unmerged} \cup 0..j - 2
  /\ left \in 0..Len(text)
  /\ \A i \in 1..Len(ranges) : ranges[i].s < ranges[i].e
  /\ back \in {NotYet} \cup 0..Len(text)

-----------------------------------------------------------------------------
(* The dictionary. *)

\* Nothing is being cut; the acceptors are those of the last text.
Idle == back = 0 /\ text = <<>>

Before(u, v) ==
  \/ Len(u) < Len(v) /\ SubSeq(v, 1, Len(u)) = u
  \/ \E i \in 1..Len(u) :
       /\ i <= Len(v) /\ u[i] < v[i] /\ \A j \in 1..i - 1 : u[j] = v[j]

\* a.sort().filter(...).
SortUniq(W) == CHOOSE s \in [1..Cardinality(W) -> W] :
                 \A i \in 1..Cardinality(W) - 1 : Before(s[i], s[i + 1])

DictWords == {dict[i] : i \in 1..Len(dict)}

\* addFiles keeps words of two characters and more.
Words(W) == SortUniq({w \in FileWords : Len(w) > 1} \cup W)

CutInit ==
  /\ dict = Words({})
  /\ text = <<>> /\ acceptors = <<>> /\ path = <<Begin>> /\ left = 0
  /\ ranges = <<>> /\ back = 0

\* init is called again, with other words.
InitAgain(W) ==
  /\ Idle
  /\ dict' = Words(W) /\ acceptors' = <<>>
  /\ UNCHANGED <<text, path, left, ranges, back>>

\* l, r and ans of dictSeek.
Search == [lo : 1..Len(dict) + 1, hi : 0..Len(dict), ans : 0..Len(dict)]

\* One turn of the loop of dictSeek.
Narrowed(at, ch, off, first) ==
  LET m == (at.lo + at.hi) \div 2
      w == dict[m]
  IN  IF Len(w) <= off \/ w[off + 1] < ch THEN [at EXCEPT !.lo = m + 1]
      ELSE IF w[off + 1] > ch THEN [at EXCEPT !.hi = m - 1]
      ELSE IF first THEN [at EXCEPT !.hi = m - 1, !.ans = m]
      ELSE [at EXCEPT !.lo = m + 1, !.ans = m]

\* dictSeek, a binary search among the words l to r, which agree up to their
\* character off, for the first or the last one that goes on with ch.
DictSeek(l, r, ch, off, first) ==
  LET seek[at \in Search] == IF at.lo > at.hi THEN at.ans
                             ELSE seek[Narrowed(at, ch, off, first)]
  IN  seek[[lo |-> l, hi |-> r, ans |-> None]]

-----------------------------------------------------------------------------
(* The acceptors. *)

IsMatch(pat, off, ch) ==
  /\ Len(pat) > off
  /\ LET c == pat[off + 1] IN
     \/ c = ch
     \/ c \in Wild /\ ch \in Consonant
     \/ c = MaiTho /\ ch \in Tone

CreateAcceptor(rule) ==
  [rule |-> rule, off |-> 0, final |-> FALSE,
   lo |-> IF rule = "DICT" THEN 1 ELSE None,
   hi |-> IF rule = "DICT" THEN Len(dict) ELSE None,
   patterns |-> IF rule = "PART" THEN PartRule ELSE {}]

\* The patterns of an acceptor that go on with ch.
Going(a, ch) == {pat \in a.patterns : IsMatch(pat, a.off, ch)}

\* An acceptor is not in error after ch.
Accepts(a, ch) ==
  CASE a.rule = "WORD" -> ch \in Latin
    [] a.rule = "SPACE" -> ch \in Blank
    [] a.rule = "SINSYM" -> a.off = 0 /\ ch \in Sign
    [] a.rule = "NUMBER" -> ch \in Digit
    [] a.rule = "THAI" -> IsMatch(Rule0, a.off, ch)
    [] a.rule = "PART" -> Going(a, ch) # {}
    [] a.rule = "DICT" -> DictSeek(a.lo, a.hi, ch, a.off, TRUE) # None

Transit(a, ch) ==
  LET lo == DictSeek(a.lo, a.hi, ch, a.off, TRUE)
      on == [a EXCEPT !.off = @ + 1]
  IN  CASE a.rule = "DICT" ->
             [on EXCEPT !.lo = lo, !.hi = DictSeek(lo, a.hi, ch, a.off, FALSE),
                        !.final = Len(dict[lo]) = on.off]
        [] a.rule = "PART" ->
             [on EXCEPT !.patterns = Going(a, ch),
                        !.final = \E pat \in Going(a, ch) : Len(pat) = on.off]
        [] a.rule = "THAI" -> [on EXCEPT !.final = Len(Rule0) = on.off]
        [] OTHER -> [on EXCEPT !.final = TRUE]

\* A run of letters, blanks or digits goes on in the acceptor it began with.
Tagged(rule) ==
  /\ rule \in {"WORD", "SPACE", "NUMBER"}
  /\ \E i \in 1..Len(acceptors) : acceptors[i].rule = rule

\* The members of s at the places I, in their order.
Kept(s, I) ==
  LET kept[n \in 0..Len(s)] ==
        IF n = 0 THEN <<>>
        ELSE IF n \in I THEN Append(kept[n - 1], s[n]) ELSE kept[n - 1]
  IN  kept[Len(s)]

Created == LET new == Kept(Rules, {n \in DOMAIN Rules : ~Tagged(Rules[n])})
           IN  [i \in 1..Len(new) |-> CreateAcceptor(new[i])]

TransitAll(ch) ==
  LET all == acceptors \o Created
      kept == Kept(all, {n \in DOMAIN all : Accepts(all[n], ch)})
  IN  [i \in 1..Len(kept) |-> Transit(kept[i], ch)]

-----------------------------------------------------------------------------
(* The path. *)

\* What a final acceptor makes of the first i + 1 characters.
InfoOf(a, i) ==
  LET p == i - a.off + 1
      part == a.rule = "PART"
  IN  Info(p, 1 + path[p + 1].w, path[p + 1].unk + (IF part THEN 1 ELSE 0),
           a.rule, IF part THEN p ELSE Unmerged)

\* Nothing ends here: one more unknown piece.
Fallback(ch) ==
  LET from == path[left + 1] IN
  Info(IF ch \in Above /\ left # 0 THEN from.p ELSE left,
       1 + from.w, 1 + from.unk, "UNK", Unmerged)

Better(a, b) == a.unk < b.unk \/ (a.unk = b.unk /\ a.w < b.w)

\* Variant: of equals and worse ones the last is taken.
SelectPath_last(infos) == infos[Len(infos)]

\* The first of the best.
SelectPath(infos) ==
  infos[CHOOSE k \in 1..Len(infos) :
          /\ \A m \in 1..Len(infos) : ~Better(infos[m], infos[k])
          /\ \A m \in 1..k - 1 : Better(infos[k], infos[m])]

\* What a syllable says of the places within it; of several, the last one.
Merged(finals, i) ==
  [j \in 1..Len(path) |->
     LET within == {m \in 1..Len(finals) :
                      /\ finals[m].rule = "PART"
                      /\ j - 1 \in i - finals[m].off + 2..i}
     IN  IF within = {} THEN path[j]
         ELSE LET m == CHOOSE k \in within : \A x \in within : x <= k
              IN  [path[j] EXCEPT !.merge = i - finals[m].off + 1]]

\* cut(text): acceptors.reset(), createPath().
StartCut(t) ==
  /\ Idle
  /\ text' = t /\ acceptors' = <<>> /\ path' = <<Begin>> /\ left' = 0
  /\ ranges' = <<>> /\ back' = NotYet
  /\ UNCHANGED dict

\* One turn of buildPath.
BuildPath ==
  LET i == Len(path) - 1
      ch == text[i + 1]
      next == TransitAll(ch)
      finals == Kept(next, {n \in DOMAIN next : next[n].final})
      infos == IF finals = <<>> THEN <<Fallback(ch)>>
               ELSE [m \in 1..Len(finals) |-> InfoOf(finals[m], i)]
      selected == SelectPath(infos)
  IN  /\ back = NotYet /\ i < Len(text)
      /\ acceptors' = next
      /\ path' = Append(Merged(finals, i), selected)
      /\ left' = IF selected.type = "UNK" THEN left ELSE i
      /\ UNCHANGED <<dict, text, ranges, back>>

PathBuilt ==
  /\ back = NotYet /\ Len(path) = Len(text) + 1
  /\ back' = Len(text)
  /\ UNCHANGED <<dict, text, acceptors, path, left, ranges>>

\* One turn of pathToRanges, from the end of the text.
PathToRanges ==
  LET info == path[back + 1]
      merges == info.merge # Unmerged /\ ranges # <<>>
      s == IF merges THEN info.merge ELSE info.p
  IN  /\ back \notin {NotYet, 0}
      /\ ranges' = IF merges THEN <<[Head(ranges) EXCEPT !.s = s]>> \o Tail(ranges)
                             ELSE <<[s |-> s, e |-> back]>> \o ranges
      /\ back' = s
      /\ UNCHANGED <<dict, text, acceptors, path, left>>

\* cut returns; all but the acceptors was its own.
CutReturns ==
  /\ back = 0 /\ text # <<>>
  /\ text' = <<>> /\ path' = <<Begin>> /\ left' = 0 /\ ranges' = <<>>
  /\ UNCHANGED <<dict, acceptors, back>>

CutNext ==
  \/ BuildPath \/ PathBuilt \/ PathToRanges \/ CutReturns
  \/ \E t \in Text : StartCut(t)
  \/ \E W \in Added : InitAgain(W)

-----------------------------------------------------------------------------
\* The pieces, one after the other, are the text.
PiecesJoin ==
  LET at == [i \in 1..Len(ranges) |-> ranges[i].s] \o <<Len(text)>> IN
  at[1] = 0 /\ \A i \in 1..Len(ranges) : ranges[i].s < at[i + 1] /\ ranges[i].e = at[i + 1]

\* The characters after the first p up to the first q are a pattern's.
IsPart(p, q) ==
  \E pat \in PartRule :
    /\ Len(pat) = q - p
    /\ \A i \in 1..q - p : IsMatch(pat, i - 1, text[p + i])

SyllablesWhole ==
  \A i \in 1..Len(ranges), p, q \in 0..Len(text) :
    p < ranges[i].s /\ ranges[i].s < q => ~IsPart(p, q)

\* The text can be cut at C into words of the dictionary.
InWords(C) ==
  \A a, b \in C \cup {0, Len(text)} :
    a < b /\ (\A c \in C : ~(a < c /\ c < b)) => SubSeq(text, a + 1, b) \in DictWords

FewestWords ==
  LET end == path[Len(text) + 1] IN
  \A C \in SUBSET (1..Len(text) - 1) :
    InWords(C) => end.unk = 0 /\ end.w <= Cardinality(C) + 1

(***************************************************************************)
(* Whatever was cut before, with whatever words: the pieces of a text join *)
(* to it, no cut is within a syllable of PartRule, although the path is    *)
(* chosen without regard for them, and a text that can be cut into words   *)
(* of the dictionary has a path without an unknown piece that is as short  *)
(* as any, although each word is found by binary searches that go on from  *)
(* one character to the next.                                              *)
(***************************************************************************)
CutRight ==
  text # <<>> /\ back = 0 => PiecesJoin /\ SyllablesWhole /\ FewestWords
=============================================================================
