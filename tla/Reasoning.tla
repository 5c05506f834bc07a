----------------------------- MODULE Reasoning -----------------------------
(***************************************************************************)
(* The reasoning of an assistant's message, folded away (reasoning.tsx):   *)
(* consecutive parts of it form a group with a disclosure of its own, open *)
(* while it streams unless the user has said otherwise.                    *)
(***************************************************************************)
EXTENDS Naturals, Sequences

CONSTANTS PartType, MaxParts
ASSUME ReasoningAssumption == "reasoning" \in PartType /\ MaxParts \in Nat

VARIABLES
  parts,     \* types of the message's parts
  running,   \* the message is being written
  userOpen,  \* by first part of a group: what the user chose, or "none"
  pinned     \* groups whose text is kept at its end by an observer

reasoningVars == <<parts, running, userOpen, pinned>>

ReasoningInit ==
  /\ parts = <<>> /\ running = TRUE
  /\ userOpen = [i \in 1..MaxParts |-> "none"] /\ pinned = {}

\* Where the groups of a sequence of parts begin, and where one ends.
Starts(ps) == {i \in DOMAIN ps : ps[i] = "reasoning" /\ (i = 1 \/ ps[i - 1] # "reasoning")}
End(ps, i) ==
  CHOOSE j \in i..Len(ps) :
    /\ \A k \in i..j : ps[k] = "reasoning"
    /\ j = Len(ps) \/ ps[j + 1] # "reasoning"

IsStreaming(ps, run, i) == run /\ End(ps, i) = Len(ps)

IsOpen(ps, run, chosen, i) ==
  IF chosen[i] = "none" THEN IsStreaming(ps, run, i) ELSE chosen[i] = "open"

IsPreview(ps, run, chosen, i) ==
  IsStreaming(ps, run, i) /\ IsOpen(ps, run, chosen, i) /\ chosen[i] = "none"

ReasoningTypeOK ==
  /\ parts \in Seq(PartType) /\ Len(parts) <= MaxParts /\ running \in BOOLEAN
  /\ userOpen \in [1..MaxParts -> {"none", "open", "closed"}]
  /\ pinned \subseteq Starts(parts)

\* The observer of a group lives exactly as long as its preview.
PinEffect == pinned' = {i \in Starts(parts') : IsPreview(parts', running', userOpen', i)}

PartAppended(t) ==
  /\ running /\ Len(parts) < MaxParts
  /\ parts' = Append(parts, t) /\ UNCHANGED <<running, userOpen>> /\ PinEffect

MessageEnded == running /\ running' = FALSE /\ UNCHANGED <<parts, userOpen>> /\ PinEffect

\* A click on a group's header.
HandleOpenChange(i) ==
  /\ i \in Starts(parts)
  /\ userOpen' = [userOpen EXCEPT ![i] =
                    IF IsOpen(parts, running, userOpen, i) THEN "closed" ELSE "open"]
  /\ UNCHANGED <<parts, running>> /\ PinEffect

ReasoningNext ==
  \/ \E t \in PartType : PartAppended(t)
  \/ MessageEnded
  \/ \E i \in 1..MaxParts : HandleOpenChange(i)
=============================================================================
