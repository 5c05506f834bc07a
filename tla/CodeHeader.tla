----------------------------- MODULE CodeHeader -----------------------------
(***************************************************************************)
(* The header of a block of code in an answer (markdown-text.tsx): a click *)
(* copies the code, and a mark stands for three seconds after each copy.   *)
(***************************************************************************)
EXTENDS Naturals

CONSTANT MaxCopies  \* bound: clicks that copy
ASSUME CodeHeaderAssumption == MaxCopies \in Nat

VARIABLES
  isCopied,
  writing,  \* writes to the clipboard that are awaited
  timers,   \* timers that will take the mark away
  copies

codeVars == <<isCopied, writing, timers, copies>>

\* The mark never stays: while it stands, a timer is running.
CodeTypeOK ==
  /\ isCopied \in BOOLEAN /\ {writing, timers, copies} \subseteq 0..MaxCopies
  /\ isCopied => timers > 0

CodeInit == isCopied = FALSE /\ writing = 0 /\ timers = 0 /\ copies = 0

\* Nothing is copied while the mark stands; nothing else keeps two apart.
OnCopy ==
  /\ ~isCopied /\ copies < MaxCopies
  /\ copies' = copies + 1 /\ writing' = writing + 1
  /\ UNCHANGED <<isCopied, timers>>

\* Variant: the mark is never taken away.
CopyToClipboard_forever(succeeds) ==
  /\ writing > 0 /\ writing' = writing - 1
  /\ IF succeeds THEN isCopied' = TRUE ELSE UNCHANGED isCopied
  /\ UNCHANGED <<timers, copies>>

CopyToClipboard(succeeds) ==
  /\ writing > 0 /\ writing' = writing - 1
  /\ IF succeeds THEN isCopied' = TRUE /\ timers' = timers + 1
     ELSE UNCHANGED <<isCopied, timers>>
  /\ UNCHANGED copies

\* The first of two timers takes the mark of the second copy away, too.
CopiedDuration ==
  /\ timers > 0 /\ timers' = timers - 1
  /\ isCopied' = FALSE /\ UNCHANGED <<writing, copies>>

CodeNext ==
  OnCopy \/ CopiedDuration \/ \E succeeds \in BOOLEAN : CopyToClipboard(succeeds)
=============================================================================
