------------------------------ MODULE PageParts ------------------------------
(***************************************************************************)
(* The parts of the web pages beside the chat's own state (ChatClient):    *)
(* the views a thread is made of, the pages of administration, and the     *)
(* diagrams and the search of the documentation.  They share nothing but   *)
(* the window, so that a behaviour is about one of them.                   *)
(***************************************************************************)
EXTENDS ToolCard, Reasoning, Attachments, ThreadList, ThreadPage, CodeHeader,
  AdminPages, ZoomPan, Wordcut

VARIABLE shown

threadVars == <<toolVars, reasoningVars, attachmentVars, listVars, pageVars, codeVars>>
siteVars == <<zoomVars, cutVars>>
vars == <<shown, threadVars, adminVars, siteVars>>

ViewTypeOK ==
  /\ ToolTypeOK /\ ReasoningTypeOK /\ AttachmentsTypeOK /\ ListTypeOK /\ PageTypeOK
  /\ CodeTypeOK /\ AdminTypeOK /\ ZoomTypeOK /\ CutTypeOK

\* What is looked at begins in every way it may, the rest in one.
Init ==
  /\ shown \in {"tool", "reasoning", "attachment", "list", "page", "code",
               "administration", "diagrams", "search"}
  /\ ToolInit /\ ReasoningInit /\ AttachmentsInit /\ ListInit /\ PageInit
  /\ CodeInit /\ AdminInit /\ ZoomInit /\ CutInit
  /\ shown # "administration" => isAdmin /\ \A d \in Doc : docs[d].there

ThreadNext ==
  \/ /\ shown = "tool" /\ ToolNext
     /\ UNCHANGED <<reasoningVars, attachmentVars, listVars, pageVars, codeVars>>
  \/ /\ shown = "reasoning" /\ ReasoningNext
     /\ UNCHANGED <<toolVars, attachmentVars, listVars, pageVars, codeVars>>
  \/ /\ shown = "attachment" /\ AttachmentsNext
     /\ UNCHANGED <<toolVars, reasoningVars, listVars, pageVars, codeVars>>
  \/ /\ shown = "list" /\ ListNext
     /\ UNCHANGED <<toolVars, reasoningVars, attachmentVars, pageVars, codeVars>>
  \/ /\ shown = "page" /\ PageNext
     /\ UNCHANGED <<toolVars, reasoningVars, attachmentVars, listVars, codeVars>>
  \/ /\ shown = "code" /\ CodeNext
     /\ UNCHANGED <<toolVars, reasoningVars, attachmentVars, listVars, pageVars>>

Next ==
  /\ shown' = shown
  /\ \/ ThreadNext /\ UNCHANGED <<adminVars, siteVars>>
     \/ shown = "administration" /\ AdminNext /\ UNCHANGED <<threadVars, siteVars>>
     \/ shown = "diagrams" /\ ZoomNext /\ UNCHANGED <<threadVars, adminVars, cutVars>>
     \/ shown = "search" /\ CutNext /\ UNCHANGED <<threadVars, adminVars, zoomVars>>

Spec == Init /\ [][Next]_vars
=============================================================================
