----------------------------- MODULE AdminPages -----------------------------
(***************************************************************************)
(* The pages of managers and administrators in the workspace: one of them  *)
(* is mounted at a time, and a page that is left goes with all it holds,   *)
(* but not the calls it has made.  (The chat's page is ChatClient.)        *)
(***************************************************************************)
EXTENDS AdminUsers, KnowledgePage

VARIABLE activePage

adminVars == <<usersVars, kbVars, activePage, clicks, faults>>

AdminTypeOK ==
  /\ UsersTypeOK /\ KnowledgeTypeOK /\ ClicksTypeOK
  /\ activePage \in {"chat", "admin", "knowledge"}
  /\ users.mounted <=> activePage = "admin"
  /\ kb.mounted <=> activePage = "knowledge"

AdminInit ==
  /\ UsersInit /\ KnowledgeInit
  /\ activePage = "chat" /\ clicks = 0 /\ faults = 0

SetActivePage(p) ==
  /\ p # activePage /\ activePage' = p /\ Click
  /\ CASE p = "admin" -> UsersMount
       [] p # "admin" /\ activePage = "admin" -> UsersUnmount
       [] OTHER -> UNCHANGED usersVars
  /\ CASE p = "knowledge" -> KnowledgeMount
       [] p # "knowledge" /\ activePage = "knowledge" -> KnowledgeUnmount
       [] OTHER -> UNCHANGED kbVars

AdminNext ==
  \/ \E p \in {"chat", "admin", "knowledge"} : SetActivePage(p)
  \/ UsersNext /\ UNCHANGED <<kbVars, activePage>>
  \/ KnowledgeNext /\ UNCHANGED <<usersVars, activePage>>
=============================================================================
