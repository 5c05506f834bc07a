----------------------------- MODULE AdminUsers -----------------------------
(***************************************************************************)
(* The users' page of a manager or administrator: the list of users, and   *)
(* the dialog in which the roles of one of them are read and changed.  The *)
(* state the page has while it is not mounted is that of a new one.        *)
(***************************************************************************)
EXTENDS AdminClicks

CONSTANTS
  MaxUsers,  \* users there are
  Role,
  Granted    \* the roles each user has at first

ASSUME UsersAssumption ==
  MaxUsers \in Nat /\ Granted \in [1..MaxUsers -> SUBSET Role]

User == 1..MaxUsers

VARIABLES
  roles,    \* the identity service: the roles each user has
  isAdmin,  \* the session has the role admin, and not only manager
  users,    \* the page: the list, its dialog and what is being edited
  calls,    \* calls the page awaits, or left behind
  adrift    \* history: a save failed or was left behind

usersVars == <<roles, isAdmin, users, calls, adrift>>

RoleSets == [User -> SUBSET Role]
NoRoles == [u \in User |-> {}]

\* "of" is whose roles are in "editing", "crossed" whether two openings were
\* awaited at once: both are history.
NewUsersPage ==
  [mounted |-> FALSE, loading |-> TRUE, listed |-> FALSE, list |-> NoRoles,
   selected |-> 0, loadingRoles |-> FALSE, editing |-> {}, summary |-> 0,
   saving |-> FALSE, of |-> 0, crossed |-> FALSE]

\* "roles" are those sent, or those of the list; "answer" what the server held.
UsersCall(op, id, u, s) ==
  [op |-> op, id |-> id, user |-> u, roles |-> s, state |-> "asked",
   gone |-> FALSE, answer |-> NoRoles]

UsersTypeOK ==
  /\ roles \in RoleSets /\ isAdmin \in BOOLEAN
  /\ users \in [mounted : BOOLEAN, loading : BOOLEAN, listed : BOOLEAN,
                list : RoleSets, selected : 0..MaxUsers, loadingRoles : BOOLEAN,
                editing : SUBSET Role, summary : 0..MaxUsers, saving : BOOLEAN,
                of : 0..MaxUsers, crossed : BOOLEAN]
  /\ calls \subseteq [op : {"list", "roles", "save"}, id : Nat, user : 0..MaxUsers,
                      roles : SUBSET Role, state : {"asked", "answered", "failed"},
                      gone : BOOLEAN, answer : RoleSets]
  /\ adrift \in BOOLEAN
  /\ users.mounted /\ users.saving =>
       \E c \in calls : c.op = "save" /\ ~c.gone
  /\ users.mounted /\ ~isAdmin => calls \subseteq {c \in calls : c.op # "save"}

UsersInit ==
  /\ roles = Granted /\ isAdmin \in BOOLEAN
  /\ users = NewUsersPage /\ calls = {}
  /\ adrift = FALSE

UsersMount ==
  /\ users' = [NewUsersPage EXCEPT !.mounted = TRUE]
  /\ calls' = calls \cup {UsersCall("list", 0, 0, {})}
  /\ UNCHANGED <<roles, isAdmin, adrift>>

\* A save that was sent is carried out all the same.
UsersUnmount ==
  LET sent == {c \in calls : c.op = "save" /\ c.state = "asked"} IN
  /\ users' = NewUsersPage
  /\ calls' = {[c EXCEPT !.gone = TRUE] : c \in sent}
  /\ adrift' = (adrift \/ sent # {})
  /\ UNCHANGED <<roles, isAdmin>>

\* Variant: the account data of the user before stay until the new ones come.
Opening_summaryStays(u) ==
  [users EXCEPT !.selected = u, !.loadingRoles = TRUE,
                !.crossed = @ \/ \E c \in calls : c.op = "roles"]

Opening(u) ==
  [users EXCEPT !.selected = u, !.loadingRoles = TRUE, !.summary = 0,
                !.crossed = @ \/ \E c \in calls : c.op = "roles"]

\* The dialog is modal: the list is out of reach behind it.
OpenUserRoles(u) ==
  /\ users.mounted /\ users.listed /\ users.selected = 0
  /\ Click
  /\ users' = Opening(u)
  /\ calls' = calls \cup {UsersCall("roles", clicks', u, users.list[u])}
  /\ UNCHANGED <<roles, isAdmin, adrift>>

CloseDialog ==
  /\ Neither
  /\ users.selected # 0
  /\ users' = [users EXCEPT !.selected = 0]
  /\ UNCHANGED <<roles, isAdmin, calls, adrift>>

\* The open dialog, past its skeleton: account data, if any, and the roles.
RolesShown == users.selected # 0 /\ ~users.loadingRoles

ToggleRole(r) ==
  /\ Neither
  /\ RolesShown /\ isAdmin
  /\ users' = [users EXCEPT !.editing = IF r \in @ THEN @ \ {r} ELSE @ \cup {r}]
  /\ UNCHANGED <<roles, isAdmin, calls, adrift>>

\* Salvar is there while the roles are still awaited, too.
SaveRoles ==
  /\ users.selected # 0 /\ isAdmin /\ ~users.saving
  /\ Click
  /\ users' = [users EXCEPT !.saving = TRUE]
  /\ calls' = calls \cup {UsersCall("save", clicks', users.selected, users.editing)}
  /\ UNCHANGED <<roles, isAdmin, adrift>>

Stored(c) == IF c.op = "save" THEN [roles EXCEPT ![c.user] = c.roles] ELSE roles

UsersServe(c) ==
  /\ Neither
  /\ c.state = "asked"
  /\ roles' = Stored(c)
  /\ calls' = (calls \ {c}) \cup {[c EXCEPT !.state = "answered", !.answer = roles']}
  /\ UNCHANGED <<isAdmin, users, adrift>>

\* Refused, or carried out and its answer lost.
UsersRefuse(c) ==
  /\ c.state = "asked" /\ Fault
  /\ roles' \in {roles, Stored(c)}
  /\ calls' = (calls \ {c}) \cup {[c EXCEPT !.state = "failed"]}
  /\ UNCHANGED <<isAdmin, users, adrift>>

UsersListed(c) ==
  IF c.state = "answered"
  THEN [users EXCEPT !.loading = FALSE, !.listed = TRUE, !.list = c.answer]
  ELSE [users EXCEPT !.loading = FALSE]

\* Of the roles and the summary both arrive, or the roles of the list are taken.
RolesLoaded(c) ==
  IF c.state = "answered"
  THEN [users EXCEPT !.loadingRoles = FALSE, !.of = c.user,
                     !.editing = c.answer[c.user], !.summary = c.user]
  ELSE [users EXCEPT !.loadingRoles = FALSE, !.of = c.user, !.editing = c.roles]

\* Variant: the list takes the roles as they are edited by now.
RolesSaved_asEdited(c) ==
  IF c.state = "answered"
  THEN [users EXCEPT !.saving = FALSE, !.selected = 0, !.list[c.user] = users.editing]
  ELSE [users EXCEPT !.saving = FALSE]

\* The list takes the roles that were sent, and the dialog closes, whoever's.
RolesSaved(c) ==
  IF c.state = "answered"
  THEN [users EXCEPT !.saving = FALSE, !.selected = 0, !.list[c.user] = c.roles]
  ELSE [users EXCEPT !.saving = FALSE]

UsersAnswered(c) ==
  /\ Neither
  /\ c.state # "asked"
  /\ calls' = calls \ {c}
  /\ adrift' = (adrift \/ (c.op = "save" /\ c.state = "failed"))
  /\ users' = CASE c.gone -> users
                [] ~c.gone /\ c.op = "list" -> UsersListed(c)
                [] ~c.gone /\ c.op = "roles" -> RolesLoaded(c)
                [] ~c.gone /\ c.op = "save" -> RolesSaved(c)
  /\ UNCHANGED <<roles, isAdmin>>

UsersNext ==
  \/ \E u \in User : OpenUserRoles(u)
  \/ CloseDialog \/ SaveRoles
  \/ \E r \in Role : ToggleRole(r)
  \/ \E c \in calls : UsersServe(c) \/ UsersRefuse(c) \/ UsersAnswered(c)

\* What the list shows is what the identity service holds, unless a save failed
\* or was left behind: however saving, editing on, closing the dialog and opening
\* another interleave, the list takes exactly what was sent (saveRoles).
ListedAsStored ==
  users.listed /\ ~adrift /\ (\A c \in calls : c.op # "save") => users.list = roles

\* The dialog of a user holds that user's roles and account data as soon as it
\* shows any, unless two openings were awaited at once (openUserRoles does not
\* look whose dialog is open when its answers come in).
DialogIsOfUser ==
  RolesShown /\ ~users.crossed =>
    users.of = users.selected /\ users.summary \in {0, users.selected}
=============================================================================
