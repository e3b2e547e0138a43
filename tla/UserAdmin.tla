----------------------------- MODULE UserAdmin -----------------------------
(***************************************************************************)
(* The users and the invites of the panel, as the settings page shows and  *)
(* changes them, with what the user service makes of it.                   *)
(***************************************************************************)
EXTENDS Naturals, FiniteSets

CONSTANTS Users, Myself,     \* the user who is logged in is one of them
          NoUser,
          MaxInvites         \* bound: invites that are made

ASSUME UsersAssumption == Myself \in Users /\ NoUser \notin Users \cup {"bare", "full"}
ASSUME InvitesAssumption == MaxInvites \in Nat

VARIABLES accounts,   \* the users at the backend: an account or NoUser
          codes,      \* invites that were made, and those that are left
          userPage, userCalls

userVars == <<accounts, codes, userPage, userCalls>>

\* Of an account, whether it has an email and roles; whether it is active is taken as it is sent.
Accounts == {"bare", "full"}

UserPageOpened ==
    [rows |-> {}, loading |-> TRUE, dialog |-> "none", ready |-> FALSE,
     editing |-> NoUser, edit |-> "bare",
     invites |-> {}, inviting |-> FALSE]

\* A row is a user as the list has shown it; an edit is sent with what the form shows.
UserTypeOK ==
    /\ \A u \in Users : accounts[u] \in Accounts \cup {NoUser}
    /\ \A r \in userPage.rows : r.id \in Users /\ r.account \in Accounts
    /\ userPage.dialog \in {"none", "create", "edit", "invite"}
    /\ userPage.editing \in Users \cup {NoUser} /\ userPage.edit \in Accounts
    /\ codes.left \subseteq 1 .. codes.made /\ codes.made <= MaxInvites
    /\ {userPage.loading, userPage.inviting, userPage.ready} \subseteq BOOLEAN

UserCallOf(op, id, form) == [op |-> op, id |-> id, form |-> form]
LoadUsers == UserCallOf("load", NoUser, NoUser)

\* onMount asks for the users, with the roles, and for the invites.
UserAdminInit ==
    /\ accounts = [u \in Users |-> "full"]
    /\ codes = [made |-> 0, left |-> {}]
    /\ userPage = UserPageOpened
    /\ userCalls = {LoadUsers, UserCallOf("invites", NoUser, NoUser)}

\* bound: one more call beside one that is on its way.
UserMay == Cardinality(userCalls) <= 1

(***************************************************************************)
(* Lists                                                                   *)
(***************************************************************************)
RowsNow == {[id |-> u, account |-> accounts[u]] : u \in {u \in Users : accounts[u] # NoUser}}

\* The users and the roles together: one failure fails both.
UsersLoaded(c) ==
    /\ c.op = "load"
    /\ \E rows \in {RowsNow, userPage.rows} : userPage' = [userPage EXCEPT !.rows = rows, !.loading = FALSE]
    /\ userCalls' = userCalls \ {c} /\ UNCHANGED <<accounts, codes>>

InvitesLoaded(c) ==
    /\ c.op = "invites"
    /\ \E shown \in {codes.left, userPage.invites} : userPage' = [userPage EXCEPT !.invites = shown]
    /\ userCalls' = userCalls \ {c} /\ UNCHANGED <<accounts, codes>>

\* The list of users is loaded again after a change that succeeded.
Reloads(c, p) ==
    /\ userPage' = [p EXCEPT !.loading = TRUE]
    /\ userCalls' = (userCalls \ {c}) \cup {LoadUsers}

Fails(c) == UNCHANGED <<accounts, codes, userPage>> /\ userCalls' = userCalls \ {c}

(***************************************************************************)
(* A new user                                                              *)
(***************************************************************************)
OpenDialog(d) ==
    /\ userPage.dialog = "none" /\ d \in {"create", "invite"}
    /\ userPage' = [userPage EXCEPT !.dialog = d]
    /\ UNCHANGED <<accounts, codes, userCalls>>

CloseDialog ==
    /\ userPage.dialog # "none"
    /\ userPage' = [userPage EXCEPT !.dialog = "none"]
    /\ UNCHANGED <<accounts, codes, userCalls>>

\* ready: a name, and a password of eight characters.
CreateForm ==
    /\ userPage.dialog = "create"
    /\ userPage' = [userPage EXCEPT !.ready = ~@]
    /\ UNCHANGED <<accounts, codes, userCalls>>

CreateUser ==
    /\ userPage.dialog = "create" /\ userPage.ready /\ UserMay
    /\ userCalls' = userCalls \cup {UserCallOf("create", NoUser, NoUser)}
    /\ UNCHANGED <<accounts, codes, userPage>>

\* Without roles the new user gets those that are given by default.
UserCreated(c) ==
    /\ c.op = "create"
    /\ \/ \E u \in Users :
            /\ accounts[u] = NoUser
            /\ accounts' = [accounts EXCEPT ![u] = "full"]
            /\ Reloads(c, [userPage EXCEPT !.dialog = IF @ = "create" THEN "none" ELSE @,
                                           !.ready = FALSE])
            /\ UNCHANGED codes
       \/ Fails(c)

(***************************************************************************)
(* A user that is changed                                                  *)
(***************************************************************************)
OpenUser(row) ==
    /\ userPage.dialog = "none" /\ ~userPage.loading
    /\ userPage' = [userPage EXCEPT !.dialog = "edit", !.editing = row.id, !.edit = row.account]
    /\ UNCHANGED <<accounts, codes, userCalls>>

UserForm ==
    /\ userPage.dialog = "edit" /\ userPage.editing # NoUser
    /\ \E a \in Accounts \ {userPage.edit} : userPage' = [userPage EXCEPT !.edit = a]
    /\ UNCHANGED <<accounts, codes, userCalls>>

UpdateUser ==
    /\ userPage.dialog = "edit" /\ userPage.editing # NoUser /\ UserMay
    /\ userCalls' = userCalls \cup {UserCallOf("update", userPage.editing, userPage.edit)}
    /\ UNCHANGED <<accounts, codes, userPage>>

\* An email left empty is not sent, and the service takes no roles for roles left as they are.
Updated(account, form) == IF form = "bare" THEN account ELSE form

UserUpdated(c) ==
    /\ c.op = "update"
    /\ \/ /\ accounts[c.id] # NoUser
          /\ accounts' = [accounts EXCEPT ![c.id] = Updated(@, c.form)]
          /\ Reloads(c, [userPage EXCEPT !.dialog = IF @ = "edit" THEN "none" ELSE @, !.editing = NoUser])
          /\ UNCHANGED codes
       \/ Fails(c)

Deletable(u) == (\E row \in userPage.rows : row.id = u) /\ u # Myself

DeleteUser(u) ==
    /\ userPage.dialog = "none" /\ ~userPage.loading /\ Deletable(u) /\ UserMay
    /\ userCalls' = userCalls \cup {UserCallOf("delete", u, NoUser)}
    /\ UNCHANGED <<accounts, codes, userPage>>

UserDeleted(c) ==
    /\ c.op = "delete"
    /\ \/ accounts' = [accounts EXCEPT ![c.id] = NoUser] /\ Reloads(c, userPage) /\ UNCHANGED codes
       \/ Fails(c)

(***************************************************************************)
(* Invites                                                                 *)
(***************************************************************************)
CreateInvite ==
    /\ userPage.dialog = "invite" /\ ~userPage.inviting /\ codes.made < MaxInvites /\ UserMay
    /\ userPage' = [userPage EXCEPT !.inviting = TRUE]
    /\ userCalls' = userCalls \cup {UserCallOf("invite", NoUser, NoUser)}
    /\ UNCHANGED <<accounts, codes>>

\* The address is copied before the dialog is closed: where there is no clipboard it stays open.
InviteMade(c) ==
    /\ c.op = "invite"
    /\ \/ \E copied \in BOOLEAN :
            /\ codes' = [made |-> codes.made + 1, left |-> codes.left \cup {codes.made + 1}]
            /\ userPage' = [userPage EXCEPT !.inviting = FALSE, !.invites = @ \cup {codes.made + 1},
                                            !.dialog = IF copied /\ @ = "invite" THEN "none" ELSE @]
       \/ userPage' = [userPage EXCEPT !.inviting = FALSE] /\ UNCHANGED codes
    /\ userCalls' = userCalls \ {c} /\ UNCHANGED accounts

DeleteInvite(i) ==
    /\ userPage.dialog = "none" /\ i \in userPage.invites /\ UserMay
    /\ userCalls' = userCalls \cup {UserCallOf("revoke", i, NoUser)}
    /\ UNCHANGED <<accounts, codes, userPage>>

InviteDeleted(c) ==
    /\ c.op = "revoke"
    /\ \/ /\ codes' = [codes EXCEPT !.left = @ \ {c.id}]
          /\ userPage' = [userPage EXCEPT !.invites = @ \ {c.id}]
       \/ UNCHANGED <<codes, userPage>>
    /\ userCalls' = userCalls \ {c} /\ UNCHANGED accounts

UserAdminNext ==
    \/ \E c \in userCalls : \/ UsersLoaded(c) \/ InvitesLoaded(c) \/ UserCreated(c) \/ UserUpdated(c)
                            \/ UserDeleted(c) \/ InviteMade(c) \/ InviteDeleted(c)
    \/ \E d \in {"create", "invite"} : OpenDialog(d)
    \/ \E row \in userPage.rows : OpenUser(row)
    \/ \E u \in Users : DeleteUser(u)
    \/ \E i \in userPage.invites : DeleteInvite(i)
    \/ CloseDialog \/ CreateForm \/ CreateUser \/ UserForm \/ UpdateUser \/ CreateInvite

\* Every call ends.
UserAdminFairness ==
    /\ WF_userVars(\E c \in userCalls : UsersLoaded(c))
    /\ WF_userVars(\E c \in userCalls : InviteMade(c))

UserAdminSpec == UserAdminInit /\ [][UserAdminNext]_userVars /\ UserAdminFairness

(***************************************************************************)
(* Properties                                                              *)
(***************************************************************************)
\* The code breaks these: what a successful edit left empty is empty; the lists that are shown and
\* not being loaded are those of the backend.
EditTakesEffect ==
    [][\A c \in userCalls : c.op = "update" /\ c \notin userCalls' /\ userPage'.loading
                     => accounts'[c.id] \in {c.form, NoUser}]_userVars
ListIsCurrent == userCalls = {} => userPage.rows = RowsNow
=============================================================================
