---------------------------- MODULE MCPanelPages ----------------------------
(***************************************************************************)
(* The pages of the panel that belong to no server, checked together: a    *)
(* behaviour is that of the session and the login page, of the users, of   *)
(* the roles, of the profile, or of the page that creates a server, chosen *)
(* at the start, while the others are as they are before they are opened.  *)
(***************************************************************************)
EXTENDS AuthSession, UserAdmin, RoleAdmin, NewServer, ProfilePage

VARIABLE shownPage

panelPagesVars == <<shownPage, authVars, userVars, roleVars, newVars, profileVars>>

PageNames == {"session", "users", "roles", "new", "profile"}

\* The choices of the initial states are made for the page that is shown.
PanelPagesInit ==
    /\ shownPage \in PageNames
    /\ AuthInit /\ UserAdminInit /\ RoleAdminInit /\ NewServerInit /\ ProfileInit
    /\ shownPage # "session" =>
         /\ auth.token = NoToken /\ shell.path = "home" /\ desk.live = {}
         /\ ~desk.enabled /\ ~desk.hasUsers
    /\ shownPage # "new" => newForm.suggested = NoPack
    /\ shownPage # "profile" => profile.isLocal

Stays(name, vars) == IF shownPage = name THEN TRUE ELSE UNCHANGED vars

PanelPagesNext ==
    /\ \/ shownPage = "session" /\ AuthNext
       \/ shownPage = "users" /\ UserAdminNext
       \/ shownPage = "roles" /\ RoleAdminNext
       \/ shownPage = "new" /\ NewServerNext
       \/ shownPage = "profile" /\ ProfileNext
    /\ UNCHANGED shownPage
    /\ Stays("session", authVars) /\ Stays("users", userVars)
    /\ Stays("roles", roleVars) /\ Stays("new", newVars)
    /\ Stays("profile", profileVars)

\* Every call of the page that is shown ends, and its timers fire: the fairness of each module.
PanelPagesFairness ==
    /\ WF_authVars(shownPage = "session" /\ LeaveLogin)
    /\ \A op \in {"status", "user", "login", "register", "invite", "recovery", "logout"} :
         WF_authVars(shownPage = "session" /\ \E c \in rpcs : c.op = op /\ \E r \in Replies(c) : Arrives(c, r))
    /\ WF_userVars(shownPage = "users" /\ \E c \in userCalls : UsersLoaded(c))
    /\ WF_userVars(shownPage = "users" /\ \E c \in userCalls : InviteMade(c))
    /\ WF_roleVars(shownPage = "roles" /\ \E c \in roleCalls : c.op = "reload" /\ RolesLoaded(c))
    /\ WF_roleVars(shownPage = "roles" /\ \E c \in roleCalls : PermissionsSaved(c))
    /\ \A op \in {"opening", "favorites", "pack", "config", "versions", "create"} :
         WF_newVars(shownPage = "new" /\ \E c \in newCalls :
            /\ c.op = op /\ (op = "create" \/ c.mount)
            /\ \/ OpeningArrives(c) \/ FavoritesArrive(c) \/ PackArrives(c)
               \/ ConfigArrives(c) \/ VersionsArrive(c) \/ ServerCreated(c))
    /\ WF_profileVars(shownPage = "profile" /\ \E c \in profileCalls : c.op = "create" /\ TokenCreated(c))
    /\ WF_profileVars(shownPage = "profile" /\
                        \E c \in profileCalls : c.op = "list" /\ c.for = "create" /\ TokensLoaded(c))

PanelPagesSpec == PanelPagesInit /\ [][PanelPagesNext]_panelPagesVars /\ PanelPagesFairness

PanelPagesTypeOK == AuthTypeOK /\ UserTypeOK /\ RoleTypeOK /\ NewServerTypeOK /\ ProfileTypeOK

\* What the user did not change is not changed for him: a role that is opened and saved keeps what it
\* has, unless it is no more what the table said; no server that goes on without the panel is created
\* to be started by it, and no second API token is made by closing and opening the dialog.
NothingUnasked == SaveKeepsUntouched /\ DetachedNeverAutoStarts /\ OneTokenAtATime

\* What a page lets the user wait for: a form of the login page, the table of the users, the
\* permissions of a role that are saved, the form of a server, the API token that is made.
PageWaits ==
    CASE shownPage = "session" -> loginPage.loading
      [] shownPage = "users"   -> userPage.loading
      [] shownPage = "roles"   -> rolePage.saving
      [] shownPage = "new"     -> NewServerWaiting
      [] shownPage = "profile" -> profile.creating

\* Whatever is refused, denied or lost, no page makes the user wait for ever.
PageWaitingEnds == PageWaits ~> ~PageWaits
=============================================================================
