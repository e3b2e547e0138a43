---------------------------- MODULE AuthSession ----------------------------
(***************************************************************************)
(* Who the panel believes is logged in: the auth store and its copy in     *)
(* the browser's storage, the interceptor that logs out on a rejected      *)
(* call, the layout that checks the session when the panel is opened, and  *)
(* the login page.                                                         *)
(*                                                                         *)
(* A session token stands for the account it was issued to, so `user' and  *)
(* `permissions' hold a token.  A call keeps the token it was sent with,   *)
(* and is served when its answer arrives: anything may happen before.      *)
(***************************************************************************)
EXTENDS Naturals, FiniteSets

CONSTANTS AuthTokens,   \* bound: the sessions the backend can hand out
          OldToken,     \* of an earlier visit, and handed out already
          NoToken, Nobody, Admin

ASSUME TokensAssumption == OldToken \in AuthTokens /\ NoToken \notin AuthTokens

VARIABLES desk,      \* the backend: its auth settings, its users, the live sessions
          auth,      \* the store, and the token in localStorage, which all tabs of the browser share
          shell,     \* the layout, the path that is shown, and the interceptor's flag
          loginPage,
          rpcs       \* calls on their way

authVars == <<desk, auth, shell, loginPage, rpcs>>

MaybeToken == AuthTokens \cup {NoToken}
Someone == AuthTokens \cup {Nobody, Admin}
Paths == {"login", "home"}

AuthTypeOK ==
    /\ desk.live \subseteq desk.issued /\ desk.issued \subseteq AuthTokens
    /\ {desk.enabled, desk.anonymous, desk.hasUsers, desk.key} \subseteq BOOLEAN
    /\ {auth.user, auth.permissions} \subseteq Someone
    /\ {auth.token, auth.stored} \subseteq MaybeToken
    /\ {auth.authenticated, auth.anonymous, shell.loading, shell.polling,
        shell.loggingOut, loginPage.loading, loginPage.leaving} \subseteq BOOLEAN
    /\ shell.path \in Paths /\ loginPage.mode \in {"login", "register"}
    /\ loginPage.invite \in {"none", "code"}

(***************************************************************************)
(* Calls                                                                   *)
(***************************************************************************)
\* getHeaders: a call carries the token the store has when it is made.
Rpc(op, token, for) == [op |-> op, token |-> token, for |-> for, first |-> FALSE]

\* `for' is who waits: a call of getCurrentUser has several continuations.  checkAuthStatus keeps what the
\* status said, whether there is a first user to set up, while it asks for the user.
StatusCall(for) == Rpc("status", NoToken, for)
UserCall(token, for) == Rpc("user", token, for)
CheckCall(token, for, first) == [UserCall(token, for) EXCEPT !.first = first]

Public(op) == op \in {"status", "login", "register", "invite", "recovery"}
Accepted(token) == ~desk.enabled \/ token \in desk.live \/ (token = NoToken /\ desk.anonymous)

(***************************************************************************)
(* The store                                                               *)
(***************************************************************************)
\* The store of a page that has just been loaded.
LoadedAuth(stored) ==
    [user |-> Nobody, permissions |-> Nobody, token |-> stored, stored |-> stored,
     authenticated |-> FALSE, anonymous |-> FALSE]

SetToken(a, t) == [a EXCEPT !.token = t, !.stored = t]
Known(a, who) == [a EXCEPT !.user = who, !.permissions = who,
                           !.authenticated = (who \in AuthTokens) \/ @]

\* The reset at the end of logout.
Reset(a) == [LoadedAuth(NoToken) EXCEPT !.anonymous = a.anonymous]
RecoveryReset == LoadedAuth(NoToken)

BlankLogin(invite) ==
    [mode |-> "login", loading |-> FALSE, leaving |-> FALSE, invite |-> invite]

(***************************************************************************)
(* Opening the panel, at any path, with or without a token in the browser. *)
(* The layout asks for the status, and so does the login page.  A login    *)
(* with an identity provider comes back to the login page with a token.    *)
(***************************************************************************)
Opened(path) == [path |-> path, loading |-> TRUE, polling |-> FALSE, loggingOut |-> FALSE]
OpeningCalls(path) ==
    {StatusCall("layout")} \cup IF path = "login" THEN {StatusCall("page")} ELSE {}

AuthInit ==
    /\ desk \in {d \in [enabled : BOOLEAN, anonymous : BOOLEAN, hasUsers : BOOLEAN,
                         live : SUBSET {OldToken}, issued : {{OldToken}}, key : {TRUE}] :
                   /\ d.live # {} => d.enabled /\ d.hasUsers
                   /\ d.anonymous => d.enabled /\ d.hasUsers}
    /\ auth \in {LoadedAuth(t) : t \in {OldToken, NoToken}}
    /\ \/ /\ shell \in {Opened(p) : p \in Paths}
          /\ loginPage \in {BlankLogin(i) : i \in IF shell.path = "login" THEN {"none", "code"}
                                                  ELSE {"none"}}
          /\ rpcs = OpeningCalls(shell.path)
       \/ /\ auth.token \in desk.live                         \* back from the provider
          /\ shell = Opened("login") /\ loginPage = BlankLogin("none")
          /\ rpcs = {StatusCall("layout"), UserCall(auth.token, "oidc")}

(***************************************************************************)
(* The backend: how it may answer a call, and what is left of it then.  A  *)
(* request or an answer that is lost is an error too.                      *)
(***************************************************************************)
Denied(c) == c.op = "login" \/ (~Public(c.op) /\ ~Accepted(c.token))

\* A visitor, who is in no table, has no account.
Granted(c) ==
    /\ Public(c.op) \/ Accepted(c.token)
    /\ c.op = "login" => desk.enabled /\ desk.hasUsers
    /\ c.op = "recovery" => desk.key
    /\ c.op = "user" /\ desk.enabled => c.token # NoToken

Replies(c) ==
    {"error"} \cup (IF Denied(c) THEN {"denied"} ELSE {}) \cup (IF Granted(c) THEN {"ok"} ELSE {})

Served(c, issued) ==
    CASE c.op = "login" -> [desk EXCEPT !.live = @ \cup issued, !.issued = @ \cup issued]
      [] c.op = "register" -> [desk EXCEPT !.hasUsers = TRUE]
      [] c.op = "logout" -> [desk EXCEPT !.live = @ \ {c.token}]
      [] c.op = "recovery" -> [desk EXCEPT !.live = {}, !.hasUsers = FALSE, !.key = FALSE]
      [] OTHER -> desk

Expires(t) ==
    /\ t \in desk.live
    /\ desk' = [desk EXCEPT !.live = @ \ {t}]
    /\ UNCHANGED <<auth, shell, loginPage, rpcs>>

(***************************************************************************)
(* An answer arrives.  After(c, a, s, p, new) is what the browser is left  *)
(* with; `s.path' of "login" mounts that page, which asks for the status.  *)
(***************************************************************************)
AtLogin(s) == [s EXCEPT !.path = "login"]
AtHome(s) == [s EXCEPT !.path = "home"]

After(c, a, s, p, new) ==
    LET mounts == s.path = "login" /\ shell.path # "login"
        there == IF mounts /\ a.authenticated THEN AtHome(s) ELSE s
    IN  /\ auth' = a
        /\ shell' = there
        /\ loginPage' = IF mounts \/ there.path # "login" THEN BlankLogin("none") ELSE p
        /\ rpcs' = (rpcs \ {c}) \cup new \cup
                   IF mounts /\ there.path = "login" THEN {StatusCall("page")} ELSE {}

\* The interceptor, before the caller hears of the rejection: one logout at a time, none at the login page.
LogsOut(c, r) == r = "denied" /\ shell.path # "login" /\ ~shell.loggingOut
AuthAfter(c, r) == IF LogsOut(c, r) /\ auth.token = NoToken THEN Reset(auth) ELSE auth
ShellAfter(c, r) ==
    IF ~LogsOut(c, r) THEN shell
    ELSE IF auth.token = NoToken THEN AtLogin(shell)
    ELSE [shell EXCEPT !.loggingOut = TRUE]
LogoutCalls(c, r) ==
    IF LogsOut(c, r) /\ auth.token # NoToken THEN {Rpc("logout", auth.token, "interceptor")} ELSE {}

\* What the layout does once it knows whether the session is valid.
Poll(s) == [s EXCEPT !.polling = @ \/ s.path # "login"]
LayoutGoesOn(valid, a, s) == IF valid \/ a.anonymous THEN Poll(s) ELSE AtLogin(s)

\* checkAuthStatus has come to its end; the layout validates once more, the page may leave.
LayoutChecked(c, r, first, a, s) ==
    LET up == [s EXCEPT !.loading = FALSE]
    IN  IF ~desk.enabled THEN After(c, a, Poll(up), loginPage, LogoutCalls(c, r))
        ELSE IF first THEN After(c, a, AtLogin(up), loginPage, LogoutCalls(c, r))
        ELSE IF a.token # NoToken
        THEN After(c, a, up, loginPage, LogoutCalls(c, r) \cup {UserCall(a.token, "layout2")})
        ELSE After(c, a, LayoutGoesOn(FALSE, a, up), loginPage, LogoutCalls(c, r))

PageChecked(c, r, first, a, s) ==
    IF shell.path # "login" THEN After(c, a, s, loginPage, LogoutCalls(c, r))
    ELSE IF ~desk.enabled /\ ~first THEN After(c, a, AtHome(s), loginPage, {})
    ELSE IF first THEN After(c, a, s, [loginPage EXCEPT !.mode = "register"], {})
    ELSE IF loginPage.invite = "code" THEN After(c, a, s, loginPage, {Rpc("invite", NoToken, "page")})
    ELSE After(c, a, s, loginPage, {})

Checked(c, r, first, a, s) ==
    IF c.for = "layout" THEN LayoutChecked(c, r, first, a, s) ELSE PageChecked(c, r, first, a, s)

\* A failed status is taken for a panel without authentication.
StatusFails(c) ==
    After(c, auth, IF c.for = "layout" THEN Poll([shell EXCEPT !.loading = FALSE])
                   ELSE AtHome(shell), loginPage, {})

StatusArrives(c, r) ==
    /\ c.op = "status"
    /\ LET a == [auth EXCEPT !.anonymous = desk.anonymous]
       IN  IF r = "error"
           THEN StatusFails(c)
           ELSE IF ~desk.enabled \/ (a.token # NoToken \/ desk.anonymous)
           THEN After(c, a, shell, loginPage, {CheckCall(a.token, c.for, ~desk.hasUsers)})
           ELSE Checked(c, r, ~desk.hasUsers, a, shell)

\* The account a getCurrentUser call was answered with.
AnswerOf(c) == IF desk.enabled THEN c.token ELSE Admin

\* validateSession and the other calls of getCurrentUser.
UserArrives(c, r) ==
    /\ c.op = "user"
    /\ LET ok == r = "ok"
           a == IF ok THEN Known(auth, AnswerOf(c)) ELSE AuthAfter(c, r)
           s == ShellAfter(c, r)
       IN  CASE c.for \in {"layout", "page"} -> Checked(c, r, c.first, a, s)
             [] c.for = "layout2" -> After(c, a, LayoutGoesOn(ok, a, s), loginPage, LogoutCalls(c, r))
             [] c.for = "login" -> After(c, a, s, [loginPage EXCEPT !.leaving = TRUE], LogoutCalls(c, r))
             [] c.for = "oidc" -> After(c, a, IF ok THEN AtHome(s) ELSE s, loginPage, LogoutCalls(c, r))

LoginArrives(c, r) ==
    /\ c.op = "login"
    /\ IF r = "ok"
       THEN \E t \in desk'.issued \ desk.issued :
              After(c, [SetToken(auth, t) EXCEPT !.user = t, !.authenticated = TRUE],
                    shell, loginPage, {UserCall(t, "login")})
       ELSE After(c, AuthAfter(c, r), ShellAfter(c, r), [loginPage EXCEPT !.loading = FALSE], LogoutCalls(c, r))

\* A registration goes on with a login.
RegisterArrives(c, r) ==
    /\ c.op = "register"
    /\ IF r = "ok" THEN After(c, auth, shell, loginPage, {Rpc("login", NoToken, "page")})
       ELSE After(c, auth, shell, [loginPage EXCEPT !.loading = FALSE], {})

InviteArrives(c, r) ==
    /\ c.op = "invite"
    /\ After(c, auth, shell,
             IF r = "ok" THEN [loginPage EXCEPT !.mode = "register", !.invite = "none"]
             ELSE [loginPage EXCEPT !.invite = "none"], {})

\* Mutant: the interceptor stays deaf after its first logout.
StaysLoggingOut(c, s) == s.loggingOut

StillLoggingOut(c, s) == s.loggingOut /\ c.for # "interceptor"

\* logout clears the browser whatever the backend said.
LogoutArrives(c, r) ==
    /\ c.op = "logout"
    /\ LET s == ShellAfter(c, r)
       IN  After(c, Reset(auth),
                 [AtLogin(s) EXCEPT !.loggingOut = StillLoggingOut(c, s)],
                 loginPage, LogoutCalls(c, r))

PollArrives(c, r) ==
    /\ c.op = "poll"
    /\ After(c, AuthAfter(c, r), ShellAfter(c, r), loginPage, LogoutCalls(c, r))

\* The page is loaded again, which abandons every call.
Load(a, path) ==
    /\ auth' = LoadedAuth(a.stored)
    /\ shell' = Opened(path) /\ loginPage' = BlankLogin("none")
    /\ rpcs' = OpeningCalls(path)

RecoveryArrives(c, r) ==
    /\ c.op = "recovery"
    /\ IF r = "ok" THEN Load(RecoveryReset, "login")
       ELSE After(c, auth, shell, [loginPage EXCEPT !.loading = FALSE], {})

Arrives(c, r) ==
    /\ c \in rpcs /\ r \in Replies(c)
    /\ \E issued \in {{t} : t \in AuthTokens \ desk.issued} \cup {{}} :
         /\ r = "ok" /\ c.op = "login" <=> issued # {}
         /\ desk' = IF r = "ok" THEN Served(c, issued) ELSE desk
    /\ \/ StatusArrives(c, r) \/ UserArrives(c, r) \/ LoginArrives(c, r) \/ RegisterArrives(c, r)
       \/ InviteArrives(c, r) \/ LogoutArrives(c, r) \/ PollArrives(c, r) \/ RecoveryArrives(c, r)

(***************************************************************************)
(* The user                                                                *)
(***************************************************************************)
\* bound: calls on their way when the form is used or the list is polled.
CallBound == 2
Send(c) == rpcs' = rpcs \cup {c}

\* The form of the login page: its buttons and fields are disabled while it waits.
Submit(op) ==
    /\ shell.path = "login" /\ ~loginPage.loading
    /\ Cardinality(rpcs) < CallBound
    /\ loginPage' = [loginPage EXCEPT !.loading = TRUE]
    /\ Send(Rpc(op, NoToken, "page"))
    /\ UNCHANGED <<desk, auth, shell>>

LoginForm == loginPage.mode = "login"
RegisterForm == loginPage.mode = "register" /\ desk.hasUsers
FirstUserForm == loginPage.mode = "register" /\ ~desk.hasUsers
RecoveryForm == desk.hasUsers

HandleLogin == LoginForm /\ Submit("login")
HandleRegister == (RegisterForm \/ FirstUserForm) /\ Submit("register")
HandleRecovery == RecoveryForm /\ Submit("recovery")

\* The tabs of the form.
ChooseForm ==
    /\ shell.path = "login" /\ ~loginPage.loading
    /\ Cardinality(rpcs) < CallBound
    /\ \E m \in {"login", "register"} : loginPage' = [loginPage EXCEPT !.mode = m]
    /\ UNCHANGED <<desk, auth, shell, rpcs>>

\* A tenth of a second after the login.
LeaveLogin ==
    /\ loginPage.leaving /\ shell.path = "login"
    /\ shell' = AtHome(shell) /\ loginPage' = BlankLogin("none")
    /\ UNCHANGED <<desk, auth, rpcs>>

\* The foot of the sidebar.
UserMenu == shell.path = "home" /\ ~shell.loading /\ auth.user # Nobody /\ desk.enabled
VisitorMenu == ~shell.loading /\ auth.user = Nobody /\ auth.anonymous

\* A visitor may browse, and may go from there to the login page.
Browse ==
    /\ VisitorMenu
    /\ rpcs = {}                                 \* bound: from a page at rest
    /\ shell' = [shell EXCEPT !.path = IF @ = "login" THEN "home" ELSE "login"]
    /\ loginPage' = BlankLogin("none")
    /\ rpcs' = rpcs \cup IF shell.path = "login" THEN {} ELSE {StatusCall("page")}
    /\ UNCHANGED <<desk, auth>>

HandleLogout ==
    /\ UserMenu
    /\ IF auth.token # NoToken
       THEN /\ Send(Rpc("logout", auth.token, "user"))
            /\ UNCHANGED <<auth, shell, loginPage>>
       ELSE /\ auth' = Reset(auth) /\ shell' = AtLogin(shell)
            /\ loginPage' = BlankLogin("none") /\ Send(StatusCall("page"))
    /\ UNCHANGED desk

\* The list of servers every ten seconds, and whatever else a page calls.
PollServers ==
    /\ shell.polling /\ shell.path # "login"
    /\ Cardinality(rpcs) < CallBound
    /\ Send(Rpc("poll", auth.token, "page"))
    /\ UNCHANGED <<desk, auth, shell, loginPage>>

\* Another tab of the browser logs in, or logs out: this one is not told, and goes on with its own token
\* until it is loaded again.
OtherTab ==
    /\ \/ \E t \in AuthTokens \ desk.issued :
            /\ desk.enabled /\ desk.hasUsers
            /\ desk' = [desk EXCEPT !.live = @ \cup {t}, !.issued = @ \cup {t}]
            /\ auth' = [auth EXCEPT !.stored = t]
       \/ \E gone \in {{}, {auth.stored}} :
            /\ auth.stored # NoToken
            /\ desk' = [desk EXCEPT !.live = @ \ gone]
            /\ auth' = [auth EXCEPT !.stored = NoToken]
    /\ UNCHANGED <<shell, loginPage, rpcs>>

\* bound: it is loaded again when it is at rest.
Reload(path) == rpcs = {} /\ Load(auth, path) /\ UNCHANGED desk

AuthNext ==
    \/ \E c \in rpcs : \E r \in Replies(c) : Arrives(c, r)
    \/ \E t \in AuthTokens : Expires(t)
    \/ HandleLogin \/ HandleRegister \/ HandleRecovery \/ ChooseForm \/ LeaveLogin
    \/ Browse \/ HandleLogout \/ PollServers \/ OtherTab
    \/ \E p \in Paths : Reload(p)

\* Every call is answered in the end, if only by an error; timers fire.
AuthFairness ==
    /\ WF_authVars(LeaveLogin)
    /\ \A op \in {"status", "user", "login", "register", "invite", "recovery", "logout"} :
         WF_authVars(\E c \in rpcs : c.op = op /\ \E r \in Replies(c) : Arrives(c, r))

AuthSpec == AuthInit /\ [][AuthNext]_authVars /\ AuthFairness

(***************************************************************************)
(* Properties                                                              *)
(***************************************************************************)
\* The interceptor lets rejected calls pass without a logout exactly as long as a logout of its own is on
\* its way, and that is one: a session that ends later is noticed.
InterceptorLogouts == {c \in rpcs : c.op = "logout" /\ c.for = "interceptor"}
InterceptorListens ==
    /\ shell.loggingOut <=> InterceptorLogouts # {}
    /\ \A c, d \in InterceptorLogouts : c = d

\* The code breaks these: the token that is sent is the one the browser keeps for the next visit, which
\* another tab may have removed or replaced.  And: whoever is logged in is not left at the login page (login/+page.svelte:72 "If already
\* authenticated, redirect to home").  The page looks only once, before the session is known.
TokensAgree == auth.token = auth.stored
LoginRedirects ==
    shell.path = "login" /\ auth.authenticated ~> shell.path # "login" \/ ~auth.authenticated
=============================================================================
