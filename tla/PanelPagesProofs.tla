--------------------------- MODULE PanelPagesProofs ---------------------------
(***************************************************************************)
(* Theorems about the pages of the panel that belong to no server, for any *)
(* number of users, roles, modpacks and tokens.                            *)
(*                                                                         *)
(* Each page has an invariant of its own: what its form and its calls hold,*)
(* and how the two agree.  What is sent is what the form had when it was   *)
(* sent, so each property of a call in flight is proved from one of the    *)
(* form, and a property of the backend from one of the calls.              *)
(***************************************************************************)
EXTENDS MCPanelPages, FiniteSetTheorems, TLAPS

-----------------------------------------------------------------------------
(* The session and the login page.                                          *)

Desks == [enabled : BOOLEAN, anonymous : BOOLEAN, hasUsers : BOOLEAN, live : SUBSET AuthTokens,
          issued : SUBSET AuthTokens, key : BOOLEAN]

Auths == [user : Someone, permissions : Someone, token : MaybeToken, stored : MaybeToken,
          authenticated : BOOLEAN, anonymous : BOOLEAN]

Shells == [path : Paths, loading : BOOLEAN, polling : BOOLEAN, loggingOut : BOOLEAN]

LoginPages == [mode : {"login", "register"}, loading : BOOLEAN, leaving : BOOLEAN,
               invite : {"none", "code"}]

AuthOps == {"status", "user", "login", "register", "invite", "recovery", "logout", "poll"}

UserWaits == {"layout", "page", "layout2", "login", "oidc"}

\* A call of the status or of the user says which continuation it has.
AuthCalls == {c \in [op : AuthOps, token : MaybeToken, for : UserWaits \cup {"interceptor", "user"},
                      first : BOOLEAN] :
                /\ c.op = "status" => c.for \in {"layout", "page"}
                /\ c.op = "user" => c.for \in UserWaits}

DeskOK == desk \in Desks /\ desk.live \subseteq desk.issued

AuthOK(a) == a \in Auths

AuthInv == DeskOK /\ AuthOK(auth) /\ shell \in Shells /\ loginPage \in LoginPages /\ rpcs \subseteq AuthCalls

LEMMA AuthTypesImply == AuthInv => AuthTypeOK
  BY DEF AuthInv, DeskOK, AuthOK, Desks, Auths, Shells, LoginPages, AuthTypeOK

LEMMA StatusCallIs ==
  ASSUME NEW for \in {"layout", "page"}
  PROVE  StatusCall(for) \in AuthCalls
  BY DEF StatusCall, Rpc, AuthCalls, AuthOps, MaybeToken, UserWaits

LEMMA UserCallIs ==
  ASSUME NEW token \in MaybeToken, NEW for \in UserWaits
  PROVE  UserCall(token, for) \in AuthCalls
  BY DEF UserCall, Rpc, AuthCalls, AuthOps, UserWaits

LEMMA CheckCallIs ==
  ASSUME NEW token \in MaybeToken, NEW for \in UserWaits, NEW first \in BOOLEAN
  PROVE  CheckCall(token, for, first) \in AuthCalls
  BY UserCallIs DEF CheckCall, UserCall, Rpc, AuthCalls

LEMMA RpcIs ==
  ASSUME NEW op \in AuthOps \ {"status", "user"}, NEW token \in MaybeToken,
         NEW for \in {"page", "interceptor", "user"}
  PROVE  Rpc(op, token, for) \in AuthCalls
  BY DEF Rpc, AuthCalls, AuthOps, UserWaits

\* What the store does to its state.
LEMMA StoreKeeps ==
  /\ \A t \in MaybeToken : AuthOK(LoadedAuth(t))
  /\ \A a : AuthOK(a) => AuthOK(Reset(a))
  /\ AuthOK(RecoveryReset)
  /\ \A a : \A who \in Someone : AuthOK(a) => AuthOK(Known(a, who))
  /\ \A a : \A t \in AuthTokens :
       AuthOK(a) => AuthOK([SetToken(a, t) EXCEPT !.user = t, !.authenticated = TRUE])
<1>1. ASSUME NEW t \in MaybeToken
      PROVE  AuthOK(LoadedAuth(t)) /\ DOMAIN LoadedAuth(t) = DOMAIN LoadedAuth(NoToken)
  BY DEF AuthOK, LoadedAuth, Auths, Someone
<1>2. NoToken \in MaybeToken
  BY DEF MaybeToken
<1>3. ASSUME NEW a, AuthOK(a) PROVE AuthOK(Reset(a))
  BY <1>1, <1>2, <1>3 DEF AuthOK, Reset, Auths
<1>4. AuthOK(RecoveryReset)
  BY <1>1, <1>2 DEF RecoveryReset
<1>5. ASSUME NEW a, NEW who \in Someone, AuthOK(a) PROVE AuthOK(Known(a, who))
  <2>1. PICK known \in BOOLEAN :
          Known(a, who) = [a EXCEPT !.user = who, !.permissions = who, !.authenticated = known]
    BY <1>5 DEF Known
  <2> QED
    BY <1>5, <2>1 DEF AuthOK, Auths
<1>6. ASSUME NEW a, NEW t \in AuthTokens, AuthOK(a)
      PROVE  AuthOK([SetToken(a, t) EXCEPT !.user = t, !.authenticated = TRUE])
  BY <1>6 DEF AuthOK, SetToken, Auths, Someone, MaybeToken
<1> QED
  BY <1>1, <1>3, <1>4, <1>5, <1>6

LEMMA ShellKeeps ==
  /\ \A s \in Shells : AtLogin(s) \in Shells /\ AtHome(s) \in Shells /\ Poll(s) \in Shells
                       /\ [s EXCEPT !.loading = FALSE] \in Shells /\ [s EXCEPT !.loggingOut = TRUE] \in Shells
  /\ \A p \in Paths : Opened(p) \in Shells
  /\ \A i \in {"none", "code"} : BlankLogin(i) \in LoginPages
<1>1. ASSUME NEW s \in Shells PROVE Poll(s) \in Shells
  <2>1. PICK polls \in BOOLEAN : Poll(s) = [s EXCEPT !.polling = polls]
    BY DEF Poll, Shells
  <2> QED
    BY <2>1 DEF Shells
<1>2. \A s \in Shells : AtLogin(s) \in Shells /\ AtHome(s) \in Shells
  BY DEF AtLogin, AtHome, Shells, Paths
<1>3. \A s \in Shells : [s EXCEPT !.loading = FALSE] \in Shells /\ [s EXCEPT !.loggingOut = TRUE] \in Shells
  BY DEF Shells
<1>4. \A p \in Paths : Opened(p) \in Shells
  BY DEF Opened, Shells
<1>5. \A i \in {"none", "code"} : BlankLogin(i) \in LoginPages
  BY DEF BlankLogin, LoginPages
<1> QED
  BY <1>1, <1>2, <1>3, <1>4, <1>5

\* What an answer leaves the browser with, when its parts are in order.
LEMMA AfterKeeps ==
  ASSUME AuthInv, DeskOK', NEW c, NEW a, AuthOK(a), NEW s \in Shells, NEW p \in LoginPages,
         NEW new \in SUBSET AuthCalls, After(c, a, s, p, new)
  PROVE  AuthInv'
<1> DEFINE mounts == s.path = "login" /\ shell.path # "login"
           there  == IF mounts /\ a.authenticated THEN AtHome(s) ELSE s
<1>1. /\ auth' = a /\ shell' = there
      /\ loginPage' = IF mounts \/ there.path # "login" THEN BlankLogin("none") ELSE p
      /\ rpcs' = (rpcs \ {c}) \cup new \cup
                 IF mounts /\ there.path = "login" THEN {StatusCall("page")} ELSE {}
  BY DEF After
<1>2. there \in Shells
  BY ShellKeeps
<1>3. BlankLogin("none") \in LoginPages
  BY ShellKeeps
<1>4. StatusCall("page") \in AuthCalls
  BY StatusCallIs
<1>5. AuthOK(auth)'
  BY <1>1 DEF AuthOK
<1> HIDE DEF mounts, there
<1>6. rpcs' \subseteq AuthCalls
  BY <1>1, <1>4 DEF AuthInv
<1>7. loginPage' \in LoginPages
  BY <1>1, <1>3
<1> QED
  BY <1>1, <1>2, <1>5, <1>6, <1>7 DEF AuthInv

\* The interceptor's part of a rejected call.
LEMMA InterceptorKeeps ==
  ASSUME AuthInv, NEW c, NEW r
  PROVE  AuthOK(AuthAfter(c, r)) /\ ShellAfter(c, r) \in Shells /\ LogoutCalls(c, r) \subseteq AuthCalls
<1>1. AuthOK(AuthAfter(c, r))
  BY StoreKeeps DEF AuthAfter, AuthInv
<1>2. ShellAfter(c, r) \in Shells
  BY ShellKeeps DEF ShellAfter, AuthInv
<1>3. LogoutCalls(c, r) \subseteq AuthCalls
  <2>1. auth.token \in MaybeToken
    BY DEF AuthInv, AuthOK, Auths
  <2>2. Rpc("logout", auth.token, "interceptor") \in AuthCalls
    BY <2>1, RpcIs DEF AuthOps
  <2> QED
    BY <2>2 DEF LogoutCalls
<1> QED
  BY <1>1, <1>2, <1>3

\* The page that was asked for the status, or the user, goes on.
LEMMA CheckedKeeps ==
  ASSUME AuthInv, DeskOK', NEW c, NEW r, NEW who \in {"layout", "page"}, NEW a, AuthOK(a),
         NEW s \in Shells, NEW first, c.for = who, Checked(c, r, first, a, s)
  PROVE  AuthInv'
<1>1. LogoutCalls(c, r) \subseteq AuthCalls /\ loginPage \in LoginPages
  BY InterceptorKeeps DEF AuthInv
<1>2. CASE who = "layout"
  <2> DEFINE up == [s EXCEPT !.loading = FALSE]
  <2>1. up \in Shells /\ Poll(up) \in Shells /\ AtLogin(up) \in Shells
    BY ShellKeeps
  <2>2. LayoutGoesOn(FALSE, a, up) \in Shells
    BY <2>1 DEF LayoutGoesOn
  <2>3. a.token \in MaybeToken
    BY DEF AuthOK, Auths
  <2>4. UserCall(a.token, "layout2") \in AuthCalls
    BY <2>3, UserCallIs DEF UserWaits
  <2>5. \/ After(c, a, Poll(up), loginPage, LogoutCalls(c, r))
        \/ After(c, a, AtLogin(up), loginPage, LogoutCalls(c, r))
        \/ After(c, a, up, loginPage, LogoutCalls(c, r) \cup {UserCall(a.token, "layout2")})
        \/ After(c, a, LayoutGoesOn(FALSE, a, up), loginPage, LogoutCalls(c, r))
    BY <1>2 DEF Checked, LayoutChecked
  <2> HIDE DEF up
  <2> QED
    BY <1>1, <2>1, <2>2, <2>4, <2>5, AfterKeeps
<1>3. CASE who = "page"
  <2>1. AtHome(s) \in Shells
    BY ShellKeeps
  <2>2. [loginPage EXCEPT !.mode = "register"] \in LoginPages
    BY <1>1 DEF LoginPages
  <2>3. Rpc("invite", NoToken, "page") \in AuthCalls
    BY RpcIs DEF AuthOps, MaybeToken
  <2>4. \/ After(c, a, s, loginPage, LogoutCalls(c, r))
        \/ After(c, a, AtHome(s), loginPage, {})
        \/ After(c, a, s, [loginPage EXCEPT !.mode = "register"], {})
        \/ After(c, a, s, loginPage, {Rpc("invite", NoToken, "page")})
        \/ After(c, a, s, loginPage, {})
    BY <1>3 DEF Checked, PageChecked
  <2> QED
    BY <1>1, <2>1, <2>2, <2>3, <2>4, AfterKeeps
<1> QED
  BY <1>2, <1>3

LEMMA StatusArrivesKeeps ==
  ASSUME AuthInv, DeskOK', NEW c \in rpcs, NEW r, StatusArrives(c, r)
  PROVE  AuthInv'
<1> DEFINE a == [auth EXCEPT !.anonymous = desk.anonymous]
<1>1. c \in AuthCalls /\ c.op = "status" /\ c.for \in {"layout", "page"}
  BY DEF AuthInv, AuthCalls, StatusArrives
<1>2. desk.anonymous \in BOOLEAN
  BY DEF AuthInv, DeskOK, Desks
<1>3. AuthOK(a) /\ a.token \in MaybeToken
  BY <1>2 DEF AuthInv, AuthOK, Auths
<1>4. \/ StatusFails(c)
      \/ After(c, a, shell, loginPage, {CheckCall(a.token, c.for, ~desk.hasUsers)})
      \/ Checked(c, r, ~desk.hasUsers, a, shell)
  BY DEF StatusArrives
<1> HIDE DEF a
<1>5. CASE StatusFails(c)
  <2>1. AtHome(shell) \in Shells /\ Poll([shell EXCEPT !.loading = FALSE]) \in Shells
    BY ShellKeeps DEF AuthInv
  <2>2. \/ After(c, auth, Poll([shell EXCEPT !.loading = FALSE]), loginPage, {})
        \/ After(c, auth, AtHome(shell), loginPage, {})
    BY <1>5 DEF StatusFails
  <2>3. AuthOK(auth) /\ loginPage \in LoginPages
    BY DEF AuthInv
  <2> QED
    BY <2>1, <2>2, <2>3, AfterKeeps
<1>6. CASE After(c, a, shell, loginPage, {CheckCall(a.token, c.for, ~desk.hasUsers)})
  <2>1. CheckCall(a.token, c.for, ~desk.hasUsers) \in AuthCalls
    BY <1>1, <1>3, CheckCallIs DEF UserWaits
  <2> QED
    BY <1>3, <1>6, <2>1, AfterKeeps DEF AuthInv
<1>7. CASE Checked(c, r, ~desk.hasUsers, a, shell)
  BY <1>1, <1>3, <1>7, CheckedKeeps DEF AuthInv
<1> QED
  BY <1>4, <1>5, <1>6, <1>7

\* The account that is answered is the token's, which the backend knows.
LEMMA AnswersAreKnown ==
  ASSUME AuthInv, NEW c \in rpcs, c.op = "user", "ok" \in Replies(c)
  PROVE  AnswerOf(c) \in Someone
<1>1. Granted(c) /\ ~Public(c.op)
  BY DEF Replies, Public
<1>2. CASE ~desk.enabled
  BY <1>2 DEF AnswerOf, Someone
<1>3. CASE desk.enabled
  <2>1. c.token \in AuthTokens
    BY <1>1, <1>3 DEF Granted, Accepted, AuthInv, DeskOK, Desks
  <2> QED
    BY <1>3, <2>1 DEF AnswerOf, Someone
<1> QED
  BY <1>2, <1>3

LEMMA UserArrivesKeeps ==
  ASSUME AuthInv, DeskOK', NEW c \in rpcs, NEW r \in Replies(c), UserArrives(c, r)
  PROVE  AuthInv'
<1> DEFINE ok == r = "ok"
           a == IF ok THEN Known(auth, AnswerOf(c)) ELSE AuthAfter(c, r)
           s == ShellAfter(c, r)
<1>1. c \in AuthCalls /\ c.op = "user" /\ c.for \in UserWaits
  BY DEF AuthInv, AuthCalls, UserArrives
<1>2. AuthOK(a)
  <2>1. CASE ok
    BY <1>1, <2>1, AnswersAreKnown, StoreKeeps DEF AuthInv
  <2>2. CASE ~ok
    BY <2>2, InterceptorKeeps
  <2> QED
    BY <2>1, <2>2
<1>3. s \in Shells /\ LogoutCalls(c, r) \subseteq AuthCalls /\ loginPage \in LoginPages
  BY InterceptorKeeps DEF AuthInv
<1>4. \/ c.for \in {"layout", "page"} /\ Checked(c, r, c.first, a, s)
      \/ After(c, a, LayoutGoesOn(ok, a, s), loginPage, LogoutCalls(c, r))
      \/ After(c, a, s, [loginPage EXCEPT !.leaving = TRUE], LogoutCalls(c, r))
      \/ After(c, a, IF ok THEN AtHome(s) ELSE s, loginPage, LogoutCalls(c, r))
  BY <1>1 DEF UserArrives, UserWaits
<1> HIDE DEF a, s, ok
<1>5. LayoutGoesOn(ok, a, s) \in Shells /\ (IF ok THEN AtHome(s) ELSE s) \in Shells
  BY <1>3, ShellKeeps DEF LayoutGoesOn
<1>6. [loginPage EXCEPT !.leaving = TRUE] \in LoginPages
  BY <1>3 DEF LoginPages
<1>7. CASE c.for \in {"layout", "page"} /\ Checked(c, r, c.first, a, s)
  BY <1>2, <1>3, <1>7, CheckedKeeps
<1> QED
  BY <1>2, <1>3, <1>4, <1>5, <1>6, <1>7, AfterKeeps

LEMMA LoginArrivesKeeps ==
  ASSUME AuthInv, DeskOK', NEW c \in rpcs, NEW r, LoginArrives(c, r)
  PROVE  AuthInv'
<1>1. CASE r = "ok"
  <2>1. PICK t \in desk'.issued \ desk.issued :
          After(c, [SetToken(auth, t) EXCEPT !.user = t, !.authenticated = TRUE],
                shell, loginPage, {UserCall(t, "login")})
    BY <1>1 DEF LoginArrives
  <2>2. t \in AuthTokens /\ t \in MaybeToken
    BY <2>1 DEF DeskOK, Desks, MaybeToken
  <2>3. AuthOK([SetToken(auth, t) EXCEPT !.user = t, !.authenticated = TRUE])
    BY <2>2, StoreKeeps DEF AuthInv
  <2>4. UserCall(t, "login") \in AuthCalls
    BY <2>2, UserCallIs DEF UserWaits
  <2>5. shell \in Shells /\ loginPage \in LoginPages
    BY DEF AuthInv
  <2> QED
    BY <2>1, <2>3, <2>4, <2>5, AfterKeeps
<1>2. CASE r # "ok"
  <2>1. After(c, AuthAfter(c, r), ShellAfter(c, r), [loginPage EXCEPT !.loading = FALSE],
              LogoutCalls(c, r))
    BY <1>2 DEF LoginArrives
  <2>2. [loginPage EXCEPT !.loading = FALSE] \in LoginPages
    BY DEF AuthInv, LoginPages
  <2> QED
    BY <2>1, <2>2, InterceptorKeeps, AfterKeeps
<1> QED
  BY <1>1, <1>2

LEMMA FormArrivesKeeps ==
  ASSUME AuthInv, DeskOK', NEW c \in rpcs, NEW r, RegisterArrives(c, r) \/ InviteArrives(c, r)
  PROVE  AuthInv'
<1>1. AuthOK(auth) /\ shell \in Shells /\ loginPage \in LoginPages
  BY DEF AuthInv
<1>2. /\ [loginPage EXCEPT !.loading = FALSE] \in LoginPages
      /\ [loginPage EXCEPT !.mode = "register", !.invite = "none"] \in LoginPages
      /\ [loginPage EXCEPT !.invite = "none"] \in LoginPages
  BY <1>1 DEF LoginPages
<1>3. Rpc("login", NoToken, "page") \in AuthCalls
  BY RpcIs DEF AuthOps, MaybeToken
<1>4. \/ After(c, auth, shell, loginPage, {Rpc("login", NoToken, "page")})
      \/ After(c, auth, shell, [loginPage EXCEPT !.loading = FALSE], {})
      \/ After(c, auth, shell, [loginPage EXCEPT !.mode = "register", !.invite = "none"], {})
      \/ After(c, auth, shell, [loginPage EXCEPT !.invite = "none"], {})
  BY DEF RegisterArrives, InviteArrives
<1> QED
  BY <1>1, <1>2, <1>3, <1>4, AfterKeeps

LEMMA LogoutArrivesKeeps ==
  ASSUME AuthInv, DeskOK', NEW c \in rpcs, NEW r, LogoutArrives(c, r)
  PROVE  AuthInv'
<1> DEFINE s == AtLogin(ShellAfter(c, r))
           s2 == [s EXCEPT !.loggingOut = StillLoggingOut(c, ShellAfter(c, r))]
<1>1. s \in Shells /\ LogoutCalls(c, r) \subseteq AuthCalls
  BY InterceptorKeeps, ShellKeeps
<1>2. After(c, Reset(auth), s2, loginPage, LogoutCalls(c, r))
  BY DEF LogoutArrives
<1>3. s2 \in Shells
  <2> HIDE DEF s
  <2>1. PICK out \in BOOLEAN : s2 = [s EXCEPT !.loggingOut = out]
    BY InterceptorKeeps DEF Shells, StillLoggingOut
  <2> QED
    BY <1>1, <2>1 DEF Shells
<1>4. AuthOK(Reset(auth)) /\ loginPage \in LoginPages
  BY StoreKeeps DEF AuthInv
<1> HIDE DEF s, s2
<1> QED
  BY <1>1, <1>2, <1>3, <1>4, AfterKeeps

LEMMA PollArrivesKeeps ==
  ASSUME AuthInv, DeskOK', NEW c \in rpcs, NEW r, PollArrives(c, r)
  PROVE  AuthInv'
<1>1. loginPage \in LoginPages
  BY DEF AuthInv
<1> QED
  BY <1>1, InterceptorKeeps, AfterKeeps DEF PollArrives

\* A page that is loaded takes the token from the browser.
LEMMA LoadKeeps ==
  ASSUME DeskOK', NEW a, AuthOK(a), NEW path \in Paths, Load(a, path)
  PROVE  AuthInv'
<1>1. a.stored \in MaybeToken
  BY DEF AuthOK, Auths
<1>2. AuthOK(LoadedAuth(a.stored)) /\ Opened(path) \in Shells /\ BlankLogin("none") \in LoginPages
  BY <1>1, StoreKeeps, ShellKeeps
<1>3. OpeningCalls(path) \subseteq AuthCalls
  BY StatusCallIs DEF OpeningCalls
<1>4. /\ auth' = LoadedAuth(a.stored) /\ shell' = Opened(path) /\ loginPage' = BlankLogin("none")
      /\ rpcs' = OpeningCalls(path)
  BY DEF Load
<1>5. AuthOK(auth)'
  BY <1>2, <1>4 DEF AuthOK
<1> QED
  BY <1>2, <1>3, <1>4, <1>5 DEF AuthInv

LEMMA RecoveryArrivesKeeps ==
  ASSUME AuthInv, DeskOK', NEW c \in rpcs, NEW r, RecoveryArrives(c, r)
  PROVE  AuthInv'
<1>1. CASE r = "ok"
  <2>1. Load(RecoveryReset, "login") /\ "login" \in Paths
    BY <1>1 DEF RecoveryArrives, Paths
  <2> QED
    BY <2>1, LoadKeeps, StoreKeeps
<1>2. CASE r # "ok"
  <2>1. After(c, auth, shell, [loginPage EXCEPT !.loading = FALSE], {})
    BY <1>2 DEF RecoveryArrives
  <2>2. [loginPage EXCEPT !.loading = FALSE] \in LoginPages /\ AuthOK(auth) /\ shell \in Shells
    BY DEF AuthInv, LoginPages
  <2> QED
    BY <2>1, <2>2, AfterKeeps
<1> QED
  BY <1>1, <1>2

\* The backend hands out tokens that were not handed out before.
LEMMA ServedKeeps ==
  ASSUME DeskOK, NEW c, NEW issued \in SUBSET AuthTokens
  PROVE  Served(c, issued) \in Desks /\ Served(c, issued).live \subseteq Served(c, issued).issued
<1>1. /\ [desk EXCEPT !.live = @ \cup issued, !.issued = @ \cup issued] \in Desks
      /\ desk.live \cup issued \subseteq desk.issued \cup issued
  BY DEF DeskOK, Desks
<1>2. CASE c.op = "login"
  BY <1>1, <1>2 DEF Served, DeskOK, Desks
<1>3. CASE c.op # "login"
  <2>1. \/ Served(c, issued) = [desk EXCEPT !.hasUsers = TRUE]
        \/ Served(c, issued) = [desk EXCEPT !.live = @ \ {c.token}]
        \/ Served(c, issued) = [desk EXCEPT !.live = {}, !.hasUsers = FALSE, !.key = FALSE]
        \/ Served(c, issued) = desk
    BY <1>3 DEF Served
  <2> QED
    BY <2>1 DEF DeskOK, Desks
<1> QED
  BY <1>2, <1>3

LEMMA ArrivesKeeps ==
  ASSUME AuthInv, NEW c \in rpcs, NEW r \in Replies(c), Arrives(c, r)
  PROVE  AuthInv'
<1>1. PICK issued \in {{t} : t \in AuthTokens \ desk.issued} \cup {{}} :
        desk' = IF r = "ok" THEN Served(c, issued) ELSE desk
  BY DEF Arrives
<1>2. issued \in SUBSET AuthTokens
  OBVIOUS
<1>3. desk' \in Desks /\ desk'.live \subseteq desk'.issued
  BY <1>1, <1>2, ServedKeeps DEF AuthInv, DeskOK
<1>4. DeskOK'
  BY <1>3 DEF DeskOK
<1>5. \/ StatusArrives(c, r) \/ UserArrives(c, r) \/ LoginArrives(c, r) \/ RegisterArrives(c, r)
      \/ InviteArrives(c, r) \/ LogoutArrives(c, r) \/ PollArrives(c, r) \/ RecoveryArrives(c, r)
  BY DEF Arrives
<1> QED
  BY <1>4, <1>5, StatusArrivesKeeps, UserArrivesKeeps, LoginArrivesKeeps, FormArrivesKeeps,
     LogoutArrivesKeeps, PollArrivesKeeps, RecoveryArrivesKeeps

\* The user's own steps.
LEMMA UserStepKeeps ==
  ASSUME AuthInv,
         \/ HandleLogin \/ HandleRegister \/ HandleRecovery \/ ChooseForm \/ LeaveLogin
         \/ Browse \/ HandleLogout \/ PollServers \/ OtherTab
  PROVE  AuthInv'
<1>1. AuthOK(auth) /\ shell \in Shells /\ loginPage \in LoginPages /\ rpcs \subseteq AuthCalls
      /\ auth.token \in MaybeToken
  BY DEF AuthInv, AuthOK, Auths
<1>2. BlankLogin("none") \in LoginPages /\ StatusCall("page") \in AuthCalls
  BY ShellKeeps, StatusCallIs
<1>3. ASSUME desk' = desk, AuthOK(auth'), shell' \in Shells, loginPage' \in LoginPages,
             rpcs' \subseteq AuthCalls
      PROVE  AuthInv'
  BY <1>3 DEF AuthInv, DeskOK, AuthOK
<1>4. ASSUME NEW op \in {"login", "register", "recovery"}, Submit(op) PROVE AuthInv'
  <2>1. Rpc(op, NoToken, "page") \in AuthCalls
    BY RpcIs DEF AuthOps, MaybeToken
  <2>2. [loginPage EXCEPT !.loading = TRUE] \in LoginPages
    BY <1>1 DEF LoginPages
  <2> QED
    BY <1>1, <1>3, <1>4, <2>1, <2>2 DEF Submit, Send
<1>5. CASE HandleLogin \/ HandleRegister \/ HandleRecovery
  BY <1>4, <1>5 DEF HandleLogin, HandleRegister, HandleRecovery
<1>6. CASE ChooseForm
  <2>1. loginPage' \in LoginPages
    BY <1>1, <1>6 DEF ChooseForm, LoginPages
  <2> QED
    BY <1>1, <1>3, <1>6, <2>1 DEF ChooseForm
<1>7. CASE LeaveLogin
  <2>1. AtHome(shell) \in Shells
    BY <1>1, ShellKeeps
  <2> QED
    BY <1>1, <1>2, <1>3, <1>7, <2>1 DEF LeaveLogin
<1>8. CASE Browse
  <2>1. shell' \in Shells
    BY <1>1, <1>8 DEF Browse, Shells, Paths
  <2>2. rpcs' \subseteq AuthCalls
    BY <1>1, <1>2, <1>8 DEF Browse
  <2> QED
    BY <1>1, <1>2, <1>3, <1>8, <2>1, <2>2 DEF Browse
<1>9. CASE HandleLogout
  <2>1. Rpc("logout", auth.token, "user") \in AuthCalls
    BY <1>1, RpcIs DEF AuthOps
  <2>2. AuthOK(Reset(auth)) /\ AtLogin(shell) \in Shells
    BY <1>1, StoreKeeps, ShellKeeps
  <2> QED
    BY <1>1, <1>2, <1>3, <1>9, <2>1, <2>2 DEF HandleLogout, Send
<1>10. CASE PollServers
  <2>1. Rpc("poll", auth.token, "page") \in AuthCalls
    BY <1>1, RpcIs DEF AuthOps
  <2> QED
    BY <1>1, <1>3, <1>10, <2>1 DEF PollServers, Send
<1>11. CASE OtherTab
  <2>1. shell' = shell /\ loginPage' = loginPage /\ rpcs' = rpcs
    BY <1>11 DEF OtherTab
  <2>2. ASSUME NEW live \in SUBSET AuthTokens, NEW issued \in SUBSET AuthTokens, NEW stored \in MaybeToken,
               live \subseteq issued, desk' = [desk EXCEPT !.live = live, !.issued = issued],
               auth' = [auth EXCEPT !.stored = stored]
        PROVE  AuthInv'
    <3>1. desk' \in Desks /\ desk'.live \subseteq desk'.issued /\ auth' \in Auths
      BY <1>1, <2>2 DEF AuthInv, AuthOK, Auths, DeskOK, Desks
    <3>2. DeskOK' /\ AuthOK(auth)'
      BY <3>1 DEF DeskOK, AuthOK
    <3> QED
      BY <1>1, <2>1, <3>2 DEF AuthInv
  <2>3. ASSUME NEW t \in AuthTokens, auth' = [auth EXCEPT !.stored = t],
               desk' = [desk EXCEPT !.live = @ \cup {t}, !.issued = @ \cup {t}]
        PROVE  AuthInv'
    <3>1. /\ desk.live \cup {t} \subseteq desk.issued \cup {t} /\ t \in MaybeToken
          /\ desk.live \cup {t} \in SUBSET AuthTokens /\ desk.issued \cup {t} \in SUBSET AuthTokens
      BY DEF AuthInv, DeskOK, Desks, MaybeToken
    <3> QED
      BY <2>2, <2>3, <3>1
  <2>4. ASSUME NEW gone \in {{}, {auth.stored}}, auth' = [auth EXCEPT !.stored = NoToken],
               desk' = [desk EXCEPT !.live = @ \ gone]
        PROVE  AuthInv'
    <3>1. /\ desk.live \ gone \subseteq desk.issued /\ NoToken \in MaybeToken
          /\ desk.live \ gone \in SUBSET AuthTokens /\ desk.issued \in SUBSET AuthTokens
          /\ desk' = [desk EXCEPT !.live = desk.live \ gone, !.issued = desk.issued]
      BY <2>4 DEF AuthInv, DeskOK, Desks, MaybeToken
    <3> QED
      BY <2>2, <2>4, <3>1
  <2> QED
    BY <1>11, <2>3, <2>4 DEF OtherTab
<1> QED
  BY <1>5, <1>6, <1>7, <1>8, <1>9, <1>10, <1>11

LEMMA AuthInitInv == AuthInit => AuthInv
<1> SUFFICES ASSUME AuthInit PROVE AuthInv
  OBVIOUS
<1>1. {OldToken, NoToken} \subseteq MaybeToken /\ OldToken \in AuthTokens
  BY TokensAssumption DEF MaybeToken
<1>2. DeskOK
  BY <1>1 DEF AuthInit, DeskOK, Desks
<1>3. PICK t \in {OldToken, NoToken} : auth = LoadedAuth(t)
  BY DEF AuthInit
<1>4. AuthOK(auth) /\ auth.token \in MaybeToken
  BY <1>1, <1>3, StoreKeeps DEF AuthOK, Auths
<1>5. "login" \in Paths
  BY DEF Paths
<1>6. shell \in Shells /\ loginPage \in LoginPages
  BY <1>5, ShellKeeps DEF AuthInit
<1>7. rpcs \subseteq AuthCalls
  <2>1. UserCall(auth.token, "oidc") \in AuthCalls
    BY <1>4, UserCallIs DEF UserWaits
  <2> QED
    BY <2>1, StatusCallIs DEF AuthInit, OpeningCalls
<1> QED
  BY <1>2, <1>4, <1>6, <1>7 DEF AuthInv

LEMMA AuthStep == AuthInv /\ [AuthNext]_authVars => AuthInv'
<1> SUFFICES ASSUME AuthInv, [AuthNext]_authVars PROVE AuthInv'
  OBVIOUS
<1>1. ASSUME NEW c \in rpcs, NEW r \in Replies(c), Arrives(c, r) PROVE AuthInv'
  BY <1>1, ArrivesKeeps
<1>2. ASSUME NEW t \in AuthTokens, Expires(t) PROVE AuthInv'
  <2>1. DeskOK'
    BY <1>2 DEF Expires, AuthInv, DeskOK, Desks
  <2> QED
    BY <1>2, <2>1 DEF Expires, AuthInv, AuthOK
<1>3. ASSUME NEW p \in Paths, Reload(p) PROVE AuthInv'
  <2>1. DeskOK'
    BY <1>3 DEF Reload, AuthInv, DeskOK
  <2> QED
    BY <1>3, <2>1, LoadKeeps DEF Reload, AuthInv
<1>4. CASE UNCHANGED authVars
  BY <1>4 DEF authVars, AuthInv, DeskOK, AuthOK
<1> QED
  BY <1>1, <1>2, <1>3, <1>4, UserStepKeeps DEF AuthNext

\* The interceptor's logouts.
IsOut(c) == c.op = "logout" /\ c.for = "interceptor"

LEMMA ShellFlags ==
  \A s \in Shells : /\ AtLogin(s).loggingOut = s.loggingOut /\ AtHome(s).loggingOut = s.loggingOut
                    /\ Poll(s).loggingOut = s.loggingOut
                    /\ [s EXCEPT !.loading = FALSE].loggingOut = s.loggingOut
  BY DEF AtLogin, AtHome, Poll, Shells

\* An answer that leaves the flag and the logouts alone, begins one, or ends it.
LEMMA AfterListens ==
  ASSUME InterceptorListens, NEW c \in rpcs, NEW a, NEW s \in Shells, NEW p, NEW new, After(c, a, s, p, new),
         \/ ~IsOut(c) /\ (s.loggingOut <=> shell.loggingOut) /\ \A d \in new : ~IsOut(d)
         \/ ~IsOut(c) /\ ~shell.loggingOut /\ s.loggingOut
            /\ \E o \in new : IsOut(o) /\ \A d \in new : IsOut(d) => d = o
         \/ IsOut(c) /\ ~s.loggingOut /\ \A d \in new : ~IsOut(d)
  PROVE  InterceptorListens'
<1>1. shell'.loggingOut = s.loggingOut
  BY ShellFlags DEF After
<1>2. \A d : IsOut(d) => (d \in rpcs' <=> d \in (rpcs \ {c}) \cup new)
  BY DEF After, StatusCall, Rpc, IsOut
<1>3. (shell.loggingOut <=> \E d \in rpcs : IsOut(d)) /\ \A d, e \in rpcs : IsOut(d) /\ IsOut(e) => d = e
  BY DEF InterceptorListens, InterceptorLogouts, IsOut
<1>4. (shell'.loggingOut <=> \E d \in rpcs' : IsOut(d)) /\ \A d, e \in rpcs' : IsOut(d) /\ IsOut(e) => d = e
  <2>1. CASE ~IsOut(c) /\ (s.loggingOut <=> shell.loggingOut) /\ \A d \in new : ~IsOut(d)
    BY <1>1, <1>2, <1>3, <2>1
  <2>2. CASE ~IsOut(c) /\ ~shell.loggingOut /\ s.loggingOut
             /\ \E o \in new : IsOut(o) /\ \A d \in new : IsOut(d) => d = o
    BY <1>1, <1>2, <1>3, <2>2
  <2>3. CASE IsOut(c) /\ ~s.loggingOut /\ \A d \in new : ~IsOut(d)
    BY <1>1, <1>2, <1>3, <2>3
  <2> QED
    BY <2>1, <2>2, <2>3
<1> QED
  BY <1>4 DEF InterceptorListens, InterceptorLogouts, IsOut

\* What a rejected call makes of the flag, with the logout that it begins.
LEMMA AnswerListens ==
  ASSUME AuthInv, InterceptorListens, NEW c \in rpcs, ~IsOut(c), NEW r, NEW a, NEW s \in Shells, NEW p,
         NEW new, After(c, a, s, p, new), s.loggingOut <=> ShellAfter(c, r).loggingOut,
         LogoutCalls(c, r) \subseteq new, \A d \in new \ LogoutCalls(c, r) : ~IsOut(d)
  PROVE  InterceptorListens'
<1>1. shell \in Shells
  BY DEF AuthInv
<1>2. CASE LogsOut(c, r) /\ auth.token # NoToken
  <2>1. ~shell.loggingOut /\ ShellAfter(c, r).loggingOut
    BY <1>1, <1>2 DEF LogsOut, ShellAfter, Shells
  <2>2. LogoutCalls(c, r) = {Rpc("logout", auth.token, "interceptor")}
    BY <1>2 DEF LogoutCalls
  <2>3. \E o \in new : IsOut(o) /\ \A d \in new : IsOut(d) => d = o
    <3>1. IsOut(Rpc("logout", auth.token, "interceptor"))
      BY DEF IsOut, Rpc
    <3> QED
      BY <2>2, <3>1
  <2> QED
    BY <2>1, <2>3, AfterListens
<1>3. CASE ~(LogsOut(c, r) /\ auth.token # NoToken)
  <2>1. LogoutCalls(c, r) = {} /\ ShellAfter(c, r).loggingOut = shell.loggingOut
    BY <1>1, <1>3, ShellFlags DEF LogoutCalls, ShellAfter
  <2> QED
    BY <2>1, AfterListens
<1> QED
  BY <1>2, <1>3

LEMMA CheckedListens ==
  ASSUME AuthInv, InterceptorListens, NEW c \in rpcs, ~IsOut(c), NEW r, NEW first, NEW a,
         c.for \in {"layout", "page"}, Checked(c, r, first, a, ShellAfter(c, r))
  PROVE  InterceptorListens'
<1> DEFINE s == ShellAfter(c, r)
<1>1. s \in Shells
  BY InterceptorKeeps
<1>2. CASE c.for = "layout"
  <2> DEFINE up == [s EXCEPT !.loading = FALSE]
  <2>1. up \in Shells /\ up.loggingOut = s.loggingOut
    BY <1>1, ShellKeeps, ShellFlags
  <2>2. PICK s2, more : /\ After(c, a, s2, loginPage, LogoutCalls(c, r) \cup more)
                        /\ s2 \in {Poll(up), AtLogin(up), up}
                        /\ more \in {{}, {UserCall(a.token, "layout2")}}
    <3>1. \/ After(c, a, Poll(up), loginPage, LogoutCalls(c, r))
          \/ After(c, a, AtLogin(up), loginPage, LogoutCalls(c, r))
          \/ After(c, a, up, loginPage, LogoutCalls(c, r) \cup {UserCall(a.token, "layout2")})
      BY <1>2 DEF Checked, LayoutChecked, LayoutGoesOn
    <3>2. LogoutCalls(c, r) \cup {} = LogoutCalls(c, r)
      OBVIOUS
    <3> HIDE DEF s, up
    <3> QED
      BY <3>1, <3>2
  <2>3. \A d \in more : ~IsOut(d)
    BY <2>2 DEF UserCall, Rpc, IsOut
  <2> HIDE DEF up
  <2>4. s2 \in Shells /\ s2.loggingOut = s.loggingOut
    BY <2>1, <2>2, ShellKeeps, ShellFlags
  <2> QED
    BY <2>2, <2>3, <2>4, AnswerListens
<1>3. CASE c.for = "page"
  <2>1. CASE shell.path # "login"
    <3>1. After(c, a, s, loginPage, LogoutCalls(c, r))
      BY <1>3, <2>1 DEF Checked, PageChecked
    <3> QED
      BY <1>1, <3>1, AnswerListens
  <2>2. CASE shell.path = "login"
    <3>1. LogoutCalls(c, r) = {}
      BY <2>2 DEF LogoutCalls, LogsOut
    <3>2. \/ After(c, a, AtHome(s), loginPage, {})
          \/ After(c, a, s, [loginPage EXCEPT !.mode = "register"], {})
          \/ After(c, a, s, loginPage, {Rpc("invite", NoToken, "page")})
          \/ After(c, a, s, loginPage, {})
      BY <1>3, <2>2 DEF Checked, PageChecked
    <3>3. AtHome(s) \in Shells /\ AtHome(s).loggingOut = s.loggingOut
      BY <1>1, ShellKeeps, ShellFlags
    <3>4. ~IsOut(Rpc("invite", NoToken, "page"))
      BY DEF IsOut, Rpc
    <3> HIDE DEF s
    <3>5. s.loggingOut <=> ShellAfter(c, r).loggingOut
      BY DEF s
    <3> QED
      BY <1>1, <3>1, <3>2, <3>3, <3>4, <3>5, AnswerListens
  <2> QED
    BY <2>1, <2>2
<1> QED
  BY <1>2, <1>3

LEMMA LoadListens ==
  ASSUME NEW a, NEW path, Load(a, path)
  PROVE  InterceptorListens'
<1>1. ~shell'.loggingOut /\ rpcs' = OpeningCalls(path)
  BY DEF Load, Opened
<1>2. \A d \in OpeningCalls(path) : ~IsOut(d)
  BY DEF OpeningCalls, StatusCall, Rpc, IsOut
<1>3. InterceptorLogouts' = {}
  BY <1>1, <1>2 DEF InterceptorLogouts, IsOut
<1> QED
  BY <1>1, <1>3 DEF InterceptorListens

LEMMA ArrivesListens ==
  ASSUME AuthInv, InterceptorListens, NEW c \in rpcs, NEW r \in Replies(c), Arrives(c, r)
  PROVE  InterceptorListens'
<1>1. /\ c \in AuthCalls /\ shell \in Shells /\ ShellAfter(c, r) \in Shells
      /\ LogoutCalls(c, r) \subseteq AuthCalls
  BY InterceptorKeeps DEF AuthInv
<1>2. CASE StatusArrives(c, r)
  <2>1. ~IsOut(c) /\ c.for \in {"layout", "page"} /\ r # "denied"
    BY <1>1, <1>2 DEF StatusArrives, IsOut, AuthCalls, Replies, Denied, Public
  <2>2. LogoutCalls(c, r) = {} /\ ShellAfter(c, r) = shell
    BY <2>1 DEF LogoutCalls, ShellAfter, LogsOut
  <2>3. PICK a : \/ StatusFails(c)
                 \/ After(c, a, shell, loginPage, {CheckCall(a.token, c.for, ~desk.hasUsers)})
                 \/ Checked(c, r, ~desk.hasUsers, a, shell)
    BY <1>2 DEF StatusArrives
  <2>4. ~IsOut(CheckCall(a.token, c.for, ~desk.hasUsers))
    BY DEF CheckCall, UserCall, Rpc, IsOut
  <2>5. CASE StatusFails(c)
    <3>1. PICK s \in {Poll([shell EXCEPT !.loading = FALSE]), AtHome(shell)} :
            After(c, auth, s, loginPage, {})
      BY <2>5 DEF StatusFails
    <3>2. s \in Shells /\ s.loggingOut = shell.loggingOut
      BY <1>1, <3>1, ShellKeeps, ShellFlags
    <3> QED
      BY <2>1, <2>2, <3>1, <3>2, AnswerListens
  <2>6. CASE After(c, a, shell, loginPage, {CheckCall(a.token, c.for, ~desk.hasUsers)})
    BY <1>1, <2>1, <2>2, <2>4, <2>6, AnswerListens
  <2>7. CASE Checked(c, r, ~desk.hasUsers, a, shell)
    BY <2>1, <2>2, <2>7, CheckedListens
  <2> QED
    BY <2>3, <2>5, <2>6, <2>7
<1>3. CASE UserArrives(c, r)
  <2> DEFINE ok == r = "ok"
             a == IF ok THEN Known(auth, AnswerOf(c)) ELSE AuthAfter(c, r)
             s == ShellAfter(c, r)
  <2>1. c.op = "user" /\ ~IsOut(c) /\ c.for \in UserWaits
    BY <1>1, <1>3 DEF UserArrives, IsOut, AuthCalls
  <2>2. \/ c.for \in {"layout", "page"} /\ Checked(c, r, c.first, a, s)
        \/ After(c, a, LayoutGoesOn(ok, a, s), loginPage, LogoutCalls(c, r))
        \/ After(c, a, s, [loginPage EXCEPT !.leaving = TRUE], LogoutCalls(c, r))
        \/ After(c, a, IF ok THEN AtHome(s) ELSE s, loginPage, LogoutCalls(c, r))
    BY <1>3, <2>1 DEF UserArrives, UserWaits
  <2> HIDE DEF a, ok
  <2>3. \A s2 \in {LayoutGoesOn(ok, a, s), s, IF ok THEN AtHome(s) ELSE s} :
          s2 \in Shells /\ s2.loggingOut = ShellAfter(c, r).loggingOut
    BY <1>1, ShellKeeps, ShellFlags DEF LayoutGoesOn
  <2>4. CASE Checked(c, r, c.first, a, s) /\ c.for \in {"layout", "page"}
    BY <2>1, <2>4, CheckedListens
  <2>5. CASE ~(Checked(c, r, c.first, a, s) /\ c.for \in {"layout", "page"})
    <3>1. PICK s2, p : /\ After(c, a, s2, p, LogoutCalls(c, r))
                       /\ s2 \in {LayoutGoesOn(ok, a, s), s, IF ok THEN AtHome(s) ELSE s}
      BY <2>2, <2>5
    <3> QED
      BY <2>1, <2>3, <3>1, AnswerListens
  <2> QED
    BY <2>4, <2>5
<1>4. CASE LoginArrives(c, r)
  <2>1. c.op = "login" /\ ~IsOut(c)
    BY <1>4 DEF LoginArrives, IsOut
  <2>2. CASE r = "ok"
    <3>1. PICK t, a : After(c, a, shell, loginPage, {UserCall(t, "login")})
      BY <1>4, <2>2 DEF LoginArrives
    <3>2. LogoutCalls(c, r) = {} /\ ShellAfter(c, r) = shell
      BY <2>2 DEF LogoutCalls, ShellAfter, LogsOut
    <3>3. ~IsOut(UserCall(t, "login"))
      BY DEF UserCall, Rpc, IsOut
    <3> QED
      BY <1>1, <2>1, <3>1, <3>2, <3>3, AnswerListens
  <2>3. CASE r # "ok"
    <3>1. After(c, AuthAfter(c, r), ShellAfter(c, r), [loginPage EXCEPT !.loading = FALSE], LogoutCalls(c, r))
      BY <1>4, <2>3 DEF LoginArrives
    <3> QED
      BY <1>1, <2>1, <3>1, AnswerListens
  <2> QED
    BY <2>2, <2>3
<1>5. CASE RegisterArrives(c, r) \/ InviteArrives(c, r)
  <2>1. ~IsOut(c)
    BY <1>5 DEF RegisterArrives, InviteArrives, IsOut
  <2>2. PICK p, new : After(c, auth, shell, p, new) /\ new \in {{}, {Rpc("login", NoToken, "page")}}
    BY <1>5 DEF RegisterArrives, InviteArrives
  <2>3. \A d \in new : ~IsOut(d)
    BY <2>2 DEF Rpc, IsOut
  <2> QED
    BY <1>1, <2>1, <2>2, <2>3, AfterListens
<1>6. CASE LogoutArrives(c, r)
  <2> DEFINE s  == ShellAfter(c, r)
             s2 == [AtLogin(s) EXCEPT !.loggingOut = StillLoggingOut(c, s)]
  <2>1. After(c, Reset(auth), s2, loginPage, LogoutCalls(c, r)) /\ c.op = "logout"
    BY <1>6 DEF LogoutArrives
  <2>2. AtLogin(s) \in Shells
    BY <1>1, ShellKeeps
  <2>3. s2 \in Shells /\ s2.loggingOut = StillLoggingOut(c, s)
    <3>1. StillLoggingOut(c, s) \in BOOLEAN
      BY <1>1 DEF StillLoggingOut, Shells
    <3> HIDE DEF s
    <3> QED
      BY <2>2, <3>1 DEF Shells
  <2> HIDE DEF s2
  <2>4. CASE c.for = "interceptor"
    <3>1. shell.loggingOut
      BY <2>1, <2>4 DEF InterceptorListens, InterceptorLogouts
    <3>2. LogoutCalls(c, r) = {}
      BY <3>1 DEF LogoutCalls, LogsOut
    <3>3. ~s2.loggingOut /\ IsOut(c)
      BY <2>1, <2>3, <2>4 DEF StillLoggingOut, IsOut
    <3> QED
      BY <2>1, <2>3, <3>2, <3>3, AfterListens
  <2>5. CASE c.for # "interceptor"
    <3>1. ~IsOut(c) /\ (s2.loggingOut <=> ShellAfter(c, r).loggingOut)
      BY <1>1, <2>3, <2>5 DEF StillLoggingOut, IsOut, Shells
    <3> QED
      BY <2>1, <2>3, <3>1, AnswerListens
  <2> QED
    BY <2>4, <2>5
<1>7. CASE PollArrives(c, r)
  <2>1. ~IsOut(c) /\ After(c, AuthAfter(c, r), ShellAfter(c, r), loginPage, LogoutCalls(c, r))
    BY <1>7 DEF PollArrives, IsOut
  <2> QED
    BY <1>1, <2>1, AnswerListens
<1>8. CASE RecoveryArrives(c, r)
  <2>1. ~IsOut(c)
    BY <1>8 DEF RecoveryArrives, IsOut
  <2>2. CASE r = "ok"
    BY <1>8, <2>2, LoadListens DEF RecoveryArrives
  <2>3. CASE r # "ok"
    <3>1. After(c, auth, shell, [loginPage EXCEPT !.loading = FALSE], {})
      BY <1>8, <2>3 DEF RecoveryArrives
    <3> QED
      BY <1>1, <2>1, <3>1, AfterListens
  <2> QED
    BY <2>2, <2>3
<1> QED
  BY <1>2, <1>3, <1>4, <1>5, <1>6, <1>7, <1>8 DEF Arrives

LEMMA ListensInit == AuthInit => InterceptorListens
<1> SUFFICES ASSUME AuthInit PROVE InterceptorListens
  OBVIOUS
<1>1. \A d \in rpcs : ~IsOut(d)
  BY DEF AuthInit, OpeningCalls, StatusCall, UserCall, Rpc, IsOut
<1>2. ~shell.loggingOut
  BY DEF AuthInit, Opened
<1> QED
  BY <1>1, <1>2 DEF InterceptorListens, InterceptorLogouts, IsOut

LEMMA ListensStep == AuthInv /\ InterceptorListens /\ [AuthNext]_authVars => InterceptorListens'
<1> SUFFICES ASSUME AuthInv, InterceptorListens, [AuthNext]_authVars PROVE InterceptorListens'
  OBVIOUS
<1>1. ASSUME NEW c \in rpcs, NEW r \in Replies(c), Arrives(c, r) PROVE InterceptorListens'
  BY <1>1, ArrivesListens
<1>2. ASSUME NEW p \in Paths, Reload(p) PROVE InterceptorListens'
  BY <1>2, LoadListens DEF Reload
<1>3. ASSUME rpcs \subseteq rpcs', \A d \in rpcs' \ rpcs : ~IsOut(d),
             shell'.loggingOut = shell.loggingOut
      PROVE  InterceptorListens'
  <2>1. InterceptorLogouts' = InterceptorLogouts
    BY <1>3 DEF InterceptorLogouts, IsOut
  <2> QED
    BY <1>3, <2>1 DEF InterceptorListens
<1>4. shell \in Shells
  BY DEF AuthInv
<1>5. ASSUME NEW op, Submit(op), op # "logout" PROVE InterceptorListens'
  <2>1. ~IsOut(Rpc(op, NoToken, "page"))
    BY <1>5 DEF Rpc, IsOut
  <2> QED
    BY <1>3, <1>5, <2>1 DEF Submit, Send
<1>6. CASE HandleLogin \/ HandleRegister \/ HandleRecovery
  BY <1>5, <1>6 DEF HandleLogin, HandleRegister, HandleRecovery
<1>7. CASE ChooseForm \/ LeaveLogin \/ OtherTab \/ UNCHANGED authVars \/ \E t \in AuthTokens : Expires(t)
  <2>1. rpcs' = rpcs /\ shell' \in {shell, AtHome(shell)}
    BY <1>7 DEF ChooseForm, LeaveLogin, OtherTab, authVars, Expires
  <2>2. shell'.loggingOut = shell.loggingOut
    BY <1>4, <2>1, ShellFlags
  <2> QED
    BY <1>3, <2>1, <2>2
<1>8. CASE Browse
  <2>1. PICK more \in {{}, {StatusCall("page")}} : rpcs' = rpcs \cup more
    BY <1>8 DEF Browse
  <2>2. shell'.loggingOut = shell.loggingOut
    BY <1>4, <1>8 DEF Browse, Shells
  <2>3. \A d \in more : ~IsOut(d)
    BY <2>1 DEF StatusCall, Rpc, IsOut
  <2> QED
    BY <1>3, <2>1, <2>2, <2>3
<1>9. CASE HandleLogout
  <2>1. PICK d \in {Rpc("logout", auth.token, "user"), StatusCall("page")} : rpcs' = rpcs \cup {d}
    BY <1>9 DEF HandleLogout, Send
  <2>2. ~IsOut(d)
    BY <2>1 DEF StatusCall, Rpc, IsOut
  <2>3. shell'.loggingOut = shell.loggingOut
    BY <1>4, <1>9, ShellFlags DEF HandleLogout
  <2> QED
    BY <1>3, <2>1, <2>2, <2>3
<1>10. CASE PollServers
  <2>1. ~IsOut(Rpc("poll", auth.token, "page"))
    BY DEF Rpc, IsOut
  <2> QED
    BY <1>3, <1>10, <2>1 DEF PollServers, Send
<1> QED
  BY <1>1, <1>2, <1>6, <1>7, <1>8, <1>9, <1>10 DEF AuthNext

-----------------------------------------------------------------------------
(* The users and the invites.                                               *)

UserRows == [id : Users, account : Accounts]

UserPages == [rows : SUBSET UserRows, loading : BOOLEAN, dialog : {"none", "create", "edit", "invite"},
              ready : BOOLEAN, editing : Users \cup {NoUser}, edit : Accounts,
              invites : SUBSET Nat, inviting : BOOLEAN]

\* An edit is of an account, and an invite that is being made is one.
UserCallOK(c) ==
  /\ c.op = "update" => c.id \in Users /\ c.form \in Accounts
  /\ c.op = "invite" => c = UserCallOf("invite", NoUser, NoUser) /\ userPage.inviting
                        /\ codes.made < MaxInvites

UserInv ==
  /\ accounts \in [Users -> Accounts \cup {NoUser}]
  /\ codes \in [made : 0 .. MaxInvites, left : SUBSET Nat] /\ codes.left \subseteq 1 .. codes.made
  /\ userPage \in UserPages
  /\ \A c \in userCalls : UserCallOK(c)

USE InvitesAssumption

LEMMA UserTypesImply == UserInv => UserTypeOK
  BY DEF UserInv, UserPages, UserRows, UserTypeOK

LEMMA UserInitInv == UserAdminInit => UserInv
<1> SUFFICES ASSUME UserAdminInit PROVE UserInv
  OBVIOUS
<1>1. accounts \in [Users -> Accounts \cup {NoUser}]
  BY UsersAssumption DEF UserAdminInit, Accounts
<1>2. userPage \in UserPages
  BY DEF UserAdminInit, UserPageOpened, UserPages, Accounts
<1>3. \A c \in userCalls : UserCallOK(c)
  BY DEF UserAdminInit, LoadUsers, UserCallOf, UserCallOK
<1>4. codes \in [made : 0 .. MaxInvites, left : SUBSET Nat] /\ codes.left \subseteq 1 .. codes.made
  BY DEF UserAdminInit
<1> QED
  BY <1>1, <1>2, <1>3, <1>4 DEF UserInv

\* A step that changes no invites and adds calls that are in order.
LEMMA UserPageStep ==
  ASSUME UserInv, UNCHANGED <<accounts, codes>>, userPage' \in UserPages,
         userPage.inviting = userPage'.inviting,
         \A c \in userCalls' : c \in userCalls \/ UserCallOK(c)
  PROVE  UserInv'
<1>1. \A c \in userCalls' : UserCallOK(c)
  BY DEF UserInv
<1>2. \A c \in userCalls' : UserCallOK(c)'
  BY <1>1 DEF UserCallOK
<1> QED
  BY <1>2 DEF UserInv

\* A call that changed the users ends, and the list is loaded again.
LEMMA UserReloadStep ==
  ASSUME UserInv, NEW c \in userCalls, NEW p \in UserPages, Reloads(c, p), p.inviting = userPage.inviting,
         accounts' \in [Users -> Accounts \cup {NoUser}], UNCHANGED codes
  PROVE  UserInv'
<1>1. userPage' \in UserPages /\ userPage'.inviting = userPage.inviting
  BY DEF Reloads, UserPages
<1>2. ASSUME NEW d \in userCalls' PROVE UserCallOK(d)'
  <2>1. d \in userCalls \/ d = LoadUsers
    BY DEF Reloads
  <2>2. UserCallOK(d)
    BY <2>1 DEF UserInv, UserCallOK, LoadUsers, UserCallOf
  <2> QED
    BY <1>1, <2>2 DEF UserCallOK
<1> QED
  BY <1>1, <1>2 DEF UserInv

LEMMA UserCallsStep ==
  ASSUME UserInv, NEW c \in userCalls,
         \/ UsersLoaded(c) \/ InvitesLoaded(c) \/ UserCreated(c) \/ UserUpdated(c)
         \/ UserDeleted(c) \/ InviteMade(c) \/ InviteDeleted(c)
  PROVE  UserInv'
<1>1. userPage \in UserPages /\ UserCallOK(c)
  BY DEF UserInv
<1>2. ASSUME Fails(c) PROVE UserInv'
  BY <1>1, <1>2, UserPageStep DEF Fails
<1>3. CASE UsersLoaded(c)
  <2>1. RowsNow \subseteq UserRows
    BY DEF RowsNow, UserRows, UserInv
  <2>2. PICK rows \in SUBSET UserRows : userPage' = [userPage EXCEPT !.rows = rows, !.loading = FALSE]
    BY <1>1, <1>3, <2>1 DEF UsersLoaded, UserPages
  <2>3. userPage' \in UserPages /\ userPage'.inviting = userPage.inviting
    BY <1>1, <2>2 DEF UserPages
  <2> QED
    BY <1>3, <2>3, UserPageStep DEF UsersLoaded
<1>4. CASE InvitesLoaded(c)
  <2>1. codes.left \in SUBSET Nat
    BY DEF UserInv
  <2>2. userPage' \in UserPages /\ userPage'.inviting = userPage.inviting
    BY <1>1, <1>4, <2>1 DEF InvitesLoaded, UserPages
  <2> QED
    BY <1>4, <2>2, UserPageStep DEF InvitesLoaded
<1>5. CASE UserCreated(c)
  <2> DEFINE p == [userPage EXCEPT !.dialog = IF @ = "create" THEN "none" ELSE @, !.ready = FALSE]
  <2>1. ASSUME NEW u \in Users, accounts' = [accounts EXCEPT ![u] = "full"], Reloads(c, p), UNCHANGED codes
        PROVE  UserInv'
    <3>1. p \in UserPages /\ p.inviting = userPage.inviting
      BY <1>1 DEF UserPages
    <3>2. accounts' \in [Users -> Accounts \cup {NoUser}]
      BY <2>1, UsersAssumption DEF UserInv, Accounts
    <3> HIDE DEF p
    <3> QED
      BY <2>1, <3>1, <3>2, UserReloadStep
  <2> QED
    BY <1>2, <1>5, <2>1 DEF UserCreated
<1>6. CASE UserUpdated(c)
  <2> DEFINE p == [userPage EXCEPT !.dialog = IF @ = "edit" THEN "none" ELSE @, !.editing = NoUser]
  <2>1. ASSUME accounts[c.id] # NoUser, accounts' = [accounts EXCEPT ![c.id] = Updated(@, c.form)],
               Reloads(c, p), UNCHANGED codes
        PROVE  UserInv'
    <3>1. p \in UserPages /\ p.inviting = userPage.inviting
      BY <1>1 DEF UserPages
    <3>2. c.id \in Users /\ c.form \in Accounts
      BY <1>1, <1>6 DEF UserCallOK, UserUpdated
    <3>3. Updated(accounts[c.id], c.form) \in Accounts
      BY <2>1, <3>2 DEF Updated, UserInv
    <3>4. accounts' \in [Users -> Accounts \cup {NoUser}]
      BY <2>1, <3>2, <3>3, UsersAssumption DEF UserInv, Accounts
    <3> HIDE DEF p
    <3> QED
      BY <2>1, <3>1, <3>4, UserReloadStep
  <2> QED
    BY <1>2, <1>6, <2>1 DEF UserUpdated
<1>7. CASE UserDeleted(c)
  <2>1. ASSUME accounts' = [accounts EXCEPT ![c.id] = NoUser], Reloads(c, userPage), UNCHANGED codes
        PROVE  UserInv'
    <3>1. accounts' \in [Users -> Accounts \cup {NoUser}]
      BY <2>1 DEF UserInv
    <3> QED
      BY <1>1, <2>1, <3>1, UserReloadStep
  <2> QED
    BY <1>2, <1>7, <2>1 DEF UserDeleted
<1>8. CASE InviteMade(c)
  <2>1. c = UserCallOf("invite", NoUser, NoUser) /\ codes.made < MaxInvites
    BY <1>1, <1>8 DEF UserCallOK, InviteMade
  <2>2. userCalls' = userCalls \ {c} /\ accounts' = accounts
    BY <1>8 DEF InviteMade
  <2>3. \A d \in userCalls' : UserCallOK(d)'
    <3>1. \A d \in userCalls' : d.op # "invite" /\ UserCallOK(d)
      BY <2>1, <2>2 DEF UserInv, UserCallOK
    <3> QED
      BY <3>1 DEF UserCallOK
  <2>4. codes.made \in Nat /\ codes.made + 1 \in 0 .. MaxInvites /\ codes.left \subseteq 1 .. codes.made
    BY <2>1 DEF UserInv
  <2>5. userPage' \in UserPages
    <3>1. userPage.invites \cup {codes.made + 1} \in SUBSET Nat
      BY <1>1, <2>4 DEF UserPages
    <3> QED
      BY <1>1, <1>8, <3>1 DEF InviteMade, UserPages
  <2>6. codes' \in [made : 0 .. MaxInvites, left : SUBSET Nat] /\ codes'.left \subseteq 1 .. codes'.made
    <3>1. CASE UNCHANGED codes
      BY <3>1 DEF UserInv
    <3>2. CASE codes' = [made |-> codes.made + 1, left |-> codes.left \cup {codes.made + 1}]
      BY <2>4, <3>2
    <3> QED
      BY <1>8, <3>1, <3>2 DEF InviteMade
  <2> QED
    BY <2>2, <2>3, <2>5, <2>6 DEF UserInv
<1>9. CASE InviteDeleted(c)
  <2>1. userCalls' = userCalls \ {c} /\ accounts' = accounts
    BY <1>9 DEF InviteDeleted
  <2>2. /\ codes' \in [made : 0 .. MaxInvites, left : SUBSET Nat] /\ codes'.left \subseteq 1 .. codes'.made
        /\ codes'.made = codes.made
    BY <1>9 DEF InviteDeleted, UserInv
  <2>3. userPage' \in UserPages /\ userPage'.inviting = userPage.inviting
    BY <1>1, <1>9 DEF InviteDeleted, UserPages
  <2>4. \A d \in userCalls' : UserCallOK(d)'
    BY <2>1, <2>2, <2>3 DEF UserInv, UserCallOK
  <2> QED
    BY <2>1, <2>2, <2>3, <2>4 DEF UserInv
<1> QED
  BY <1>3, <1>4, <1>5, <1>6, <1>7, <1>8, <1>9

LEMMA UserStep == UserInv /\ [UserAdminNext]_userVars => UserInv'
<1> SUFFICES ASSUME UserInv, [UserAdminNext]_userVars PROVE UserInv'
  OBVIOUS
<1>1. userPage \in UserPages
  BY DEF UserInv
<1>2. ASSUME NEW c \in userCalls,
             \/ UsersLoaded(c) \/ InvitesLoaded(c) \/ UserCreated(c) \/ UserUpdated(c)
             \/ UserDeleted(c) \/ InviteMade(c) \/ InviteDeleted(c)
      PROVE  UserInv'
  BY <1>2, UserCallsStep
<1>3. ASSUME NEW d \in {"create", "invite"}, OpenDialog(d) PROVE UserInv'
  <2>1. userPage' \in UserPages /\ userPage'.inviting = userPage.inviting
    BY <1>1, <1>3 DEF OpenDialog, UserPages
  <2> QED
    BY <1>3, <2>1, UserPageStep DEF OpenDialog
<1>4. ASSUME NEW row \in userPage.rows, OpenUser(row) PROVE UserInv'
  <2>1. row.id \in Users /\ row.account \in Accounts
    BY <1>1 DEF UserPages, UserRows
  <2>2. userPage' \in UserPages /\ userPage'.inviting = userPage.inviting
    BY <1>1, <1>4, <2>1 DEF OpenUser, UserPages
  <2> QED
    BY <1>4, <2>2, UserPageStep DEF OpenUser
<1>5. ASSUME NEW u \in Users, DeleteUser(u) PROVE UserInv'
  <2>1. UserCallOK(UserCallOf("delete", u, NoUser))
    BY <1>5 DEF DeleteUser, Deletable, UserCallOK, UserCallOf
  <2> QED
    BY <1>1, <1>5, <2>1, UserPageStep DEF DeleteUser
<1>6. ASSUME NEW i \in userPage.invites, DeleteInvite(i) PROVE UserInv'
  <2>1. UserCallOK(UserCallOf("revoke", i, NoUser))
    BY DEF UserCallOK, UserCallOf
  <2> QED
    BY <1>1, <1>6, <2>1, UserPageStep DEF DeleteInvite
<1>7. CASE CloseDialog \/ CreateForm \/ UserForm
  <2>1. userPage' \in UserPages /\ userPage'.inviting = userPage.inviting
    BY <1>1, <1>7 DEF CloseDialog, CreateForm, UserForm, UserPages
  <2> QED
    BY <1>7, <2>1, UserPageStep DEF CloseDialog, CreateForm, UserForm
<1>8. CASE CreateUser
  <2>1. UserCallOK(UserCallOf("create", NoUser, NoUser))
    BY DEF UserCallOK, UserCallOf
  <2> QED
    BY <1>1, <1>8, <2>1, UserPageStep DEF CreateUser
<1>9. CASE UpdateUser
  <2>1. userPage.editing \in Users /\ userPage.edit \in Accounts
    BY <1>1, <1>9 DEF UpdateUser, UserPages
  <2>2. UserCallOK(UserCallOf("update", userPage.editing, userPage.edit))
    BY <2>1 DEF UserCallOK, UserCallOf
  <2> QED
    BY <1>1, <1>9, <2>2, UserPageStep DEF UpdateUser
<1>10. CASE CreateInvite
  <2>1. /\ userPage'.inviting /\ userPage' \in UserPages /\ codes.made < MaxInvites
        /\ userCalls' = userCalls \cup {UserCallOf("invite", NoUser, NoUser)}
        /\ UNCHANGED <<accounts, codes>>
    BY <1>1, <1>10 DEF CreateInvite, UserPages
  <2>2. UserCallOK(UserCallOf("invite", NoUser, NoUser))'
    BY <2>1 DEF UserCallOK, UserCallOf
  <2>3. \A d \in userCalls : UserCallOK(d)'
    BY <2>1 DEF UserInv, UserCallOK
  <2> QED
    BY <2>1, <2>2, <2>3 DEF UserInv
<1>11. CASE UNCHANGED userVars
  BY <1>1, <1>11, UserPageStep DEF userVars
<1> QED
  BY <1>2, <1>3, <1>4, <1>5, <1>6, <1>7, <1>8, <1>9, <1>10, <1>11 DEF UserAdminNext

-----------------------------------------------------------------------------
(* The roles.                                                               *)

MaybeGrants == (SUBSET Permissions) \cup {NoRole}

RolePages == [matrix : [Roles -> MaybeGrants], objects : SUBSET Objects, loading : BOOLEAN,
              dialog : {"none", "create", "permissions"}, section : {"global", "scoped"},
              editing : Roles \cup {NoRole}, opened : SUBSET Permissions, touched : BOOLEAN,
              toggled : BOOLEAN, global : SUBSET Actions, scoped : SUBSET Permissions, saving : BOOLEAN]

\* What a save sends: the two parts of the dialog together.
Sent(p) == p.scoped \cup [act : p.global, on : {AnyObject}]

\* What a save carries is what the dialog was opened with, unless it was touched.
RoleCallOK(c) ==
  c.op = "save" => c.perms \in SUBSET Permissions /\ (~c.touched => c.perms = c.opened)

RoleInv ==
  /\ grants \in [Roles -> MaybeGrants] /\ existing \subseteq Objects
  /\ rolePage \in RolePages /\ (~rolePage.touched => Sent(rolePage) = rolePage.opened)
  /\ \A c \in roleCalls : RoleCallOK(c)

LEMMA RoleTypesImply == RoleInv => RoleTypeOK /\ SaveKeepsUntouched
  BY DEF RoleInv, RolePages, RoleCallOK, RoleTypeOK, SaveKeepsUntouched, MaybeGrants

\* The two parts of a set of permissions make it up again.
LEMMA PartsMakeWhole ==
  ASSUME NEW perms \in SUBSET Permissions
  PROVE  /\ GlobalOf(perms) \subseteq Actions /\ ScopedOf(perms) \subseteq Permissions
         /\ ScopedOf(perms) \cup [act : GlobalOf(perms), on : {AnyObject}] = perms
<1>1. GlobalOf(perms) \subseteq Actions /\ ScopedOf(perms) \subseteq Permissions
  BY DEF GlobalOf, ScopedOf
<1>2. ASSUME NEW p \in perms PROVE p \in ScopedOf(perms) \cup [act : GlobalOf(perms), on : {AnyObject}]
  <2>1. CASE p.on # AnyObject
    BY <2>1 DEF ScopedOf
  <2>2. CASE p.on = AnyObject
    <3>1. p \in [act : Actions, on : {AnyObject}] /\ p = [act |-> p.act, on |-> AnyObject]
      BY <2>2 DEF Permissions
    <3>2. p.act \in GlobalOf(perms)
      BY <3>1 DEF GlobalOf
    <3> QED
      BY <3>1, <3>2
  <2> QED
    BY <2>1, <2>2
<1>3. ASSUME NEW p \in [act : GlobalOf(perms), on : {AnyObject}] PROVE p \in perms
  <2>1. p = [act |-> p.act, on |-> AnyObject] /\ p.act \in GlobalOf(perms)
    BY <1>3
  <2> QED
    BY <2>1 DEF GlobalOf
<1>4. ScopedOf(perms) \subseteq perms
  BY DEF ScopedOf
<1> QED
  BY <1>1, <1>2, <1>3, <1>4

LEMMA RoleInitInv == RoleAdminInit => RoleInv
<1> SUFFICES ASSUME RoleAdminInit PROVE RoleInv
  OBVIOUS
<1>1. (CHOOSE a \in Actions : TRUE) \in Actions
  BY ActionsAssumption
<1>2. Everything \in SUBSET Permissions
  BY DEF Everything, Permissions
<1>3. {[act |-> CHOOSE a \in Actions : TRUE, on |-> o] : o \in Objects \cup {AnyObject}} \in SUBSET Permissions
  BY <1>1 DEF Permissions
<1>4. grants \in [Roles -> MaybeGrants]
  BY <1>2, <1>3 DEF RoleAdminInit, MaybeGrants
<1>5. rolePage \in RolePages
  <2>1. [r \in Roles |-> NoRole] \in [Roles -> MaybeGrants]
    BY DEF MaybeGrants
  <2> QED
    BY <2>1 DEF RoleAdminInit, RolePageOpened, RolePages
<1>6. Sent(rolePage) = rolePage.opened
  BY DEF RoleAdminInit, RolePageOpened, Sent
<1>7. \A c \in roleCalls : RoleCallOK(c)
  BY DEF RoleAdminInit, LoadRoles, RoleCallOf, RoleCallOK
<1> QED
  BY <1>4, <1>5, <1>6, <1>7 DEF RoleInv, RoleAdminInit

\* A step that leaves what the dialog would send, and adds calls that are in order.
LEMMA RolePageStep ==
  ASSUME RoleInv, grants' \in [Roles -> MaybeGrants], existing' \subseteq existing, rolePage' \in RolePages,
         \/ rolePage'.touched
         \/ /\ rolePage'.global = rolePage.global /\ rolePage'.scoped = rolePage.scoped
            /\ rolePage'.opened = rolePage.opened /\ rolePage'.touched = rolePage.touched,
         \A c \in roleCalls' : c \in roleCalls \/ RoleCallOK(c)
  PROVE  RoleInv'
<1>1. ~rolePage'.touched => Sent(rolePage') = rolePage'.opened
  BY DEF RoleInv, Sent
<1>2. (~rolePage.touched => Sent(rolePage) = rolePage.opened)'
  BY <1>1 DEF Sent
<1> QED
  BY <1>2 DEF RoleInv, RoleCallOK

\* The table is loaded again after a change, with what the dialog holds left alone.
LEMMA RoleReloadStep ==
  ASSUME RoleInv, NEW c \in roleCalls, NEW p \in RolePages,
         NEW load \in {LoadRoles, ReloadRoles}, RoleReloads(c, p, load),
         p.global = rolePage.global, p.scoped = rolePage.scoped, p.opened = rolePage.opened,
         p.touched = rolePage.touched, grants' \in [Roles -> MaybeGrants], UNCHANGED existing
  PROVE  RoleInv'
<1>1. /\ rolePage' \in RolePages /\ rolePage'.global = rolePage.global
      /\ rolePage'.scoped = rolePage.scoped /\ rolePage'.opened = rolePage.opened
      /\ rolePage'.touched = rolePage.touched
  BY DEF RoleReloads, RolePages
<1>2. \A d \in roleCalls' : d \in roleCalls \/ RoleCallOK(d)
  BY DEF RoleReloads, LoadRoles, ReloadRoles, RoleCallOf, RoleCallOK
<1> QED
  BY <1>1, <1>2, RolePageStep

LEMMA RoleCallsStep ==
  ASSUME RoleInv, NEW c \in roleCalls,
         RolesLoaded(c) \/ RoleCreated(c) \/ RoleDeleted(c) \/ PermissionsSaved(c)
  PROVE  RoleInv'
<1>1. rolePage \in RolePages /\ grants \in [Roles -> MaybeGrants] /\ existing \subseteq Objects
      /\ RoleCallOK(c)
  BY DEF RoleInv
<1>2. CASE RolesLoaded(c)
  <2>1. /\ rolePage' \in RolePages /\ rolePage'.global = rolePage.global
        /\ rolePage'.scoped = rolePage.scoped /\ rolePage'.opened = rolePage.opened
        /\ rolePage'.touched = rolePage.touched
    <3>1. PICK saving \in BOOLEAN :
            LET over == [rolePage EXCEPT !.loading = FALSE, !.saving = saving]
            IN  rolePage' \in {[over EXCEPT !.matrix = grants, !.objects = existing], over}
      <4>1. (rolePage.saving /\ c.op # "reload") \in BOOLEAN
        OBVIOUS
      <4> QED
        BY <1>2, <4>1 DEF RolesLoaded
    <3>2. \/ rolePage' = [rolePage EXCEPT !.loading = FALSE, !.saving = saving,
                                          !.matrix = grants, !.objects = existing]
          \/ rolePage' = [rolePage EXCEPT !.loading = FALSE, !.saving = saving]
      BY <3>1
    <3> QED
      BY <1>1, <3>2 DEF RolePages
  <2> QED
    BY <1>1, <1>2, <2>1, RolePageStep DEF RolesLoaded
<1>3. CASE RoleCreated(c)
  <2> DEFINE p == [rolePage EXCEPT !.dialog = IF @ = "create" THEN "none" ELSE @]
  <2>1. ASSUME NEW r \in Roles, grants' = [grants EXCEPT ![r] = {}], RoleReloads(c, p, LoadRoles),
               existing' = existing
        PROVE  RoleInv'
    <3>1. /\ p \in RolePages /\ p.global = rolePage.global /\ p.scoped = rolePage.scoped
          /\ p.opened = rolePage.opened /\ p.touched = rolePage.touched
      BY <1>1 DEF RolePages
    <3>2. grants' \in [Roles -> MaybeGrants]
      BY <1>1, <2>1 DEF MaybeGrants
    <3> HIDE DEF p
    <3> QED
      BY <2>1, <3>1, <3>2, RoleReloadStep
  <2>2. CASE roleCalls' = roleCalls \ {c} /\ UNCHANGED <<grants, rolePage, existing>>
    BY <1>1, <2>2, RolePageStep
  <2> QED
    BY <1>3, <2>1, <2>2 DEF RoleCreated
<1>4. CASE RoleDeleted(c)
  <2>1. CASE grants' = [grants EXCEPT ![c.role] = NoRole] /\ RoleReloads(c, rolePage, LoadRoles)
             /\ existing' = existing
    <3>1. grants' \in [Roles -> MaybeGrants]
      BY <1>1, <2>1 DEF MaybeGrants
    <3> QED
      BY <1>1, <2>1, <3>1, RoleReloadStep
  <2>2. CASE roleCalls' = roleCalls \ {c} /\ UNCHANGED <<grants, rolePage, existing>>
    BY <1>1, <2>2, RolePageStep
  <2> QED
    BY <1>4, <2>1, <2>2 DEF RoleDeleted
<1>5. CASE PermissionsSaved(c)
  <2> DEFINE p == [rolePage EXCEPT !.editing = NoRole,
                                   !.dialog = IF @ = "permissions" THEN "none" ELSE @]
  <2>1. CASE /\ grants' = [grants EXCEPT ![c.role] = IF @ = NoRole THEN NoRole ELSE c.perms]
             /\ RoleReloads(c, p, ReloadRoles) /\ existing' = existing
    <3>1. /\ p \in RolePages /\ p.global = rolePage.global /\ p.scoped = rolePage.scoped
          /\ p.opened = rolePage.opened /\ p.touched = rolePage.touched
      BY <1>1 DEF RolePages
    <3>2. c.perms \in MaybeGrants /\ NoRole \in MaybeGrants
      BY <1>1, <1>5 DEF PermissionsSaved, RoleCallOK, MaybeGrants
    <3>3. grants' \in [Roles -> MaybeGrants]
      BY <1>1, <2>1, <3>2
    <3> HIDE DEF p
    <3> QED
      BY <2>1, <3>1, <3>3, RoleReloadStep
  <2>2. CASE /\ rolePage' = [rolePage EXCEPT !.saving = FALSE]
             /\ roleCalls' = roleCalls \ {c} /\ UNCHANGED <<grants, existing>>
    <3>1. /\ rolePage' \in RolePages /\ rolePage'.global = rolePage.global
          /\ rolePage'.scoped = rolePage.scoped /\ rolePage'.opened = rolePage.opened
          /\ rolePage'.touched = rolePage.touched
      BY <1>1, <2>2 DEF RolePages
    <3> QED
      BY <1>1, <2>2, <3>1, RolePageStep
  <2> QED
    BY <1>5, <2>1, <2>2 DEF PermissionsSaved
<1> QED
  BY <1>2, <1>3, <1>4, <1>5

LEMMA RoleStep == RoleInv /\ [RoleAdminNext]_roleVars => RoleInv'
<1> SUFFICES ASSUME RoleInv, [RoleAdminNext]_roleVars PROVE RoleInv'
  OBVIOUS
<1>1. rolePage \in RolePages /\ grants \in [Roles -> MaybeGrants] /\ existing \subseteq Objects
  BY DEF RoleInv
<1>2. ASSUME NEW c \in roleCalls,
             RolesLoaded(c) \/ RoleCreated(c) \/ RoleDeleted(c) \/ PermissionsSaved(c)
      PROVE  RoleInv'
  BY <1>2, RoleCallsStep
<1>3. ASSUME NEW o \in Objects, ObjectGoes(o) PROVE RoleInv'
  BY <1>1, <1>3, RolePageStep DEF ObjectGoes
<1>4. ASSUME NEW op, NEW r, RoleCallOf(op, r).op # "save",
             roleCalls' = roleCalls \cup {RoleCallOf(op, r)}, UNCHANGED <<grants, existing, rolePage>>
      PROVE  RoleInv'
  BY <1>1, <1>4, RolePageStep DEF RoleCallOK
<1>5. ASSUME NEW r \in Roles, DeleteRole(r) PROVE RoleInv'
  BY <1>4, <1>5 DEF DeleteRole, RoleCallOf
<1>6. CASE CreateRole
  BY <1>4, <1>6 DEF CreateRole, RoleCallOf
<1>7. ASSUME NEW r \in Roles, OpenPermissionsDialog(r) PROVE RoleInv'
  <2> DEFINE perms == rolePage.matrix[r]
  <2>1. perms \in SUBSET Permissions
    BY <1>1, <1>7 DEF OpenPermissionsDialog, RolePages, MaybeGrants
  <2>2. /\ rolePage' = [rolePage EXCEPT !.dialog = "permissions", !.editing = r, !.section = "global",
                                        !.opened = perms, !.touched = FALSE,
                                        !.global = GlobalOf(perms), !.scoped = ScopedOf(perms)]
        /\ UNCHANGED <<grants, existing, roleCalls>>
    BY <1>7 DEF OpenPermissionsDialog
  <2> HIDE DEF perms
  <2>3. /\ rolePage' \in RolePages /\ rolePage'.global = GlobalOf(perms)
        /\ rolePage'.scoped = ScopedOf(perms) /\ rolePage'.opened = perms
    BY <1>1, <2>1, <2>2, PartsMakeWhole DEF RolePages
  <2>4. (Sent(rolePage) = rolePage.opened)'
    BY <2>1, <2>3, PartsMakeWhole DEF Sent
  <2> QED
    BY <1>1, <2>2, <2>3, <2>4 DEF RoleInv, RoleCallOK
<1>8. CASE OpenCreateRole \/ CloseRoleDialog \/ ChooseSection
  <2>1. PICK d \in {"none", "create", "permissions"}, s \in {"global", "scoped"} :
          rolePage' = [rolePage EXCEPT !.dialog = d, !.section = s]
    <3>1. CASE OpenCreateRole
      <4>1. rolePage' = [rolePage EXCEPT !.dialog = "create", !.section = rolePage.section]
        BY <1>1, <3>1 DEF OpenCreateRole, RolePages
      <4> QED
        BY <1>1, <4>1 DEF RolePages
    <3>2. CASE CloseRoleDialog
      <4>1. rolePage' = [rolePage EXCEPT !.dialog = "none", !.section = rolePage.section]
        BY <1>1, <3>2 DEF CloseRoleDialog, RolePages
      <4> QED
        BY <1>1, <4>1 DEF RolePages
    <3>3. CASE ChooseSection
      <4>1. PICK s \in {"global", "scoped"} : rolePage' = [rolePage EXCEPT !.section = s]
        BY <3>3 DEF ChooseSection
      <4>2. rolePage' = [rolePage EXCEPT !.dialog = rolePage.dialog, !.section = s]
        BY <1>1, <4>1 DEF RolePages
      <4> QED
        BY <1>1, <4>2 DEF RolePages
    <3> QED
      BY <1>8, <3>1, <3>2, <3>3
  <2>2. /\ rolePage' \in RolePages /\ rolePage'.global = rolePage.global
        /\ rolePage'.scoped = rolePage.scoped /\ rolePage'.opened = rolePage.opened
        /\ rolePage'.touched = rolePage.touched
    BY <1>1, <2>1 DEF RolePages
  <2> QED
    BY <1>1, <1>8, <2>2, RolePageStep DEF OpenCreateRole, CloseRoleDialog, ChooseSection
<1>9. ASSUME NEW g \in SUBSET Actions, NEW s \in SUBSET Permissions,
             rolePage' = [Touched EXCEPT !.global = g, !.scoped = s],
             UNCHANGED <<grants, existing, roleCalls>>
      PROVE  RoleInv'
  <2>1. rolePage' \in RolePages /\ rolePage'.touched
    BY <1>1, <1>9 DEF Touched, RolePages
  <2> QED
    BY <1>1, <1>9, <2>1, RolePageStep
<1>10. Touched \in RolePages /\ Touched.global = rolePage.global /\ Touched.scoped = rolePage.scoped
  BY <1>1 DEF Touched, RolePages
<1>11. ASSUME NEW a \in Actions, TogglePermission(a) PROVE RoleInv'
  <2>1. Flip(rolePage.global, a) \in SUBSET Actions
    BY <1>1 DEF Flip, RolePages
  <2>2. rolePage' = [Touched EXCEPT !.global = Flip(rolePage.global, a), !.scoped = rolePage.scoped]
    BY <1>10, <1>11 DEF TogglePermission, RolePages
  <2> QED
    BY <1>1, <1>9, <1>11, <2>1, <2>2 DEF TogglePermission, RolePages
<1>12. CASE ToggleResourceAll
  <2>1. PICK g \in SUBSET Actions : rolePage' = [Touched EXCEPT !.global = g]
    BY <1>12 DEF ToggleResourceAll
  <2>2. rolePage' = [Touched EXCEPT !.global = g, !.scoped = rolePage.scoped]
    BY <1>10, <2>1 DEF RolePages
  <2> QED
    BY <1>1, <1>9, <1>12, <2>2 DEF ToggleResourceAll, RolePages
<1>13. ASSUME NEW p \in Permissions, ToggleScopedPermission(p) PROVE RoleInv'
  <2>1. Flip(rolePage.scoped, p) \in SUBSET Permissions
    BY <1>1 DEF Flip, RolePages
  <2>2. rolePage' = [Touched EXCEPT !.global = rolePage.global, !.scoped = Flip(rolePage.scoped, p)]
    BY <1>10, <1>13 DEF ToggleScopedPermission, RolePages
  <2> QED
    BY <1>1, <1>9, <1>13, <2>1, <2>2 DEF ToggleScopedPermission, RolePages
<1>14. CASE SavePermissions
  <2> DEFINE c == [RoleCallOf("save", rolePage.editing) EXCEPT
                     !.perms = Sent(rolePage), !.opened = rolePage.opened, !.touched = rolePage.touched]
  <2>1. /\ rolePage' = [rolePage EXCEPT !.saving = TRUE] /\ roleCalls' = roleCalls \cup {c}
        /\ UNCHANGED <<grants, existing>>
    BY <1>14 DEF SavePermissions, Sent
  <2>2. c.perms = Sent(rolePage) /\ c.opened = rolePage.opened /\ c.touched = rolePage.touched
    BY DEF RoleCallOf
  <2>3. Sent(rolePage) \in SUBSET Permissions
    BY <1>1 DEF Sent, RolePages, Permissions
  <2>4. RoleCallOK(c)
    BY <2>2, <2>3 DEF RoleCallOK, RoleInv
  <2>5. /\ rolePage' \in RolePages /\ rolePage'.global = rolePage.global
        /\ rolePage'.scoped = rolePage.scoped /\ rolePage'.opened = rolePage.opened
        /\ rolePage'.touched = rolePage.touched
    BY <1>1, <2>1 DEF RolePages
  <2> HIDE DEF c
  <2> QED
    BY <1>1, <2>1, <2>4, <2>5, RolePageStep
<1>15. CASE UNCHANGED roleVars
  BY <1>1, <1>15, RolePageStep DEF roleVars
<1> QED
  BY <1>2, <1>3, <1>5, <1>6, <1>7, <1>8, <1>11, <1>12, <1>13, <1>14, <1>15 DEF RoleAdminNext

-----------------------------------------------------------------------------
(* The profile.                                                             *)

Profiles == [isLocal : BOOLEAN, rows : SUBSET ApiTokens, loading : BOOLEAN, dialog : BOOLEAN,
             named : BOOLEAN, creating : BOOLEAN, shown : MaybeApiToken, deleting : MaybeApiToken,
             saving : BOOLEAN, typed : Typings]

ListCalls == [op : {"list"}, for : {"mount", "create", "delete"}, served : BOOLEAN, seen : SUBSET ApiTokens]
TokenCalls == [op : {"create", "delete", "password"}, of : MaybeApiToken, nr : 1 .. 2]

\* A call that one who makes a token waits for, the list that follows included.
CreateWaits(c) == c.op = "create" \/ (c.op = "list" /\ c.for = "create")

\* While it is waited for, no second one is made: there is one such call, and the flag is set.
ProfileInv ==
  /\ tokenTable \in [now : SUBSET ApiTokens, made : SUBSET ApiTokens] /\ tokenTable.now \subseteq tokenTable.made
  /\ profile \in Profiles /\ profile.rows \subseteq tokenTable.made /\ (profile.saving => profile.isLocal)
  /\ profileCalls \subseteq ListCalls \cup TokenCalls
  /\ \A c \in profileCalls : c.op = "list" => c.seen \subseteq tokenTable.made
  /\ \A c \in profileCalls : CreateWaits(c) => profile.creating
  /\ \A c, d \in profileCalls : CreateWaits(c) /\ CreateWaits(d) => c = d

LEMMA ProfileTypesImply == ProfileInv => ProfileTypeOK
  BY DEF ProfileInv, Profiles, ProfileTypeOK

LEMMA OneOrNone ==
  ASSUME NEW S, \A c, d \in S : c = d
  PROVE  Cardinality(S) <= 1
<1>1. CASE S = {}
  BY <1>1, FS_EmptySet
<1>2. ASSUME NEW c \in S PROVE Cardinality(S) <= 1
  <2>1. S = {c}
    OBVIOUS
  <2> QED
    BY <2>1, FS_Singleton
<1> QED
  BY <1>1, <1>2

LEMMA ProfileWaits == ProfileInv => OneTokenAtATime
<1> SUFFICES ASSUME ProfileInv PROVE OneTokenAtATime
  OBVIOUS
<1> DEFINE S == {c \in profileCalls : c.op = "create"} \cup
                {c \in profileCalls : c.op = "list" /\ c.for = "create"}
<1>1. \A c, d \in S : c = d
  BY DEF ProfileInv, CreateWaits
<1>2. Cardinality(S) <= 1
  <2> HIDE DEF S
  <2> QED
    BY <1>1, OneOrNone
<1> QED
  BY <1>2 DEF OneTokenAtATime

LEMMA ListTokensIs ==
  ASSUME NEW for \in {"mount", "create", "delete"}
  PROVE  /\ ListTokens(for) \in ListCalls /\ ListTokens(for).op = "list" /\ ListTokens(for).for = for
         /\ ListTokens(for).seen = {}
  BY DEF ListTokens, ListCalls

LEMMA TokenCallIs ==
  ASSUME NEW op \in {"create", "delete", "password"}, NEW t \in MaybeApiToken, NEW nr \in 1 .. 2
  PROVE  TokenCall(op, t, nr) \in TokenCalls /\ TokenCall(op, t, nr).op = op
  BY DEF TokenCall, TokenCalls

LEMMA ProfileInitInv == ProfileInit => ProfileInv
<1> SUFFICES ASSUME ProfileInit PROVE ProfileInv
  OBVIOUS
<1>1. /\ tokenTable \in [now : SUBSET ApiTokens, made : SUBSET ApiTokens]
      /\ tokenTable.now \subseteq tokenTable.made
  BY ApiTokensAssumption DEF ProfileInit
<1>2. profile \in Profiles /\ profile.rows = {} /\ ~profile.saving
  BY DEF ProfileInit, BlankProfile, Profiles, MaybeApiToken, Typings
<1>3. profileCalls = {ListTokens("mount")}
  BY DEF ProfileInit
<1> QED
  BY <1>1, <1>2, <1>3, ListTokensIs DEF ProfileInv, CreateWaits

\* A step that adds no call, and ends none before its flag.
LEMMA ProfileKeeps ==
  ASSUME ProfileInv, UNCHANGED tokenTable, profile' \in Profiles, profile'.rows \subseteq tokenTable.made,
         profile'.saving => profile'.isLocal, profileCalls' \subseteq profileCalls,
         profile'.creating = profile.creating \/ \A c \in profileCalls' : ~CreateWaits(c)
  PROVE  ProfileInv'
  BY DEF ProfileInv, CreateWaits

\* What is left once the call waited for has ended.
LEMMA WaitOver ==
  ASSUME ProfileInv, NEW c \in profileCalls, CreateWaits(c)
  PROVE  \A d \in profileCalls \ {c} : ~CreateWaits(d)
  BY DEF ProfileInv

\* A step that replaces a call by one that is waited for only if the other was.
LEMMA CallReplaced ==
  ASSUME ProfileInv, tokenTable' \in [now : SUBSET ApiTokens, made : SUBSET ApiTokens],
         tokenTable'.now \subseteq tokenTable'.made, tokenTable.made \subseteq tokenTable'.made,
         profile' \in Profiles, profile'.rows = profile.rows, profile'.creating = profile.creating,
         profile'.saving => profile'.isLocal,
         NEW c \in profileCalls, NEW d \in ListCalls, d.seen \subseteq tokenTable'.made,
         profileCalls' = (profileCalls \ {c}) \cup {d}, CreateWaits(d) => CreateWaits(c)
  PROVE  ProfileInv'
<1>1. d.op = "list" /\ d \in ListCalls \cup TokenCalls
  BY DEF ListCalls
<1>2. profileCalls' \subseteq ListCalls \cup TokenCalls
  BY <1>1 DEF ProfileInv
<1>3. \A x \in profileCalls' : x.op = "list" => x.seen \subseteq tokenTable'.made
  BY <1>1 DEF ProfileInv
<1>4. \A x \in profileCalls' : CreateWaits(x) => profile'.creating
  BY DEF ProfileInv
<1>5. \A x, y \in profileCalls' : CreateWaits(x) /\ CreateWaits(y) => x = y
  BY DEF ProfileInv
<1>6. profile'.rows \subseteq tokenTable'.made
  BY DEF ProfileInv
<1> QED
  BY <1>2, <1>3, <1>4, <1>5, <1>6 DEF ProfileInv, CreateWaits

LEMMA ProfileCallsStep ==
  ASSUME ProfileInv, NEW c \in profileCalls,
         \/ ServesTokens(c) \/ TokensLoaded(c) \/ TokenCreated(c)
         \/ TokenDeleted(c) \/ PasswordChanged(c)
  PROVE  ProfileInv'
<1>1. /\ tokenTable \in [now : SUBSET ApiTokens, made : SUBSET ApiTokens]
      /\ tokenTable.now \subseteq tokenTable.made
      /\ profile \in Profiles /\ profile.rows \subseteq tokenTable.made
      /\ (profile.saving => profile.isLocal) /\ c \in ListCalls \cup TokenCalls
  BY DEF ProfileInv
<1>2. c.op = "list" => c \in ListCalls
  BY <1>1 DEF TokenCalls
<1>3. CASE ServesTokens(c)
  <2> DEFINE d == [c EXCEPT !.served = TRUE, !.seen = tokenTable.now]
  <2>1. d \in ListCalls /\ d.seen = tokenTable.now /\ d.op = c.op /\ d.for = c.for
    BY <1>1, <1>2, <1>3 DEF ServesTokens, ListCalls
  <2>2. profileCalls' = (profileCalls \ {c}) \cup {d} /\ UNCHANGED <<tokenTable, profile>>
    BY <1>3 DEF ServesTokens
  <2> HIDE DEF d
  <2> QED
    BY <1>1, <2>1, <2>2, CallReplaced DEF CreateWaits
<1>4. CASE TokensLoaded(c)
  <2>1. c \in ListCalls /\ c.op = "list" /\ c.seen \subseteq tokenTable.made
    BY <1>2, <1>4 DEF TokensLoaded, ProfileInv
  <2>2. PICK rows \in {profile.rows} \cup IF c.served THEN {c.seen} ELSE {} :
          profile' = Resumes([profile EXCEPT !.rows = rows, !.loading = FALSE], c.for)
    BY <1>4 DEF TokensLoaded
  <2> DEFINE p == [profile EXCEPT !.rows = rows, !.loading = FALSE]
  <2>3. rows \subseteq tokenTable.made /\ rows \in SUBSET ApiTokens
    BY <1>1, <2>1, <2>2
  <2>4. p \in Profiles /\ p.rows = rows /\ p.saving = profile.saving /\ p.isLocal = profile.isLocal
        /\ p.creating = profile.creating
    BY <1>1, <2>3 DEF Profiles
  <2>5. \/ c.for = "create" /\ profile' = [p EXCEPT !.creating = FALSE]
        \/ c.for # "create" /\ profile' = [p EXCEPT !.deleting = NoApiToken]
        \/ c.for # "create" /\ profile' = p
    BY <2>2 DEF Resumes
  <2> HIDE DEF p
  <2>6. /\ profile' \in Profiles /\ profile'.rows = rows /\ profile'.saving = profile.saving
        /\ profile'.isLocal = profile.isLocal
        /\ c.for = "create" \/ profile'.creating = profile.creating
    BY <2>4, <2>5 DEF Profiles, MaybeApiToken
  <2>7. profileCalls' = profileCalls \ {c} /\ UNCHANGED tokenTable
    BY <1>4 DEF TokensLoaded, ProfileEnds
  <2>8. c.for = "create" => \A d \in profileCalls' : ~CreateWaits(d)
    BY <2>1, <2>7, WaitOver DEF CreateWaits
  <2> QED
    BY <1>1, <2>3, <2>6, <2>7, <2>8, ProfileKeeps
<1>5. CASE TokenCreated(c)
  <2>1. CreateWaits(c) /\ profile.creating
    BY <1>5 DEF TokenCreated, CreateWaits, ProfileInv
  <2>2. [profile EXCEPT !.creating = FALSE] \in Profiles
    BY <1>1 DEF Profiles
  <2>3. \A d \in profileCalls \ {c} : ~CreateWaits(d)
    BY <2>1, WaitOver
  <2>4. ASSUME NEW t \in ApiTokens,
               tokenTable' = [now |-> tokenTable.now \cup {t}, made |-> tokenTable.made \cup {t}]
        PROVE  /\ tokenTable' \in [now : SUBSET ApiTokens, made : SUBSET ApiTokens]
               /\ tokenTable'.now \subseteq tokenTable'.made
               /\ tokenTable.made \subseteq tokenTable'.made
    BY <1>1, <2>4
  <2>5. ASSUME NEW t \in ApiTokens,
               tokenTable' = [now |-> tokenTable.now \cup {t}, made |-> tokenTable.made \cup {t}],
               profile' = [profile EXCEPT !.shown = t, !.loading = TRUE], ThenLists(c, "create")
        PROVE  ProfileInv'
    <3>1. /\ profile' \in Profiles /\ profile'.rows = profile.rows /\ profile'.saving = profile.saving
          /\ profile'.isLocal = profile.isLocal /\ profile'.creating = profile.creating
      BY <1>1, <2>5 DEF Profiles, MaybeApiToken
    <3>2. profileCalls' = (profileCalls \ {c}) \cup {ListTokens("create")}
      BY <2>5 DEF ThenLists
    <3> QED
      BY <1>1, <2>1, <2>4, <2>5, <3>1, <3>2, ListTokensIs, CallReplaced
  <2>6. ASSUME profile' = [profile EXCEPT !.creating = FALSE], ProfileEnds(c),
               \/ UNCHANGED tokenTable
               \/ \E t \in ApiTokens :
                    tokenTable' = [now |-> tokenTable.now \cup {t}, made |-> tokenTable.made \cup {t}]
        PROVE  ProfileInv'
    <3>1. profile' \in Profiles /\ profile'.rows = profile.rows /\ profile'.saving = profile.saving
          /\ profile'.isLocal = profile.isLocal
      BY <1>1, <2>6 DEF Profiles
    <3>2. profileCalls' = profileCalls \ {c}
      BY <2>6 DEF ProfileEnds
    <3>3. /\ tokenTable' \in [now : SUBSET ApiTokens, made : SUBSET ApiTokens]
          /\ tokenTable'.now \subseteq tokenTable'.made /\ tokenTable.made \subseteq tokenTable'.made
      BY <1>1, <2>4, <2>6
    <3>4. \A d \in profileCalls' : d.op = "list" => d.seen \subseteq tokenTable'.made
      BY <3>2, <3>3 DEF ProfileInv
    <3> QED
      BY <1>1, <2>3, <3>1, <3>2, <3>3, <3>4 DEF ProfileInv, CreateWaits
  <2> QED
    BY <1>5, <2>5, <2>6 DEF TokenCreated
<1>6. CASE TokenDeleted(c)
  <2>1. ~CreateWaits(ListTokens("delete")) /\ ListTokens("delete") \in ListCalls
        /\ ListTokens("delete").seen = {}
    BY ListTokensIs DEF CreateWaits
  <2>2. NoApiToken \in MaybeApiToken
    BY DEF MaybeApiToken
  <2>3. ASSUME tokenTable' = [tokenTable EXCEPT !.now = @ \ {c.of}]
        PROVE  /\ tokenTable' \in [now : SUBSET ApiTokens, made : SUBSET ApiTokens]
               /\ tokenTable'.now \subseteq tokenTable'.made /\ tokenTable'.made = tokenTable.made
    BY <1>1, <2>3
  <2>4. CASE /\ tokenTable' = [tokenTable EXCEPT !.now = @ \ {c.of}]
             /\ ThenLists(c, "delete") /\ profile' = [profile EXCEPT !.loading = TRUE]
    <3>1. /\ profile' \in Profiles /\ profile'.rows = profile.rows /\ profile'.saving = profile.saving
          /\ profile'.isLocal = profile.isLocal /\ profile'.creating = profile.creating
      BY <1>1, <2>4 DEF Profiles
    <3>2. profileCalls' = (profileCalls \ {c}) \cup {ListTokens("delete")}
      BY <2>4 DEF ThenLists
    <3> QED
      BY <1>1, <2>1, <2>3, <2>4, <3>1, <3>2, CallReplaced
  <2>5. ASSUME ProfileEnds(c), profile' = [profile EXCEPT !.deleting = NoApiToken],
               tokenTable' = [tokenTable EXCEPT !.now = @ \ {c.of}] \/ UNCHANGED tokenTable
        PROVE  ProfileInv'
    <3>1. /\ profile' \in Profiles /\ profile'.rows = profile.rows /\ profile'.saving = profile.saving
          /\ profile'.isLocal = profile.isLocal /\ profile'.creating = profile.creating
      BY <1>1, <2>2, <2>5 DEF Profiles
    <3>2. profileCalls' = profileCalls \ {c}
      BY <2>5 DEF ProfileEnds
    <3>3. /\ tokenTable' \in [now : SUBSET ApiTokens, made : SUBSET ApiTokens]
          /\ tokenTable'.now \subseteq tokenTable'.made /\ tokenTable'.made = tokenTable.made
      BY <1>1, <2>3, <2>5
    <3> QED
      BY <1>1, <3>1, <3>2, <3>3 DEF ProfileInv, CreateWaits
  <2> QED
    BY <1>6, <2>4, <2>5 DEF TokenDeleted
<1>7. CASE PasswordChanged(c)
  <2>1. profileCalls' = profileCalls \ {c} /\ UNCHANGED tokenTable
    BY <1>7 DEF PasswordChanged, ProfileEnds
  <2>2. /\ profile' \in Profiles /\ profile'.rows = profile.rows /\ ~profile'.saving
        /\ profile'.creating = profile.creating
    BY <1>1, <1>7 DEF PasswordChanged, Profiles, Typings
  <2> QED
    BY <1>1, <2>1, <2>2, ProfileKeeps
<1> QED
  BY <1>3, <1>4, <1>5, <1>6, <1>7

LEMMA ProfileStep == ProfileInv /\ [ProfileNext]_profileVars => ProfileInv'
<1> SUFFICES ASSUME ProfileInv, [ProfileNext]_profileVars PROVE ProfileInv'
  OBVIOUS
<1>1. /\ profile \in Profiles /\ profile.rows \subseteq tokenTable.made
      /\ (profile.saving => profile.isLocal) /\ NoApiToken \in MaybeApiToken
  BY DEF ProfileInv, MaybeApiToken
<1>2. ASSUME NEW c \in profileCalls,
             \/ ServesTokens(c) \/ TokensLoaded(c) \/ TokenCreated(c)
             \/ TokenDeleted(c) \/ PasswordChanged(c)
      PROVE  ProfileInv'
  BY <1>2, ProfileCallsStep
<1>3. CASE OpenTokenDialog \/ CloseCreateDialog \/ TypeTokenName \/ TypePassword
  <2>1. UNCHANGED <<tokenTable, profileCalls>>
    BY <1>3 DEF OpenTokenDialog, CloseCreateDialog, TypeTokenName, TypePassword
  <2>2. /\ profile' \in Profiles /\ profile'.rows = profile.rows /\ profile'.saving = profile.saving
        /\ profile'.isLocal = profile.isLocal /\ profile'.creating = profile.creating
    BY <1>1, <1>3 DEF OpenTokenDialog, CloseCreateDialog, TypeTokenName, TypePassword, Profiles
  <2> QED
    BY <1>1, <2>1, <2>2, ProfileKeeps
<1>4. CASE CreateToken
  <2> DEFINE c == TokenCall("create", NoApiToken, 1)
  <2>1. /\ ~profile.creating /\ profile' = [profile EXCEPT !.creating = TRUE]
        /\ profileCalls' = profileCalls \cup {c} /\ UNCHANGED tokenTable
    BY <1>4 DEF CreateToken
  <2>2. /\ profile' \in Profiles /\ profile'.rows = profile.rows /\ profile'.saving = profile.saving
        /\ profile'.isLocal = profile.isLocal /\ profile'.creating
    BY <1>1, <2>1 DEF Profiles
  <2>3. c \in TokenCalls /\ c.op = "create"
    BY <1>1, TokenCallIs
  <2>4. \A d \in profileCalls : ~CreateWaits(d)
    BY <2>1 DEF ProfileInv
  <2> HIDE DEF c
  <2> QED
    BY <1>1, <2>1, <2>2, <2>3, <2>4 DEF ProfileInv, CreateWaits
<1>5. ASSUME NEW c \in TokenCalls, c.op # "create", profileCalls' = profileCalls \cup {c}, UNCHANGED tokenTable,
             profile' \in Profiles, profile'.rows = profile.rows, profile'.saving => profile'.isLocal,
             profile'.creating = profile.creating
      PROVE  ProfileInv'
  <2>1. c.op # "list" /\ ~CreateWaits(c)
    BY <1>5 DEF TokenCalls, CreateWaits
  <2> QED
    BY <1>1, <1>5, <2>1 DEF ProfileInv, CreateWaits
<1>6. CASE ChangePassword
  <2>1. /\ profile.isLocal /\ profile' = [profile EXCEPT !.saving = TRUE]
        /\ profileCalls' = profileCalls \cup {TokenCall("password", NoApiToken, 1)} /\ UNCHANGED tokenTable
    BY <1>6 DEF ChangePassword
  <2>2. /\ profile' \in Profiles /\ profile'.rows = profile.rows /\ profile'.isLocal
        /\ profile'.creating = profile.creating
    BY <1>1, <2>1 DEF Profiles
  <2> QED
    BY <1>1, <1>5, <2>1, <2>2, TokenCallIs
<1>7. ASSUME NEW t \in ApiTokens, DeleteToken(t) PROVE ProfileInv'
  <2>1. PICK nr \in 1 .. 2 : profileCalls' = profileCalls \cup {TokenCall("delete", t, nr)}
    BY <1>7 DEF DeleteToken
  <2>2. profile' = [profile EXCEPT !.deleting = t] /\ UNCHANGED tokenTable /\ t \in MaybeApiToken
    BY <1>7 DEF DeleteToken, MaybeApiToken
  <2>3. /\ profile' \in Profiles /\ profile'.rows = profile.rows /\ profile'.saving = profile.saving
        /\ profile'.isLocal = profile.isLocal /\ profile'.creating = profile.creating
    BY <1>1, <2>2 DEF Profiles
  <2> QED
    BY <1>1, <1>5, <2>1, <2>2, <2>3, TokenCallIs
<1>8. CASE UNCHANGED profileVars
  BY <1>1, <1>8, ProfileKeeps DEF profileVars
<1> QED
  BY <1>2, <1>3, <1>4, <1>6, <1>7, <1>8 DEF ProfileNext

-----------------------------------------------------------------------------
(* A new server.                                                            *)

Ports == {Default, Typed, Free}

NewForms == [ready : BOOLEAN, left : BOOLEAN, loading : BOOLEAN, name : BOOLEAN, port : Ports,
             known : BOOLEAN, proxies : BOOLEAN, proxy : BOOLEAN, detached : BOOLEAN,
             autoStart : BOOLEAN, favorites : BOOLEAN, choosing : BOOLEAN, pack : MaybePack,
             filled : MaybePack, listed : MaybePack, version : MaybePack, fetching : BOOLEAN,
             suggested : MaybePack, edits : 0 .. MaxNewEdits]

NewOps == {"opening", "favorites", "pack", "config", "versions", "port", "create"}

\* No proxy is known before the page is open; what is sent is what the form had.
NewCallOK(c) ==
  /\ c.op \in NewOps /\ c.of \in MaybePack /\ c.mount \in BOOLEAN
  /\ c.op = "opening" => c = NewCall("opening", NoPack, TRUE) /\ ~newForm.proxies
  /\ c.op = "create" => (c.detached => ~c.autoStart)

FormAgrees(f) == (f.proxy => f.proxies) /\ (f.detached => ~f.autoStart)

NewInv == newForm \in NewForms /\ FormAgrees(newForm) /\ \A c \in newCalls : NewCallOK(c)

USE EditsAssumption

LEMMA NewTypesImply == NewInv => NewServerTypeOK /\ DetachedNeverAutoStarts
<1> SUFFICES ASSUME NewInv PROVE NewServerTypeOK /\ DetachedNeverAutoStarts
  OBVIOUS
<1>1. newForm \in NewForms /\ FormAgrees(newForm) /\ \A c \in newCalls : NewCallOK(c)
  BY DEF NewInv
<1>2. NewServerTypeOK
  BY <1>1 DEF NewForms, FormAgrees, NewCallOK, NewOps, Ports, NewServerTypeOK
<1>3. DetachedNeverAutoStarts
  BY <1>1 DEF NewCallOK, DetachedNeverAutoStarts, Creating
<1> QED
  BY <1>2, <1>3

LEMMA BlankNewServerIs ==
  ASSUME NEW p \in MaybePack
  PROVE  /\ BlankNewServer(p) \in NewForms /\ FormAgrees(BlankNewServer(p))
         /\ ~BlankNewServer(p).proxies
<1>1. NoPack \in MaybePack /\ Default \in Ports
  BY DEF MaybePack, Ports
<1> QED
  BY <1>1 DEF BlankNewServer, NewForms, FormAgrees

LEMMA NewCallIs ==
  ASSUME NEW op \in NewOps \ {"opening", "create"}, NEW p \in MaybePack, NEW mount \in BOOLEAN
  PROVE  NewCallOK(NewCall(op, p, mount))
  BY DEF NewCall, NewCallOK

LEMMA NewInitInv == NewServerInit => NewInv
<1> SUFFICES ASSUME NewServerInit PROVE NewInv
  OBVIOUS
<1>1. newForm \in NewForms /\ FormAgrees(newForm) /\ ~newForm.proxies
  BY BlankNewServerIs DEF NewServerInit
<1>2. NewCallOK(NewCall("opening", NoPack, TRUE))
  BY <1>1 DEF NewCall, NewCallOK, NewOps, MaybePack
<1> QED
  BY <1>1, <1>2 DEF NewServerInit, NewInv

\* A step that leaves the connection and the switches, and adds calls that are in order.
LEMMA NewFormKeeps ==
  ASSUME NewInv, newForm' \in NewForms, FormAgrees(newForm'),
         newForm'.proxies = newForm.proxies \/ \A c \in newCalls' : c.op # "opening",
         \A c \in newCalls' : c \in newCalls \/ NewCallOK(c)
  PROVE  NewInv'
<1>1. \A c \in newCalls' : NewCallOK(c)
  BY DEF NewInv
<1>2. \A c \in newCalls' : NewCallOK(c)'
  BY <1>1 DEF NewCallOK
<1>3. FormAgrees(newForm)'
  BY DEF FormAgrees
<1> QED
  BY <1>2, <1>3 DEF NewInv

\* The parts of the form that the connection and the switches are not.
SameSwitches(f, g) == f.proxies = g.proxies /\ f.proxy = g.proxy /\ f.detached = g.detached
                      /\ f.autoStart = g.autoStart

LEMMA SwitchesKeep ==
  ASSUME NewInv, newForm' \in NewForms, SameSwitches(newForm', newForm),
         \A c \in newCalls' : c \in newCalls \/ NewCallOK(c)
  PROVE  NewInv'
<1>1. FormAgrees(newForm')
  BY DEF NewInv, FormAgrees, SameSwitches
<1>2. newForm'.proxies = newForm.proxies
  BY DEF SameSwitches
<1> QED
  BY <1>1, <1>2, NewFormKeeps

LEMMA ReadyAfterIs ==
  ASSUME NEW f \in NewForms, NEW c, NewCallOK(c)
  PROVE  ReadyAfter(c, f) \in NewForms /\ SameSwitches(ReadyAfter(c, f), f)
<1>1. PICK ready \in BOOLEAN : ReadyAfter(c, f) = [f EXCEPT !.ready = ready]
  BY DEF ReadyAfter, NewCallOK, NewForms
<1> QED
  BY <1>1 DEF NewForms, SameSwitches

LEMMA NewCallsStep ==
  ASSUME NewInv, NEW c \in newCalls,
         \/ OpeningArrives(c) \/ FavoritesArrive(c) \/ PackArrives(c) \/ ConfigArrives(c)
         \/ VersionsArrive(c) \/ PortArrives(c) \/ ServerCreated(c)
  PROVE  NewInv'
<1>1. newForm \in NewForms /\ FormAgrees(newForm) /\ NewCallOK(c) /\ NoPack \in MaybePack
      /\ c.of \in MaybePack /\ c.mount \in BOOLEAN
  BY DEF NewInv, MaybePack, NewCallOK
<1>2. ASSUME NEW f \in NewForms, SameSwitches(f, newForm), newForm' = ReadyAfter(c, f), NewEnds(c)
      PROVE  NewInv'
  <2>1. newForm' \in NewForms /\ SameSwitches(newForm', newForm)
    BY <1>1, <1>2, ReadyAfterIs DEF SameSwitches
  <2> QED
    BY <1>2, <2>1, SwitchesKeep DEF NewEnds
<1>3. ASSUME newForm' \in NewForms, SameSwitches(newForm', newForm), NEW d, NewCallOK(d), Then(c, d)
      PROVE  NewInv'
  BY <1>3, SwitchesKeep DEF Then
<1>4. newForm \in NewForms /\ SameSwitches(newForm, newForm)
  BY <1>1 DEF SameSwitches
<1>5. CASE OpeningArrives(c)
  <2>1. c = NewCall("opening", NoPack, TRUE) /\ ~newForm.proxies
    BY <1>1, <1>5 DEF OpeningArrives, NewCallOK
  <2>2. ASSUME NEW known \in BOOLEAN, NEW proxies \in BOOLEAN,
               newForm' = [newForm EXCEPT !.known = known, !.proxies = proxies,
                                          !.port = IF known THEN Free ELSE @],
               Then(c, NewCall("favorites", NoPack, TRUE))
        PROVE  NewInv'
    <3>1. /\ newForm' \in NewForms /\ newForm'.proxy = newForm.proxy /\ newForm'.detached = newForm.detached
          /\ newForm'.autoStart = newForm.autoStart
      BY <1>1, <2>2 DEF NewForms, Ports
    <3>2. FormAgrees(newForm')
      BY <1>1, <2>1, <3>1 DEF FormAgrees
    <3>3. NewCallOK(NewCall("favorites", NoPack, TRUE))
          /\ NewCall("favorites", NoPack, TRUE).op = "favorites"
      BY <1>1, NewCallIs DEF NewOps, NewCall
    <3>4. newCalls' = (newCalls \ {c}) \cup {NewCall("favorites", NoPack, TRUE)}
      BY <2>2 DEF Then
    <3>5. \A d \in newCalls' : d.op # "opening"
      BY <2>1, <3>3, <3>4 DEF NewInv, NewCallOK
    <3> QED
      BY <3>1, <3>2, <3>3, <3>4, <3>5, NewFormKeeps
  <2> QED
    BY <1>2, <1>4, <1>5, <2>2 DEF OpeningArrives
<1>6. CASE FavoritesArrive(c)
  <2>1. PICK came \in BOOLEAN :
          IF newForm.suggested = NoPack
          THEN newForm' = ReadyAfter(c, [newForm EXCEPT !.favorites = came]) /\ NewEnds(c)
          ELSE /\ newForm' = [newForm EXCEPT !.favorites = came, !.suggested = NoPack]
               /\ Then(c, NewCall("pack", newForm.suggested, TRUE))
    BY <1>6 DEF FavoritesArrive
  <2>2. [newForm EXCEPT !.favorites = came] \in NewForms
        /\ SameSwitches([newForm EXCEPT !.favorites = came], newForm)
    BY <1>1 DEF NewForms, SameSwitches
  <2>3. [newForm EXCEPT !.favorites = came, !.suggested = NoPack] \in NewForms
        /\ SameSwitches([newForm EXCEPT !.favorites = came, !.suggested = NoPack], newForm)
    BY <1>1 DEF NewForms, SameSwitches
  <2>4. newForm.suggested \in MaybePack
    BY <1>1 DEF NewForms
  <2>5. NewCallOK(NewCall("pack", newForm.suggested, TRUE))
    BY <2>4, NewCallIs DEF NewOps
  <2>6. CASE newForm.suggested = NoPack
    BY <1>2, <2>1, <2>2, <2>6
  <2>7. CASE newForm.suggested # NoPack
    BY <1>3, <2>1, <2>3, <2>5, <2>7
  <2> QED
    BY <2>6, <2>7
<1>7. CASE PackArrives(c)
  <2> DEFINE f == [newForm EXCEPT !.pack = c.of, !.choosing = FALSE]
  <2>1. f \in NewForms /\ SameSwitches(f, newForm)
    BY <1>1 DEF NewForms, SameSwitches
  <2>2. NewCallOK(NewCall("config", c.of, TRUE))
    BY <1>1, NewCallIs DEF NewOps
  <2>3. \/ newForm' = f /\ Then(c, NewCall("config", c.of, TRUE))
        \/ newForm' = ReadyAfter(c, newForm) /\ NewEnds(c)
    BY <1>7 DEF PackArrives
  <2> HIDE DEF f
  <2> QED
    BY <1>2, <1>3, <1>4, <2>1, <2>2, <2>3
<1>8. CASE ConfigArrives(c)
  <2> DEFINE f == [newForm EXCEPT !.name = TRUE, !.filled = c.of, !.fetching = TRUE,
                                  !.listed = NoPack, !.version = NoPack]
             g == [newForm EXCEPT !.pack = NoPack]
  <2>1. f \in NewForms /\ SameSwitches(f, newForm)
    BY <1>1 DEF NewForms, SameSwitches
  <2>2. g \in NewForms /\ SameSwitches(g, newForm)
    BY <1>1 DEF NewForms, SameSwitches
  <2>3. NewCallOK(NewCall("versions", c.of, c.mount))
    BY <1>1, NewCallIs DEF NewOps
  <2>4. \/ newForm' = f /\ Then(c, NewCall("versions", c.of, c.mount))
        \/ newForm' = ReadyAfter(c, g) /\ NewEnds(c)
    BY <1>8 DEF ConfigArrives
  <2> HIDE DEF f, g
  <2> QED
    BY <1>2, <1>3, <2>1, <2>2, <2>3, <2>4
<1>9. CASE VersionsArrive(c)
  <2>1. PICK p \in {c.of, NoPack} : newForm' = ReadyAfter(c, [newForm EXCEPT !.listed = p, !.fetching = FALSE])
    BY <1>9 DEF VersionsArrive
  <2>2. [newForm EXCEPT !.listed = p, !.fetching = FALSE] \in NewForms
        /\ SameSwitches([newForm EXCEPT !.listed = p, !.fetching = FALSE], newForm)
    BY <1>1 DEF NewForms, SameSwitches
  <2> QED
    BY <1>2, <1>9, <2>1, <2>2 DEF VersionsArrive
<1>10. CASE PortArrives(c)
  <2>1. newForm' \in NewForms /\ SameSwitches(newForm', newForm)
    BY <1>1, <1>4, <1>10 DEF PortArrives, NewForms, SameSwitches, Ports
  <2> QED
    BY <1>10, <2>1, SwitchesKeep DEF PortArrives, NewEnds
<1>11. CASE ServerCreated(c)
  <2>1. CASE newForm' = [BlankNewServer(NoPack) EXCEPT !.left = TRUE, !.ready = TRUE] /\ newCalls' = {}
    <3> DEFINE b == BlankNewServer(NoPack)
    <3>1. b \in NewForms /\ FormAgrees(b) /\ newForm' = [b EXCEPT !.left = TRUE, !.ready = TRUE]
      BY <1>1, <2>1, BlankNewServerIs
    <3> HIDE DEF b
    <3>2. newForm' \in NewForms
      BY <3>1 DEF NewForms
    <3>3. FormAgrees(newForm')
      BY <3>1 DEF FormAgrees, NewForms
    <3> QED
      BY <2>1, <3>2, <3>3, NewFormKeeps
  <2>2. CASE newForm' = [newForm EXCEPT !.loading = FALSE] /\ NewEnds(c)
    <3>1. newForm' \in NewForms /\ SameSwitches(newForm', newForm)
      BY <1>1, <2>2 DEF NewForms, SameSwitches
    <3> QED
      BY <2>2, <3>1, SwitchesKeep DEF NewEnds
  <2> QED
    BY <1>11, <2>1, <2>2 DEF ServerCreated
<1> QED
  BY <1>5, <1>6, <1>7, <1>8, <1>9, <1>10, <1>11

\* The user's changes to the form: each leaves it with switches that agree.
LEMMA EditKeeps ==
  ASSUME NewInv, NEW f \in NewForms, FormAgrees(f), f.proxies = newForm.proxies,
         f.edits = newForm.edits, EditNew(f)
  PROVE  NewInv'
<1>1. newForm' = [f EXCEPT !.edits = @ + 1] /\ newForm.edits < MaxNewEdits /\ newCalls' = newCalls
  BY DEF EditNew
<1>2. f.edits + 1 \in 0 .. MaxNewEdits
  BY <1>1 DEF NewForms
<1>3. newForm' \in NewForms
  BY <1>1, <1>2 DEF NewForms
<1>4. FormAgrees(newForm') /\ newForm'.proxies = newForm.proxies
  BY <1>1 DEF FormAgrees, NewForms
<1> QED
  BY <1>1, <1>3, <1>4, NewFormKeeps

LEMMA NewEditsStep ==
  ASSUME NewInv,
         \/ ChooseVersion \/ TypeName \/ TypePort
         \/ ChooseConnection \/ ToggleDetached \/ ToggleAutoStart
  PROVE  NewInv'
<1>1. newForm \in NewForms /\ FormAgrees(newForm)
  BY DEF NewInv
<1>2. ASSUME NEW f \in NewForms, SameSwitches(f, newForm), f.edits = newForm.edits, EditNew(f)
      PROVE  NewInv'
  BY <1>1, <1>2, EditKeeps DEF SameSwitches, FormAgrees
<1>3. CASE ChooseVersion
  <2>1. PICK v \in {newForm.listed, NoPack} : EditNew([newForm EXCEPT !.version = v])
    BY <1>3 DEF ChooseVersion
  <2>2. NoPack \in MaybePack
    BY DEF MaybePack
  <2> QED
    BY <1>1, <1>2, <2>1, <2>2 DEF NewForms, SameSwitches
<1>4. CASE TypeName
  <2>1. EditNew([newForm EXCEPT !.name = ~@])
    BY <1>4 DEF TypeName
  <2> QED
    BY <1>1, <1>2, <2>1 DEF NewForms, SameSwitches
<1>5. CASE TypePort
  <2>1. EditNew([newForm EXCEPT !.port = Typed])
    BY <1>5 DEF TypePort
  <2> QED
    BY <1>1, <1>2, <2>1 DEF NewForms, SameSwitches, Ports
<1>6. CASE ChooseConnection
  <2> DEFINE f == [newForm EXCEPT !.proxy = ~@]
  <2>1. EditNew(f) /\ newForm.proxies
    BY <1>6 DEF ChooseConnection
  <2>2. f \in NewForms /\ FormAgrees(f) /\ f.proxies = newForm.proxies /\ f.edits = newForm.edits
    BY <1>1, <2>1 DEF NewForms, FormAgrees
  <2> HIDE DEF f
  <2> QED
    BY <2>1, <2>2, EditKeeps
<1>7. CASE ToggleDetached
  <2> DEFINE f == [newForm EXCEPT !.detached = ~@, !.autoStart = @ /\ newForm.detached]
  <2>1. EditNew(f)
    BY <1>7 DEF ToggleDetached
  <2>2. newForm.detached \in BOOLEAN /\ newForm.autoStart \in BOOLEAN
    BY <1>1 DEF NewForms
  <2>3. f \in NewForms
    <3>1. PICK d \in BOOLEAN, s \in BOOLEAN : f = [newForm EXCEPT !.detached = d, !.autoStart = s]
      BY <1>1, <2>2 DEF NewForms
    <3> HIDE DEF f
    <3> QED
      BY <1>1, <3>1 DEF NewForms
  <2>4. f.proxies = newForm.proxies /\ f.proxy = newForm.proxy /\ f.edits = newForm.edits
        /\ f.detached = ~newForm.detached /\ f.autoStart = (newForm.autoStart /\ newForm.detached)
    BY <1>1 DEF NewForms
  <2>5. FormAgrees(f)
    <3> HIDE DEF f
    <3> QED
      BY <1>1, <2>4 DEF FormAgrees
  <2> HIDE DEF f
  <2> QED
    BY <2>1, <2>3, <2>4, <2>5, EditKeeps
<1>8. CASE ToggleAutoStart
  <2> DEFINE f == [newForm EXCEPT !.autoStart = ~@]
  <2>1. EditNew(f) /\ ~newForm.detached
    BY <1>8 DEF ToggleAutoStart
  <2>2. f \in NewForms /\ FormAgrees(f) /\ f.proxies = newForm.proxies /\ f.edits = newForm.edits
    BY <1>1, <2>1 DEF NewForms, FormAgrees
  <2> HIDE DEF f
  <2> QED
    BY <2>1, <2>2, EditKeeps
<1> QED
  BY <1>3, <1>4, <1>5, <1>6, <1>7, <1>8

LEMMA NewStep == NewInv /\ [NewServerNext]_newVars => NewInv'
<1> SUFFICES ASSUME NewInv, [NewServerNext]_newVars PROVE NewInv'
  OBVIOUS
<1>1. newForm \in NewForms /\ FormAgrees(newForm) /\ NoPack \in MaybePack
      /\ SameSwitches(newForm, newForm)
  BY DEF NewInv, MaybePack, SameSwitches
<1>2. ASSUME NEW c \in newCalls,
             \/ OpeningArrives(c) \/ FavoritesArrive(c) \/ PackArrives(c) \/ ConfigArrives(c)
             \/ VersionsArrive(c) \/ PortArrives(c) \/ ServerCreated(c)
      PROVE  NewInv'
  BY <1>2, NewCallsStep
<1>3. ASSUME NEW p \in Packs, SelectModpack(p) PROVE NewInv'
  <2>1. p \in MaybePack
    BY DEF MaybePack
  <2>2. newForm' \in NewForms /\ SameSwitches(newForm', newForm)
    BY <1>1, <1>3, <2>1 DEF SelectModpack, NewForms, SameSwitches
  <2>3. NewCallOK(NewCall("config", p, FALSE))
    BY <2>1, NewCallIs DEF NewOps
  <2> QED
    BY <1>3, <2>2, <2>3, SwitchesKeep DEF SelectModpack
<1>4. CASE OpenPacks \/ ChooseManual \/ RemoveModpack
  <2>1. newForm' \in NewForms /\ SameSwitches(newForm', newForm)
    BY <1>1, <1>4 DEF OpenPacks, ChooseManual, RemoveModpack, NewForms, SameSwitches
  <2>2. newCalls' = newCalls
    BY <1>4 DEF OpenPacks, ChooseManual, RemoveModpack
  <2> QED
    BY <2>1, <2>2, SwitchesKeep
<1>5. CASE RefreshAvailablePort
  <2>1. NewCallOK(NewCall("port", NoPack, FALSE))
    BY <1>1, NewCallIs DEF NewOps
  <2> QED
    BY <1>1, <1>5, <2>1, SwitchesKeep DEF RefreshAvailablePort
<1>6. CASE HandleSubmitNew
  <2> DEFINE c == [op |-> "create", of |-> newForm.pack, mount |-> FALSE,
                   version |-> newForm.version, detached |-> newForm.detached,
                   autoStart |-> newForm.autoStart, proxy |-> newForm.proxy]
  <2>1. newForm' = [newForm EXCEPT !.loading = TRUE] /\ newCalls' = newCalls \cup {c}
    BY <1>6 DEF HandleSubmitNew
  <2>2. newForm' \in NewForms /\ SameSwitches(newForm', newForm)
    BY <1>1, <2>1 DEF NewForms, SameSwitches
  <2>3. newForm.pack \in MaybePack
    BY <1>1 DEF NewForms
  <2>4. NewCallOK(c)
    BY <1>1, <2>3 DEF NewCallOK, NewOps, FormAgrees
  <2> HIDE DEF c
  <2> QED
    BY <2>1, <2>2, <2>4, SwitchesKeep
<1>7. CASE UNCHANGED newVars
  BY <1>1, <1>7, SwitchesKeep DEF newVars
<1> QED
  BY <1>2, <1>3, <1>4, <1>5, <1>6, <1>7, NewEditsStep DEF NewServerNext

-----------------------------------------------------------------------------
(* The pages together.                                                      *)

Inv == AuthInv /\ InterceptorListens /\ UserInv /\ RoleInv /\ NewInv /\ ProfileInv

LEMMA InitInv == PanelPagesInit => Inv
  BY AuthInitInv, ListensInit, UserInitInv, RoleInitInv, NewInitInv, ProfileInitInv DEF PanelPagesInit, Inv

\* The page that is shown takes its step, and the others stand still.
LEMMA InvStep == Inv /\ [PanelPagesNext]_panelPagesVars => Inv'
<1> SUFFICES ASSUME Inv, [PanelPagesNext]_panelPagesVars PROVE Inv'
  OBVIOUS
<1>1. /\ [AuthNext]_authVars /\ [UserAdminNext]_userVars /\ [RoleAdminNext]_roleVars
      /\ [NewServerNext]_newVars /\ [ProfileNext]_profileVars
  <2>1. CASE UNCHANGED panelPagesVars
    BY <2>1 DEF panelPagesVars
  <2>2. CASE PanelPagesNext
    BY <2>2 DEF PanelPagesNext, Stays
  <2> QED
    BY <2>1, <2>2
<1> QED
  BY <1>1, AuthStep, ListensStep, UserStep, RoleStep, NewStep, ProfileStep DEF Inv

LEMMA Invariance == PanelPagesSpec => []Inv
  BY InitInv, InvStep, PTL DEF PanelPagesSpec

\* The forms, tables and calls of the five pages keep their form, whatever is
\* answered, refused or lost, and in any order (auth.ts and the pages' components).
THEOREM PagesTypeCorrect == PanelPagesSpec => []PanelPagesTypeOK
<1>1. Inv => PanelPagesTypeOK
  BY AuthTypesImply, UserTypesImply, RoleTypesImply, NewTypesImply, ProfileTypesImply
     DEF Inv, PanelPagesTypeOK
<1> QED
  BY <1>1, Invariance, PTL

\* The interceptor lets rejected calls pass exactly as long as the one logout it began
\* is on its way, through logins, logouts, recoveries and rejections that overlap
\* (rpc-client.ts): it is not left deaf to the end of a later session.
THEOREM OneLogout == PanelPagesSpec => []InterceptorListens
<1>1. Inv => InterceptorListens
  BY DEF Inv
<1> QED
  BY <1>1, Invariance, PTL

\* Nothing is changed that the user did not change: a role that is opened and saved
\* keeps what it has, also on objects that are gone, unless that is no more what the
\* table said; no detached server is created to be started by the panel, and no second API token
\* is made by closing and opening the dialog (role-settings, servers/new,
\* profile).
THEOREM NothingUnaskedHappens == PanelPagesSpec => []NothingUnasked
<1>1. Inv => NothingUnasked
  BY UserTypesImply, RoleTypesImply, NewTypesImply, ProfileWaits DEF Inv, NothingUnasked
<1> QED
  BY <1>1, Invariance, PTL
=============================================================================
