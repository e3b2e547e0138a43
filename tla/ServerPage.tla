----------------------------- MODULE ServerPage -----------------------------
(***************************************************************************)
(* The servers as the panel shows them: the dashboard, the list of         *)
(* servers, the page of one server, and the store behind the sidebar that  *)
(* all of them write.  The page of a server stays when another one is      *)
(* chosen in the sidebar: the identifier in its address changes under      *)
(* calls that are on their way.                                            *)
(*                                                                         *)
(* What the backend does to a server is in ServerLifecycle; here its       *)
(* status simply changes.                                                  *)
(***************************************************************************)
EXTENDS Naturals, FiniteSets

CONSTANTS PageServers,
          TpsSamples,   \* ticks per second a running server may be seen with; 0 is unknown
          FirstOfPage,  \* bound: the server whose status changes
          NoServer, Gone

ASSUME PageAssumption == FirstOfPage \in PageServers /\ TpsSamples \subseteq Nat

VARIABLES rack,     \* the servers at the backend: a status, or Gone
          park,     \* serversStore: what the sidebar and the list show
          view,     \* the page that is shown
          asked     \* calls on their way, some of them served already

serverPageVars == <<rack, park, view, asked>>

Statuses == {"stopped", "running", "error"}
Racks == [PageServers -> Statuses \cup {Gone}]
Pages == {"home", "list", "server"}
None == [s \in PageServers |-> Gone]

ServerPageTypeOK ==
    /\ rack \in Racks /\ park \in Racks
    /\ view.at \in Pages /\ view.id \in PageServers /\ view.shown \in PageServers \cup {NoServer}
    /\ view.status \in Statuses \cup {Gone} /\ {view.loading, view.acting} \subseteq BOOLEAN
    /\ view.dash \subseteq Statuses

PageOf(at, id) ==
    [at |-> at, id |-> id, shown |-> NoServer, status |-> Gone, loading |-> TRUE,
     acting |-> FALSE, dash |-> {}]

\* `for' is who waits; `seen' is what the backend answered, Gone in it for an error.
Ask(op, id, for) == [op |-> op, id |-> id, for |-> for, seen |-> None, served |-> FALSE]
GetServer(id, for) == Ask("get", id, for)
ListServers(for) == Ask("list", CHOOSE s \in PageServers : TRUE, for)

\* bound: a call is made when no other is on its way than those of the sidebar.
MayAsk == \A c \in asked : c.for = "sidebar"

\* Every page asks for what it shows when it is mounted; the list shows the store.
Asked(at, id) == CASE at = "home" -> {ListServers("home")}
                   [] at = "server" -> {GetServer(id, "poll")}
                   [] OTHER -> {}

ServerPageInit ==
    /\ rack = [s \in PageServers |-> "stopped"]
    /\ park = None
    /\ \E at \in Pages :
         view = PageOf(at, FirstOfPage) /\ asked = Asked(at, FirstOfPage) \cup {ListServers("sidebar")}

(***************************************************************************)
(* The backend                                                             *)
(***************************************************************************)
\* What it answers is what there is now, and may arrive later.
ServesRead(c) ==
    /\ c.op \in {"get", "list"} /\ ~c.served
    /\ LET seen == IF c.op = "get" THEN [None EXCEPT ![c.id] = rack[c.id]] ELSE rack
       IN  asked' = (asked \ {c}) \cup {[c EXCEPT !.seen = seen, !.served = TRUE]}
    /\ UNCHANGED <<rack, park, view>>

RackChanges(s) ==
    /\ rack[s] # Gone
    /\ \E st \in (IF s = FirstOfPage THEN Statuses ELSE {}) \cup {Gone} : rack' = [rack EXCEPT ![s] = st]
    /\ UNCHANGED <<park, view, asked>>

(***************************************************************************)
(* The store                                                               *)
(***************************************************************************)
UpdateServer(p, s, st) == [p EXCEPT ![s] = st]
RemoveServer(p, s) == [p EXCEPT ![s] = Gone]
ListSet(seen) == seen

(***************************************************************************)
(* Answers                                                                 *)
(***************************************************************************)
Answered(c) == asked' = asked \ {c}

\* Mutant: the page shows every answer.
GetArrivesUnguarded(c) ==
    /\ c.op = "get" /\ c.served /\ view.at = "server"
    /\ IF c.seen[c.id] # Gone
       THEN /\ view' = [view EXCEPT !.shown = c.id, !.status = c.seen[c.id], !.loading = FALSE]
            /\ park' = UpdateServer(park, c.id, c.seen[c.id])
       ELSE UNCHANGED <<view, park>>
    /\ Answered(c) /\ UNCHANGED rack

\* The page shows an answer only if it is still the page of that server.
GetArrives(c) ==
    /\ c.op = "get" /\ c.served
    /\ LET here == view.at = "server" /\ view.id = c.id
           own == c.for # "left"
           v == IF c.for = "action" THEN [view EXCEPT !.acting = FALSE] ELSE view
       IN  IF here /\ c.seen[c.id] # Gone
           THEN /\ view' = IF own THEN [v EXCEPT !.shown = c.id, !.status = c.seen[c.id], !.loading = FALSE]
                           ELSE view
                /\ park' = UpdateServer(park, c.id, c.seen[c.id])
           ELSE /\ view' = IF own /\ here /\ view.shown = NoServer THEN [v EXCEPT !.loading = FALSE] ELSE v
                /\ UNCHANGED park
    /\ Answered(c) /\ UNCHANGED rack

\* fetchServers of the sidebar, and the dashboard, which asks for the figures too.
ListArrives(c) ==
    /\ c.op = "list" /\ c.served
    /\ park' = ListSet(c.seen)
    /\ view' = IF c.for = "home" /\ view.at = "home"
               THEN [view EXCEPT !.loading = FALSE, !.dash = {c.seen[s] : s \in PageServers} \ {Gone}]
               ELSE view
    /\ Answered(c) /\ UNCHANGED rack

\* The request or the answer is lost.
ReadFails(c) ==
    /\ c.op \in {"get", "list"}
    /\ view' = IF c.op = "list"
               THEN IF c.for = "home" /\ view.at = "home" THEN [view EXCEPT !.loading = FALSE] ELSE view
               ELSE [view EXCEPT !.acting = @ /\ c.for # "action",
                                 !.loading = @ /\ ~(c.for # "left" /\ view.id = c.id /\ view.shown = NoServer)]
    /\ Answered(c) /\ UNCHANGED <<rack, park>>

\* Mutant: a failed action leaves the flag.
ActForgets(c) ==
    /\ c.op = "act"
    /\ asked' = (asked \ {c}) \cup IF c.for = "page" THEN {GetServer(view.id, "poll")} ELSE {}
    /\ UNCHANGED <<rack, park, view>>

\* The page reads the server anew, the list does not.
ActArrives(c) ==
    /\ c.op = "act"
    /\ \/ /\ c.for = "page" /\ rack[c.id] # Gone
          /\ asked' = (asked \ {c}) \cup {GetServer(view.id, "action")}
          /\ UNCHANGED view
       \/ /\ asked' = asked \ {c}
          /\ view' = [view EXCEPT !.acting = FALSE]
    /\ UNCHANGED <<rack, park>>

\* A deletion takes the server out of the store, and its page leaves for the list.
DeleteArrives(c) ==
    /\ c.op = "delete"
    /\ \/ /\ rack' = [rack EXCEPT ![c.id] = Gone]
          /\ park' = RemoveServer(park, c.id)
          /\ view' = IF c.for = "page" THEN PageOf("list", FirstOfPage) ELSE [view EXCEPT !.acting = FALSE]
       \/ view' = [view EXCEPT !.acting = FALSE] /\ UNCHANGED <<rack, park>>
    /\ Answered(c)

(***************************************************************************)
(* The user, and the timers                                                *)
(***************************************************************************)
\* The calls that outlive the page that made them: a deletion still acts on the page that is
\* shown, an answer still reaches the store, of the other actions nothing is left to see.
Left(calls) == {[c EXCEPT !.for = IF @ = "sidebar" \/ c.op = "delete" THEN @ ELSE "left"] :
                  c \in {d \in calls : d.op # "act"}}

\* The links of the sidebar, of the dashboard and of the list.
Navigate(at, id) ==
    /\ at # view.at \/ id # view.id
    /\ Cardinality(asked) <= 1     \* bound
    /\ IF at = "server" THEN park[id] # Gone ELSE id = FirstOfPage
    /\ IF at = "server" /\ view.at = "server"
       THEN view' = [view EXCEPT !.id = id, !.loading = TRUE] /\ asked' = asked \cup Asked(at, id)
       ELSE view' = PageOf(at, id) /\ asked' = Left(asked) \cup Asked(at, id)
    /\ UNCHANGED <<rack, park>>

\* Every five seconds.
PollPage ==
    /\ view.at = "server" /\ MayAsk
    /\ asked' = asked \cup {GetServer(view.id, "poll")}
    /\ UNCHANGED <<rack, park, view>>

\* Every ten seconds.
PollSidebar ==
    /\ asked = {}     \* bound
    /\ asked' = asked \cup {ListServers("sidebar")}
    /\ UNCHANGED <<rack, park, view>>

RefreshDashboard ==
    /\ view.at = "home" /\ ~view.loading /\ MayAsk
    /\ asked' = asked \cup {ListServers("home")}
    /\ UNCHANGED <<rack, park, view>>

\* The buttons by the status that is shown.
PageOffers(st) == CASE st = "stopped" -> {"start"}
                    [] st = "error" -> {"restart", "stop"}
                    [] st = "running" -> {"stop", "restart"}
                    [] OTHER -> {}
PageMenu == {"recreate", "delete"}
ListOffers(st) == PageMenu \cup IF st \in {"stopped", "error"} THEN {"start"} ELSE {"stop", "restart"}

\* What the backend does on each of the actions is in ServerLifecycle; the page waits for all alike.
OpOf(a) == IF a = "delete" THEN "delete" ELSE "act"

HandleServerAction ==
    /\ view.at = "server" /\ view.shown # NoServer /\ ~view.acting /\ MayAsk
    /\ \E a \in PageOffers(view.status) \cup PageMenu :
         asked' = asked \cup {Ask(OpOf(a), view.shown, "page")}
    /\ view' = [view EXCEPT !.acting = TRUE]
    /\ UNCHANGED <<rack, park>>

HandleListAction(s) ==
    /\ view.at = "list" /\ park[s] # Gone /\ ~view.acting /\ MayAsk
    /\ \E a \in ListOffers(park[s]) : asked' = asked \cup {Ask(OpOf(a), s, "list")}
    /\ view' = [view EXCEPT !.acting = TRUE]
    /\ UNCHANGED <<rack, park>>

ServerPageNext ==
    \/ \E c \in asked : \/ ServesRead(c) \/ GetArrives(c) \/ ListArrives(c) \/ ReadFails(c)
                        \/ ActArrives(c) \/ DeleteArrives(c)
    \/ \E s \in PageServers : RackChanges(s) \/ HandleListAction(s)
    \/ \E at \in Pages, id \in PageServers : Navigate(at, id)
    \/ PollPage \/ PollSidebar \/ RefreshDashboard \/ HandleServerAction

\* Every call ends.
ServerPageFairness ==
    \A f \in {"sidebar", "home", "poll", "action", "page", "list", "left"} :
       /\ WF_serverPageVars(\E c \in asked : c.for = f /\ ServesRead(c))
       /\ WF_serverPageVars(\E c \in asked : c.for = f /\ (GetArrives(c) \/ ListArrives(c) \/ ReadFails(c)))
       /\ WF_serverPageVars(\E c \in asked : c.for = f /\ (ActArrives(c) \/ DeleteArrives(c)))

ServerPageSpec == ServerPageInit /\ [][ServerPageNext]_serverPageVars /\ ServerPageFairness

(***************************************************************************)
(* What the dashboard makes of a list                                      *)
(***************************************************************************)
Healthy(d) == d.status = "running" /\ (d.tps = 0 \/ d.tps >= 18)
Warning(d) == d.status = "running" /\ d.tps # 0 /\ d.tps < 18 /\ d.tps >= 15
Critical(d) == d.status = "error" \/ (d.status = "running" /\ d.tps # 0 /\ d.tps < 15)

(***************************************************************************)
(* Properties                                                              *)
(***************************************************************************)
\* A page that has finished loading shows the server of its address, whatever late answers came.
ShownIsRequested ==
    view.at = "server" /\ ~view.loading => view.shown \in {view.id, NoServer}

\* A server that runs or failed is in exactly one group of the dashboard, a stopped one in none.
GroupsPartition ==
    \A st \in view.dash, tps \in TpsSamples :
        LET d == [status |-> st, tps |-> tps]
            groups == {g \in 1 .. 3 : <<Healthy(d), Warning(d), Critical(d)>>[g]}
        IN  Cardinality(groups) = IF st = "stopped" THEN 0 ELSE 1
=============================================================================
