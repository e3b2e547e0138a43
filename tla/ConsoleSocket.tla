--------------------------- MODULE ConsoleSocket ---------------------------
(***************************************************************************)
(* The console tab of a server page and the one WebSocket of the panel     *)
(* that brings it the log: connecting, authenticating, subscribing, the    *)
(* buffer for lines, reconnecting, and commands.  The other end is a hub   *)
(* that answers messages in their order; what it does beyond that is in    *)
(* LogHub.  A line is known by its server.                                 *)
(***************************************************************************)
EXTENDS Naturals, Sequences, FiniteSets

CONSTANTS ConsoleServers,
          FirstConsole,     \* shown at first; bound: the user leaves it once
          MaxReconnects     \* maxReconnectAttempts, 5 in the code

ASSUME ConsoleAssumption == MaxReconnects \in Nat \ {0} /\ FirstConsole \in ConsoleServers

VARIABLES ws,       \* the client: connection, reconnecting, subscriptions, buffer
          console,  \* the component, and its calls on their way
          hubEnd,   \* what the hub knows of the connection
          toHub, fromHub

consoleVars == <<ws, console, hubEnd, toHub, fromHub>>

ConnectionStates == {"disconnected", "connecting", "connected", "authenticated"}
Msg(type, s) == [type |-> type, server |-> s]
Pipe == 2                   \* bound: messages on their way in a direction

\* What became of a subscription at the hub: the log is followed; the user may not see it, or it
\* is gone; the server had no container, so that there was nothing to follow; there is one now.
LogStates == {"none", "followed", "refused", "bare", "missed"}
NoLogs == [s \in ConsoleServers |-> "none"]

ConsoleTypeOK ==
    /\ ws.state \in ConnectionStates /\ ws.attempts \in 0..MaxReconnects
    /\ {ws.timer, ws.flushing, console.active, console.loading, console.calling, hubEnd.authenticated} \subseteq BOOLEAN
    /\ {ws.subs, ws.buffer, console.lines, console.fetching} \subseteq SUBSET ConsoleServers
    /\ hubEnd.log \in [ConsoleServers -> LogStates]
    /\ console.server \in ConsoleServers

ConsoleInit ==
    /\ ws = [state |-> "disconnected", attempts |-> 0, timer |-> FALSE, flushing |-> FALSE,
             subs |-> {}, buffer |-> {}]
    /\ console = [server |-> FirstConsole, active |-> FALSE, lines |-> {}, loading |-> FALSE,
                  calling |-> FALSE, fetching |-> {}]
    /\ hubEnd = [authenticated |-> FALSE, log |-> NoLogs]
    /\ toHub = <<>> /\ fromHub = <<>>

(***************************************************************************)
(* The client's own operations: w is the client before, and what they      *)
(* send is appended to the messages that are on their way.                 *)
(***************************************************************************)
SocketIsOpen(w) == w.state \in {"connected", "authenticated"}
IsReady(w) == w.state = "authenticated"

Subscribed(w, s) == [w EXCEPT !.subs = @ \cup {s}]
Unsubscribed(w, s) == [w EXCEPT !.subs = @ \ {s}]
IfReady(w, msgs) == IF IsReady(w) THEN msgs ELSE <<>>

Connected(w) == IF SocketIsOpen(w) \/ w.state = "connecting" THEN w
                ELSE [w EXCEPT !.state = "connecting"]

\* A handler takes the lines of the server it shows, and there is one while the tab is active.
Taken(c, servers) == IF c.active THEN servers \cap {c.server} ELSE {}
Flushed(c) == [c EXCEPT !.lines = @ \cup Taken(c, ws.buffer)]

CleanUp(w) == [w EXCEPT !.timer = FALSE, !.flushing = FALSE, !.buffer = {}]

\* Mutant: the attempts are counted without end.
ReconnectUnbounded(w) == [w EXCEPT !.attempts = @ + 1, !.timer = TRUE]

ScheduleReconnect(w) ==
    IF w.attempts >= MaxReconnects THEN w
    ELSE [w EXCEPT !.attempts = @ + 1, !.timer = TRUE]

\* onopen
SocketOpens ==
    /\ ws.state = "connecting"
    /\ ws' = [ws EXCEPT !.state = "connected", !.attempts = 0, !.flushing = TRUE]
    /\ toHub' = <<Msg("auth", FirstConsole)>>
    /\ UNCHANGED <<console, hubEnd, fromHub>>

\* onclose, of a socket that opened or did not; what was on its way is lost.
SocketCloses ==
    /\ ws.state # "disconnected"
    /\ ws' = ScheduleReconnect([CleanUp(ws) EXCEPT !.state = "disconnected"])
    /\ console' = Flushed(console)
    /\ hubEnd' = [authenticated |-> FALSE, log |-> NoLogs]
    /\ toHub' = <<>> /\ fromHub' = <<>>

ReconnectTimer ==
    /\ ws.timer
    /\ ws' = [Connected(ws) EXCEPT !.timer = FALSE]
    /\ UNCHANGED <<console, hubEnd, toHub, fromHub>>

FlushLogBuffer ==
    /\ ws.flushing /\ ws.buffer # {}
    /\ console' = Flushed(console)
    /\ ws' = [ws EXCEPT !.buffer = {}]
    /\ UNCHANGED <<hubEnd, toHub, fromHub>>

\* Mutant: after a reconnection only what is opened anew is asked for.
ResubscribeNone(w) == <<>>

\* resubscribeAll, in any order: it matters only that every server is named.
ResubscribeAll(w) ==
    CHOOSE msgs \in [1..Cardinality(w.subs) -> {Msg("subscribe", s) : s \in w.subs}] :
        {msgs[i].server : i \in DOMAIN msgs} = w.subs

\* handleMessage, for the messages that change something.
HandleMessage ==
    /\ fromHub # <<>>
    /\ fromHub' = Tail(fromHub)
    /\ LET m == Head(fromHub)
       IN  CASE m.type = "authOk" ->
                  /\ ws' = [ws EXCEPT !.state = "authenticated"]
                  /\ toHub' = toHub \o ResubscribeAll(ws)
                  /\ UNCHANGED console
             [] m.type = "logs" ->
                  /\ console' = IF Taken(console, {m.server}) = {} THEN console
                                ELSE [console EXCEPT !.lines = {m.server}]
                  /\ UNCHANGED <<ws, toHub>>
             [] m.type = "empty" ->                  \* logs, and there are none
                  /\ console' = IF Taken(console, {m.server}) = {} THEN console
                                ELSE [console EXCEPT !.lines = {}]
                  /\ UNCHANGED <<ws, toHub>>
             [] m.type = "log" ->
                  /\ ws' = [ws EXCEPT !.buffer = @ \cup {m.server}]
                  /\ UNCHANGED <<console, toHub>>
             [] m.type = "result" ->
                  /\ console' = IF Taken(console, {m.server}) = {} THEN console
                                ELSE [console EXCEPT !.loading = FALSE]
                  /\ UNCHANGED <<ws, toHub>>
             [] OTHER -> UNCHANGED <<ws, console, toHub>>
    /\ UNCHANGED hubEnd

(***************************************************************************)
(* The hub's end                                                           *)
(***************************************************************************)
HubAnswer(m) == fromHub' = Append(fromHub, m)

\* A server that is followed stays so, whatever a second subscription is answered.
HubLogs(s, how) ==
    hubEnd' = [hubEnd EXCEPT !.log[s] = IF @ = "followed" THEN @ ELSE how]

HubReads ==
    /\ toHub # <<>> /\ Len(fromHub) < Pipe
    /\ toHub' = Tail(toHub)
    /\ LET m == Head(toHub) IN
       \/ /\ m.type = "auth"
          /\ \/ hubEnd' = [hubEnd EXCEPT !.authenticated = TRUE] /\ HubAnswer(Msg("authOk", m.server))
             \/ HubAnswer(Msg("authFail", m.server)) /\ UNCHANGED hubEnd
       \/ /\ m.type = "subscribe"
          /\ \/ HubLogs(m.server, "followed") /\ HubAnswer(Msg("logs", m.server))
             \/ HubLogs(m.server, "refused") /\ HubAnswer(Msg("error", m.server))
             \/ HubLogs(m.server, "bare") /\ HubAnswer(Msg("empty", m.server))
       \/ /\ m.type = "unsubscribe"
          /\ hubEnd' = [hubEnd EXCEPT !.log[m.server] = "none"]
          /\ UNCHANGED fromHub
       \/ /\ m.type = "command"
          /\ HubAnswer(Msg("result", m.server))
          /\ UNCHANGED hubEnd
    /\ UNCHANGED <<ws, console>>

HubSendsLine(s) ==
    /\ hubEnd.log[s] = "followed" /\ fromHub = <<>>            \* bound: a line when nothing is on its way
    /\ HubAnswer(Msg("log", s))
    /\ UNCHANGED <<ws, console, hubEnd, toHub>>

\* The server is started for the first time: the hub is not told.
ContainerAppears(s) ==
    /\ hubEnd.log[s] = "bare"
    /\ hubEnd' = [hubEnd EXCEPT !.log[s] = "missed"]
    /\ UNCHANGED <<ws, console, toHub, fromHub>>

(***************************************************************************)
(* The component                                                           *)
(***************************************************************************)
\* setupWebSocket and cleanupWebSocket, run by the effect on `active'.
SetConsoleActive(b) ==
    /\ console.active # b /\ Len(toHub) <= 1
    /\ console' = [console EXCEPT !.active = b]
    /\ LET s == console.server IN
       /\ ws' = IF b THEN Subscribed(Connected(ws), s) ELSE Unsubscribed(ws, s)
       /\ toHub' = toHub \o IfReady(ws, <<Msg("unsubscribe", s)>>)
                         \o IF b THEN IfReady(ws, <<Msg("subscribe", s)>>) ELSE <<>>
    /\ UNCHANGED <<hubEnd, fromHub>>

\* The effect on server.id.
ConsoleServerChanges(s) ==
    /\ console.server = FirstConsole /\ s # FirstConsole /\ Len(toHub) <= 1
    /\ console' = [console EXCEPT !.server = s, !.lines = {}]
    /\ LET left == Unsubscribed(ws, console.server) IN
       ws' = IF console.active THEN Subscribed(left, s) ELSE left
    /\ toHub' = toHub \o IfReady(ws, <<Msg("unsubscribe", console.server)>>)
                      \o IF console.active THEN IfReady(ws, <<Msg("subscribe", s)>>) ELSE <<>>
    /\ UNCHANGED <<hubEnd, fromHub>>

\* Another number of lines: subscribe anew, or ask for them once.
HandleTailChange ==
    /\ console.active /\ Len(toHub) <= 1
    /\ IF IsReady(ws)
       THEN /\ ws' = Subscribed(ws, console.server)
            /\ toHub' = toHub \o <<Msg("unsubscribe", console.server), Msg("subscribe", console.server)>>
            /\ UNCHANGED console
       ELSE /\ ~console.loading
            /\ console' = [console EXCEPT !.fetching = @ \cup {console.server}]
            /\ UNCHANGED <<ws, toHub>>
    /\ UNCHANGED <<hubEnd, fromHub>>

SetConsole(c) == console' = c /\ UNCHANGED <<ws, hubEnd, toHub, fromHub>>

\* The buttons above the log, and the line below it.
CanFetch == console.active /\ ~console.loading
CanClear == console.active /\ console.lines # {}
CommandLine == console.active

\* The refresh button; not while a command waits.
FetchLogs ==
    /\ CanFetch
    /\ console.fetching = {}                          \* bound: one by the button
    /\ SetConsole([console EXCEPT !.fetching = @ \cup {console.server}])

LogsFetched(s) ==
    /\ s \in console.fetching
    /\ \/ SetConsole([console EXCEPT !.fetching = @ \ {s}, !.lines = {s}])
       \/ SetConsole([console EXCEPT !.fetching = @ \ {s}])

ClearConsole ==
    /\ CanClear
    /\ SetConsole([console EXCEPT !.lines = {}])

\* By the socket if it is ready; else by a call, whose end resets the flag.
SendCommand ==
    /\ CommandLine /\ toHub = <<>>                   \* bound: when the hub has read the rest
    /\ IF IsReady(ws)
       THEN /\ toHub' = Append(toHub, Msg("command", console.server))
            /\ console' = [console EXCEPT !.loading = TRUE]
       ELSE /\ console' = [console EXCEPT !.loading = TRUE, !.calling = TRUE]
            /\ UNCHANGED toHub
    /\ UNCHANGED <<ws, hubEnd, fromHub>>

CommandAnswered ==
    /\ console.calling
    /\ SetConsole([console EXCEPT !.loading = FALSE, !.calling = FALSE])

ConsoleNext ==
    \/ SocketOpens \/ SocketCloses \/ ReconnectTimer \/ FlushLogBuffer \/ HandleMessage
    \/ HubReads \/ \E s \in ConsoleServers : HubSendsLine(s) \/ ContainerAppears(s) \/ LogsFetched(s)
    \/ \E b \in BOOLEAN : SetConsoleActive(b)
    \/ \E s \in ConsoleServers : ConsoleServerChanges(s)
    \/ HandleTailChange \/ FetchLogs \/ ClearConsole \/ SendCommand \/ CommandAnswered

\* Timers fire, messages are read, and a socket that is being opened opens or closes.
ConsoleFairness ==
    /\ WF_consoleVars(ReconnectTimer) /\ WF_consoleVars(FlushLogBuffer)
    /\ WF_consoleVars(HandleMessage) /\ WF_consoleVars(HubReads)
    /\ WF_consoleVars(CommandAnswered)
    /\ WF_consoleVars(SocketOpens \/ (ws.state = "connecting" /\ SocketCloses))

ConsoleSpec == ConsoleInit /\ [][ConsoleNext]_consoleVars /\ ConsoleFairness

(***************************************************************************)
(* Properties                                                              *)
(***************************************************************************)
\* The client subscribes to the server whose console is looked at, and to no other.
SubscribesToShown == ws.subs = IF console.active THEN {console.server} ELSE {}

\* Once the hub has read everything, it follows no server but those the client is subscribed to,
\* and each of these it follows, has refused, or answered when the server had no container:
\* across reconnections, and whatever was asked for before the authentication.
HubFollows ==
    IsReady(ws) /\ toHub = <<>>
        => \A s \in ConsoleServers :
             /\ hubEnd.log[s] = "followed" => s \in ws.subs
             /\ s \in ws.subs => hubEnd.log[s] # "none"

\* What the hub's comment promises of a server that had no container when it was subscribed to
\* and was started since: the client subscribes anew.  The code breaks this: the page subscribes
\* when it is shown, when its server changes and when the user asks for another number of lines,
\* not when the status of the server changes.
StartedIsFollowed ==
    \A s \in ConsoleServers :
        IsReady(ws) /\ hubEnd.log[s] = "missed" ~> (IsReady(ws) => hubEnd.log[s] # "missed")
=============================================================================
