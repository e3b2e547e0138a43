-------------------------------- MODULE LogHub --------------------------------
(***************************************************************************)
(* How the log of one server reaches browsers: streams read a container's  *)
(* log and broadcast each line to channels (pkg/logger/log_streamer.go); a *)
(* client's channel is forwarded to its socket (internal/ws/hub.go).       *)
(*                                                                         *)
(* Meanwhile the container is started, stopped and replaced                *)
(* (internal/docker/client.go, internal/rpc/services).                     *)
(***************************************************************************)
EXTENDS Naturals, FiniteSets

CONSTANTS
  Clients, Containers, NoContainer,
  Streams,  \* bound: goroutines of streamLogs alive at one time
  NoStream,
  Chans,    \* bound: channels ever made
  NoChan,
  Buffer,   \* lines a channel holds
  Changes,  \* what befalls the container: "exit", "stop", "recreate", "config", "delete"
  MaxLines, MaxChanges,  \* bounds: lines a container prints, changes to it
  Leaves    \* ways clients take their leave: "unsubscribe", "disconnect"

ASSUME NoneAssumption == NoContainer \notin Containers /\ NoStream \notin Streams /\ NoChan \notin Chans
ASSUME BoundAssumption == {Buffer, MaxLines, MaxChanges} \subseteq Nat

VARIABLES
  container, \* the container the server's row names
  successor, \* the container to be saved in its place, or NoContainer
  restarts,  \* whether RecreateContainer starts it before that
  up,        \* the containers that run
  printed,   \* [Containers -> how many lines its log has]
  changes,   \* changes so far
  stream,    \* [Streams -> what streamLogs is doing]
  current,   \* [Containers -> its stream in LogStreamer.streams, or NoStream]
  subscribers, \* [Containers -> set of channels]
  owner,     \* channel made -> the client whose forwardLogs ranges over it
  closed,    \* the channels that were closed
  buffered,  \* [Chans -> set of lines]
  socket,    \* [Clients -> "open", "cleaned" or "closed": its send channel]
  step, saw, \* [Clients -> point of handleSubscribe], the container it works with
  subscription, \* [Clients -> its channel for the server, or NoChan]
  got, missed,  \* [Clients -> lines sent to the browser, lines a full channel skipped]
  panicked   \* a send on a closed channel ended the process

docker  == <<container, successor, restarts, up, printed, changes>>
streams == <<stream, current>>
channels == <<subscribers, owner, closed, buffered>>
clients == <<socket, step, saw, subscription>>
outcome == <<got, missed, panicked>>
vars == <<docker, streams, channels, clients, outcome>>

Lines == Containers \X (1..MaxLines)

NoLog == [of |-> NoContainer, live |-> FALSE, active |-> FALSE, follow |-> FALSE, at |-> "ended",
          next |-> 0, left |-> {}]

Init ==
  /\ container = NoContainer /\ successor = NoContainer /\ restarts = FALSE /\ up = {}
  /\ printed = [c \in Containers |-> 0] /\ changes = 0
  /\ stream = [s \in Streams |-> NoLog] /\ current = [c \in Containers |-> NoStream]
  /\ subscribers = [c \in Containers |-> {}]
  /\ owner = << >> /\ closed = {} /\ buffered = [h \in Chans |-> {}]
  /\ socket = [k \in Clients |-> "open"] /\ step = [k \in Clients |-> "idle"]
  /\ saw = [k \in Clients |-> NoContainer] /\ subscription = [k \in Clients |-> NoChan]
  /\ got = [k \in Clients |-> {}] /\ missed = [k \in Clients |-> {}]
  /\ panicked = FALSE

-----------------------------------------------------------------------------
(* LogStreamer.                                                             *)

Spare == {s \in Streams : stream[s].at = "ended" /\ \A c \in Containers : current[c] # s}

\* A new stream begins with the log's head (its last 100 lines).
StartStreaming(c) ==
  IF current[c] # NoStream /\ stream[current[c]].active
  THEN UNCHANGED streams
  ELSE \E s \in Spare \cup ({current[c]} \ {NoStream}) :
         /\ stream[s].at = "ended"
         /\ stream' = [stream EXCEPT ![s] = [NoLog EXCEPT !.of = c, !.live = TRUE,
                                             !.active = TRUE, !.at = "open"]]
         /\ current' = [current EXCEPT ![c] = s]

\* The goroutine goes on until it looks at its context. A run that is over
\* ends what follows it.
Stopped(c, cancel) ==
  [s \in Streams |->
     IF stream[s].of # c THEN stream[s]
     ELSE [stream[s] EXCEPT !.follow = FALSE,
                            !.active = @ /\ ~(cancel /\ s = current[c]),
                            !.live = @ /\ ~(cancel /\ s = current[c])]]

Advance(s, log) ==
  /\ stream' = [stream EXCEPT ![s] = log]
  /\ UNCHANGED <<docker, current, channels, clients, outcome>>

\* Docker follows the log of a container only if it runs by now.
OpenLog(s) ==
  /\ stream[s].at = "open"
  /\ Advance(s, [stream[s] EXCEPT !.at = "read", !.follow = stream[s].of \in up])

\* A line is read and kept, unless the context is done by then.
ReadLine(s) ==
  /\ stream[s].at = "read" /\ stream[s].live /\ stream[s].next < printed[stream[s].of]
  /\ Advance(s, [stream[s] EXCEPT !.next = @ + 1, !.at = "copy"])

\* Mutant: a log that is followed ends where it ends now.
EndOfLog_NotFollowed(s) ==
  /\ stream[s].at = "read"
  /\ ~stream[s].live \/ stream[s].next = printed[stream[s].of]
  /\ Advance(s, [stream[s] EXCEPT !.at = "ended", !.active = FALSE])

\* The context is done, or nothing is left of a log that is not followed.
EndOfLog(s) ==
  /\ stream[s].at = "read"
  /\ ~stream[s].live \/ (~stream[s].follow /\ stream[s].next = printed[stream[s].of])
  /\ Advance(s, [stream[s] EXCEPT !.at = "ended", !.active = FALSE])

\* broadcast copies the set of channels under its lock ...
CopySubscribers(s) ==
  LET targets == subscribers[stream[s].of] IN
  /\ stream[s].at = "copy"
  /\ Advance(s, [stream[s] EXCEPT !.left = targets, !.at = IF targets = {} THEN "read" ELSE "send"])

\* ... and sends outside it: a full channel is skipped, a closed one panics.
Send(s, h, rest) ==
  LET line == <<stream[s].of, stream[s].next>> IN
  /\ stream' = [stream EXCEPT ![s].left = rest, ![s].at = IF rest = {} THEN "read" ELSE "send"]
  /\ panicked' = (h \in closed)
  /\ IF h \notin closed /\ Cardinality(buffered[h]) < Buffer
     THEN buffered' = [buffered EXCEPT ![h] = @ \cup {line}] /\ UNCHANGED missed
     ELSE missed' = [missed EXCEPT ![owner[h]] = @ \cup {line}] /\ UNCHANGED buffered
  /\ UNCHANGED <<docker, current, subscribers, owner, closed, clients, got>>

SendLine(s) ==
  /\ stream[s].at = "send"
  /\ \E h \in stream[s].left : Send(s, h, stream[s].left \ {h})

-----------------------------------------------------------------------------
(* A client's connection: one goroutine serves its messages in turn.        *)

\* Mutant: the kept log goes out before the channel is registered.
After_LogsFirst == [start |-> "snapshot", snapshot |-> "subscribe", subscribe |-> "idle"]

\* The order of handleSubscribe: registered first, the kept log after that.
After == [start |-> "subscribe", subscribe |-> "snapshot", snapshot |-> "idle"]

Proceeds(k, point) == step[k] = point /\ step' = [step EXCEPT ![k] = After[point]]

Serves(k) == socket[k] = "open" /\ step[k] = "idle"

\* Without a container there is nothing to listen to.
HandleSubscribe(k) ==
  /\ Serves(k) /\ container # NoContainer
  /\ step' = [step EXCEPT ![k] = "start"] /\ saw' = [saw EXCEPT ![k] = container]
  /\ UNCHANGED <<docker, streams, channels, socket, subscription, outcome>>

EnsureStream(k) ==
  /\ Proceeds(k, "start")
  /\ StartStreaming(saw[k])
  /\ UNCHANGED <<docker, channels, socket, saw, subscription, outcome>>

\* A client that has a channel for the server keeps that.
Subscribe(k) ==
  /\ Proceeds(k, "subscribe")
  /\ IF subscription[k] # NoChan
     THEN UNCHANGED <<channels, subscription>>
     ELSE \E h \in Chans \ DOMAIN owner :
            /\ owner' = [g \in DOMAIN owner \cup {h} |-> IF g = h THEN k ELSE owner[g]]
            /\ subscribers' = [subscribers EXCEPT ![saw[k]] = @ \cup {h}]
            /\ subscription' = [subscription EXCEPT ![k] = h]
            /\ UNCHANGED <<closed, buffered>>
  /\ UNCHANGED <<docker, streams, socket, saw, outcome>>

GetLogs(c) == IF current[c] = NoStream THEN {} ELSE {<<c, n>> : n \in 1..stream[current[c]].next}

SendLogs(k) ==
  /\ Proceeds(k, "snapshot")
  /\ got' = [got EXCEPT ![k] = @ \cup GetLogs(saw[k])]
  /\ UNCHANGED <<docker, streams, channels, socket, saw, subscription, missed, panicked>>

\* forwardLogs drains the channel, also after it was closed.
ForwardLog(h) ==
  /\ \E line \in buffered[h] :
       /\ buffered' = [buffered EXCEPT ![h] = @ \ {line}]
       /\ panicked' = (socket[owner[h]] = "closed")
       /\ got' = IF panicked' THEN got ELSE [got EXCEPT ![owner[h]] = @ \cup {line}]
  /\ UNCHANGED <<docker, streams, subscribers, owner, closed, clients, missed>>

Close(h) == closed' = closed \cup {h} /\ UNCHANGED <<owner, buffered>>

\* LogStreamer.Unsubscribe closes the channel if anybody listens to c.
Unsubscribe(c, h) ==
  IF subscribers[c] = {} THEN UNCHANGED channels
  ELSE subscribers' = [subscribers EXCEPT ![c] = @ \ {h}] /\ Close(h)

\* handleUnsubscribe looks the channel up under the container of the moment.
HandleUnsubscribe(k) ==
  LET h == subscription[k] IN
  /\ "unsubscribe" \in Leaves /\ Serves(k) /\ h # NoChan
  /\ subscription' = [subscription EXCEPT ![k] = NoChan]
  /\ IF container # NoContainer THEN Unsubscribe(container, h)
                                ELSE Close(h) /\ UNCHANGED subscribers
  /\ UNCHANGED <<docker, streams, socket, step, saw, outcome>>

\* cleanup, when readPump ends, does so too.
CleanUp(k) ==
  LET h == subscription[k] IN
  /\ "disconnect" \in Leaves /\ Serves(k)
  /\ socket' = [socket EXCEPT ![k] = "cleaned"]
  /\ subscription' = [subscription EXCEPT ![k] = NoChan]
  /\ IF h # NoChan /\ container # NoContainer THEN Unsubscribe(container, h)
                                              ELSE UNCHANGED channels
  /\ UNCHANGED <<docker, streams, step, saw, outcome>>

\* The hub takes the client from unregister and closes its send channel.
Unregister(k) ==
  /\ socket[k] = "cleaned" /\ socket' = [socket EXCEPT ![k] = "closed"]
  /\ UNCHANGED <<docker, streams, channels, step, saw, subscription, outcome>>

-----------------------------------------------------------------------------
(* The server's container.                                                  *)

Change(what) == what \in Changes /\ changes < MaxChanges /\ changes' = changes + 1

CreateContainer ==
  /\ container = NoContainer /\ changes = 0 /\ container' \in Containers
  /\ UNCHANGED <<successor, restarts, up, printed, changes, streams, channels, clients, outcome>>

\* StartServer, or the end of RecreateContainer for a server that ran.
StartContainer(c) ==
  /\ c \notin up /\ IF successor = NoContainer THEN c = container ELSE restarts /\ c = successor
  /\ up' = up \cup {c}
  /\ StartStreaming(c)
  /\ UNCHANGED <<container, successor, restarts, printed, changes, channels, clients, outcome>>

\* StopServer cancels the stream; a server that exits does not.
StopContainer ==
  /\ container \in up /\ successor = NoContainer /\ up' = up \ {container}
  /\ \/ Change("stop") /\ stream' = Stopped(container, TRUE)
     \/ Change("exit") /\ stream' = Stopped(container, FALSE)
  /\ UNCHANGED <<container, successor, restarts, printed, current, channels, clients, outcome>>

\* Mutant: the set is copied and the old one is not deleted.
MigrateSubscribers_Copies(old, new) ==
  subscribers' = [subscribers EXCEPT ![new] = @ \cup subscribers[old]]

MigrateSubscribers(old, new) ==
  subscribers' = [subscribers EXCEPT ![new] = @ \cup subscribers[old], ![old] = {}]

\* RecreateContainer migrates the subscribers, recreateContainer of the
\* configuration service does not.
ReplaceContainer ==
  /\ container # NoContainer /\ successor = NoContainer
  /\ successor' \in {c \in Containers : printed[c] = 0 /\ c # container}
  /\ up' = up \ {container} /\ stream' = Stopped(container, container \in up)
  /\ \/ /\ Change("recreate") /\ restarts' = (container \in up)
        /\ MigrateSubscribers(container, successor')
     \/ Change("config") /\ restarts' = FALSE /\ UNCHANGED subscribers
  /\ UNCHANGED <<container, printed, current, owner, closed, buffered, clients, outcome>>

\* The row is saved once the new container runs, if it is to run.
SaveContainer ==
  /\ successor # NoContainer /\ (restarts => successor \in up)
  /\ container' = successor /\ successor' = NoContainer /\ restarts' = FALSE
  /\ UNCHANGED <<up, printed, changes, streams, channels, clients, outcome>>

DeleteServer ==
  /\ Change("delete") /\ container # NoContainer /\ successor = NoContainer
  /\ up' = up \ {container} /\ container' = NoContainer
  /\ stream' = Stopped(container, TRUE)
  /\ UNCHANGED <<successor, restarts, printed, current, channels, clients, outcome>>

Prints(c) ==
  /\ c \in up /\ printed[c] < MaxLines /\ printed' = [printed EXCEPT ![c] = @ + 1]
  /\ UNCHANGED <<container, successor, restarts, up, changes, streams, channels, clients, outcome>>

-----------------------------------------------------------------------------
StreamLogs(s) ==
  ~panicked /\ (OpenLog(s) \/ ReadLine(s) \/ EndOfLog(s) \/ CopySubscribers(s) \/ SendLine(s))

GoesOn(k) == ~panicked /\ (EnsureStream(k) \/ Subscribe(k) \/ SendLogs(k) \/ Unregister(k))

Receives(k) == ~panicked /\ (HandleSubscribe(k) \/ HandleUnsubscribe(k) \/ CleanUp(k))

ForwardLogs(h) == ~panicked /\ ForwardLog(h)

Server ==
  /\ ~panicked
  /\ \/ CreateContainer \/ StopContainer \/ ReplaceContainer \/ SaveContainer \/ DeleteServer
     \/ \E c \in Containers : StartContainer(c) \/ Prints(c)

Next ==
  \/ \E s \in Streams : StreamLogs(s)
  \/ \E k \in Clients : GoesOn(k) \/ Receives(k)
  \/ \E h \in Chans : ForwardLogs(h)
  \/ Server

Spec == Init /\ [][Next]_vars

\* Goroutines go on, and browsers read what they are sent.
FairSpec == /\ Spec
            /\ \A s \in Streams : WF_vars(StreamLogs(s))
            /\ \A k \in Clients : WF_vars(GoesOn(k))
            /\ \A h \in Chans : WF_vars(ForwardLogs(h))

-----------------------------------------------------------------------------
(* Properties.                                                              *)

\* The variables keep their form, and a channel is registered for one container
\* at most (Subscribe, MigrateSubscribers).
TypeOK ==
  /\ {container, successor} \subseteq Containers \cup {NoContainer}
  /\ restarts \in BOOLEAN /\ changes \in 0..MaxChanges
  /\ up \subseteq Containers /\ printed \in [Containers -> 0..MaxLines]
  /\ \A s \in Streams : /\ stream[s].at \in {"open", "read", "copy", "send", "ended"}
                        /\ stream[s].next \in 0..MaxLines /\ stream[s].left \subseteq Chans
                        /\ stream[s].of = NoContainer => stream[s] = NoLog
  /\ current \in [Containers -> Streams \cup {NoStream}]
  /\ \A c, d \in Containers : c # d => subscribers[c] \cap subscribers[d] = {}
  /\ DOMAIN owner \subseteq Chans /\ closed \subseteq DOMAIN owner
  /\ buffered \in [Chans -> SUBSET Lines]
  /\ socket \in [Clients -> {"open", "cleaned", "closed"}]
  /\ step \in [Clients -> DOMAIN After \cup {"idle"}]
  /\ saw \in [Clients -> Containers \cup {NoContainer}]
  /\ subscription \in [Clients -> Chans \cup {NoChan}]
  /\ got \in [Clients -> SUBSET Lines] /\ missed \in [Clients -> SUBSET Lines]
  /\ panicked \in BOOLEAN

\* The line is in a stream's hands or in the channel.
Coming(h, line) ==
  \/ line \in buffered[h]
  \/ \E s \in Streams :
       /\ line = <<stream[s].of, stream[s].next>>
       /\ \/ stream[s].at = "copy" /\ h \in subscribers[stream[s].of]
          \/ h \in stream[s].left

Listens(k, c) == step[k] = "idle" /\ subscription[k] \in subscribers[c]

\* No line falls between the log a client was sent and the lines it is sent
\* one by one: what the stream of its container has kept was sent, is coming,
\* or met a full channel (handleSubscribe, broadcast).
NoLineIsLost ==
  \A k \in Clients, c \in Containers : Listens(k, c) =>
    \A line \in GetLogs(c) : line \in got[k] \cup missed[k] \/ Coming(subscription[k], line)

Follows(c) == current[c] # NoStream /\ stream[current[c]].follow

\* What a container prints while its log is followed reaches each browser that
\* listens, unless its channel was full, it left, or the container stopped
\* (streamLogs, broadcast, forwardLogs).
LinesArrive ==
  \A line \in Lines, k \in Clients :
    (Listens(k, line[1]) /\ Follows(line[1]) /\ line[2] <= printed[line[1]])
      ~> (\/ line \in got[k] \cup missed[k]
          \/ subscription[k] \notin subscribers[line[1]] \/ line[1] \notin up \/ panicked)

\* The code breaks this (ws/hub.go:438): "cleanup removes all subscriptions when client disconnects".
SubscriptionsRemoved ==
  \A k \in Clients, c \in Containers :
    socket[k] # "open" => \A h \in subscribers[c] : owner[h] # k
=============================================================================
