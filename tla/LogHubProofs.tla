------------------------------ MODULE LogHubProofs ------------------------------
(***************************************************************************)
(* Theorems about LogHub for any number of browsers, containers, streams   *)
(* and channels and every value of the bounds.                             *)
(*                                                                         *)
(* That no line is lost holds between the calls of a browser.  What holds  *)
(* all the time (Delivered) leaves out one browser and one container: the  *)
(* one it has just registered with and whose kept log is about to be sent. *)
(* It rests on facts about streams (none has read more than was printed,   *)
(* the one that keeps a container's log is of that container) and about    *)
(* channels (each is registered once and belongs to its browser).          *)
(***************************************************************************)
EXTENDS LogHub, TLAPS

DockerOK ==
  /\ container \in Containers \cup {NoContainer} /\ successor \in Containers \cup {NoContainer}
  /\ restarts \in BOOLEAN /\ changes \in 0..MaxChanges
  /\ up \subseteq Containers /\ printed \in [Containers -> 0..MaxLines]

Log == [of : Containers \cup {NoContainer}, live : BOOLEAN, active : BOOLEAN, follow : BOOLEAN,
        at : {"open", "read", "copy", "send", "ended"}, next : 0..MaxLines, left : SUBSET Chans]

\* A stream has read no more than its container printed, has read a line while
\* it hands one on, and holds channels only then.
LogOK(log) ==
  /\ log \in Log
  /\ log.of = NoContainer => log = NoLog
  /\ log.of # NoContainer => log.next <= printed[log.of]
  /\ log.at \in {"copy", "send"} => log.next > 0
  /\ log.at # "send" => log.left = {}

StreamsOK ==
  /\ DOMAIN stream = Streams /\ \A s \in Streams : LogOK(stream[s])
  /\ current \in [Containers -> Streams \cup {NoStream}]
  /\ \A c \in Containers : current[c] # NoStream => stream[current[c]].of = c

\* Made channels have a browser, and are registered for one container at most.
ChannelsOK ==
  /\ DOMAIN owner \subseteq Chans /\ owner \in [DOMAIN owner -> Clients]
  /\ closed \subseteq DOMAIN owner /\ buffered \in [Chans -> SUBSET Lines]
  /\ subscribers \in [Containers -> SUBSET DOMAIN owner]
  /\ \A c, d \in Containers : c # d => subscribers[c] \cap subscribers[d] = {}

\* A browser's channel is its own, and it has none once its connection is over.
ClientsOK ==
  /\ socket \in [Clients -> {"open", "cleaned", "closed"}]
  /\ step \in [Clients -> {"start", "subscribe", "snapshot", "idle"}]
  /\ saw \in [Clients -> Containers \cup {NoContainer}]
  /\ subscription \in [Clients -> Chans \cup {NoChan}]
  /\ \A k \in Clients :
       /\ subscription[k] # NoChan => subscription[k] \in DOMAIN owner /\ owner[subscription[k]] = k
       /\ step[k] # "idle" => saw[k] \in Containers
       /\ socket[k] # "open" => step[k] = "idle" /\ subscription[k] = NoChan

OutcomeOK ==
  /\ got \in [Clients -> SUBSET Lines] /\ missed \in [Clients -> SUBSET Lines]
  /\ panicked \in BOOLEAN

\* The kept log of a container a browser's channel is registered for was sent,
\* is coming or met a full channel, or it is about to be sent.
Delivered ==
  \A k \in Clients, c \in Containers :
    subscription[k] \in subscribers[c] /\ ~(step[k] = "snapshot" /\ saw[k] = c) =>
      \A line \in GetLogs(c) : line \in got[k] \cup missed[k] \/ Coming(subscription[k], line)

Inv == DockerOK /\ StreamsOK /\ ChannelsOK /\ ClientsOK /\ OutcomeOK /\ Delivered

-----------------------------------------------------------------------------
(* Types.                                                                   *)

\* The bounds are numbers, one by one.
LEMMA Bounds == Buffer \in Nat /\ MaxLines \in Nat /\ MaxChanges \in Nat
  BY BoundAssumption

USE Bounds

LEMMA TypesImply == DockerOK /\ StreamsOK /\ ChannelsOK /\ ClientsOK /\ OutcomeOK => TypeOK
<1> SUFFICES ASSUME DockerOK, StreamsOK, ChannelsOK, ClientsOK, OutcomeOK PROVE TypeOK
  OBVIOUS
<1>1. ASSUME NEW s \in Streams
      PROVE  /\ stream[s].at \in {"open", "read", "copy", "send", "ended"}
             /\ stream[s].next \in 0..MaxLines /\ stream[s].left \subseteq Chans
             /\ stream[s].of = NoContainer => stream[s] = NoLog
  BY DEF StreamsOK, LogOK, Log
<1>2. step \in [Clients -> DOMAIN After \cup {"idle"}]
  BY DEF ClientsOK, After
<1> QED
  BY <1>1, <1>2 DEF TypeOK, DockerOK, StreamsOK, ChannelsOK, ClientsOK, OutcomeOK

\* What an unchanged part keeps.
LEMMA Frames ==
  /\ DockerOK /\ UNCHANGED docker => DockerOK'
  /\ StreamsOK /\ UNCHANGED <<stream, current, printed>> => StreamsOK'
  /\ ChannelsOK /\ UNCHANGED channels => ChannelsOK'
  /\ ClientsOK /\ UNCHANGED clients /\ UNCHANGED owner => ClientsOK'
  /\ OutcomeOK /\ UNCHANGED outcome => OutcomeOK'
<1>1. DockerOK /\ UNCHANGED docker => DockerOK'
  BY DEF DockerOK, docker
<1>2. StreamsOK /\ UNCHANGED <<stream, current, printed>> => StreamsOK'
  BY DEF StreamsOK, LogOK
<1>3. ChannelsOK /\ UNCHANGED channels => ChannelsOK'
  BY DEF ChannelsOK, channels
<1>4. ClientsOK /\ UNCHANGED clients /\ UNCHANGED owner => ClientsOK'
  BY DEF ClientsOK, clients
<1>5. OutcomeOK /\ UNCHANGED outcome => OutcomeOK'
  BY DEF OutcomeOK, outcome
<1> QED
  BY <1>1, <1>2, <1>3, <1>4, <1>5

LEMMA InitTypes == Init => DockerOK /\ StreamsOK /\ ChannelsOK /\ ClientsOK /\ OutcomeOK
<1> SUFFICES ASSUME Init PROVE DockerOK /\ StreamsOK /\ ChannelsOK /\ ClientsOK /\ OutcomeOK
  OBVIOUS
<1>1. DockerOK
  <2>1. container = NoContainer /\ successor = NoContainer /\ restarts = FALSE /\ up = {}
        /\ printed = [c \in Containers |-> 0] /\ changes = 0
    BY DEF Init
  <2>2. printed \in [Containers -> 0..MaxLines]
    BY <2>1
  <2>3. changes \in 0..MaxChanges
    BY <2>1
  <2>4. restarts \in BOOLEAN
    BY <2>1
  <2> QED
    BY <2>1, <2>2, <2>3, <2>4 DEF DockerOK
<1>2. StreamsOK
  <2>1. NoLog \in Log /\ NoLog.of = NoContainer /\ NoLog.at = "ended" /\ NoLog.left = {}
    BY DEF NoLog, Log
  <2>2. LogOK(NoLog)
    BY <2>1 DEF LogOK
  <2> HIDE DEF NoLog
  <2> QED
    BY <2>2 DEF Init, StreamsOK
<1>3. ChannelsOK
  <2>1. owner = << >> /\ DOMAIN owner = {}
    BY DEF Init
  <2>2. owner \in [DOMAIN owner -> Clients]
    BY <2>1
  <2> QED
    BY <2>1, <2>2 DEF Init, ChannelsOK
<1>4. ClientsOK
  BY DEF Init, ClientsOK
<1>5. OutcomeOK
  BY DEF Init, OutcomeOK
<1> QED
  BY <1>1, <1>2, <1>3, <1>4, <1>5

-----------------------------------------------------------------------------
(* Streams.                                                                 *)

\* The step of one stream.
LEMMA Advanced ==
  ASSUME StreamsOK, NEW s \in Streams, NEW log, LogOK(log), log.of = stream[s].of,
         stream' = [stream EXCEPT ![s] = log], UNCHANGED <<current, printed>>
  PROVE  StreamsOK'
<1>1. \A q \in Streams : LogOK(stream'[q])
  BY DEF StreamsOK
<1>2. \A q \in Streams : stream'[q].of = stream[q].of
  BY DEF StreamsOK
<1>3. \A q \in Streams : LogOK(stream[q])'
  BY <1>1 DEF LogOK
<1> QED
  BY <1>2, <1>3 DEF StreamsOK

\* Records of streams are told apart by their fields.
LEMMA SameLog ==
  ASSUME NEW r \in Log, NEW q \in Log, r.of = q.of, r.live = q.live, r.active = q.active,
         r.follow = q.follow, r.at = q.at, r.next = q.next, r.left = q.left
  PROVE  r = q
  BY DEF Log

\* The record of a stream that has just been started for c.
Started(c) == [of |-> c, live |-> TRUE, active |-> TRUE, follow |-> FALSE, at |-> "open",
               next |-> 0, left |-> {}]

LEMMA StartedIsOK ==
  ASSUME DockerOK, NEW c \in Containers
  PROVE  /\ LogOK(Started(c)) /\ Started(c).of = c /\ Started(c).next = 0
         /\ Started(c).at = "open" /\ Started(c).left = {}
         /\ [NoLog EXCEPT !.of = c, !.live = TRUE, !.active = TRUE, !.at = "open"] = Started(c)
<1>1. /\ Started(c).of = c /\ Started(c).next = 0 /\ Started(c).at = "open" /\ Started(c).left = {}
      /\ Started(c) \in Log
  BY DEF Started, Log
<1>2. printed[c] \in Nat
  BY DEF DockerOK
<1>3. [NoLog EXCEPT !.of = c, !.live = TRUE, !.active = TRUE, !.at = "open"] = Started(c)
  <2> DEFINE log == [NoLog EXCEPT !.of = c, !.live = TRUE, !.active = TRUE, !.at = "open"]
  <2>1. NoLog \in Log
    BY DEF NoLog, Log
  <2>2. log \in Log
    BY <2>1 DEF Log
  <2>3. /\ log.of = c /\ log.live = TRUE /\ log.active = TRUE /\ log.follow = FALSE
        /\ log.at = "open" /\ log.next = 0 /\ log.left = {}
    BY DEF NoLog
  <2>4. /\ log.of = Started(c).of /\ log.live = Started(c).live
        /\ log.active = Started(c).active /\ log.follow = Started(c).follow
        /\ log.at = Started(c).at /\ log.next = Started(c).next /\ log.left = Started(c).left
    BY <2>3 DEF Started
  <2>5. log = Started(c)
    <3> HIDE DEF log
    <3> QED
      BY <1>1, <2>2, <2>4, SameLog
  <2> QED
    BY <2>5
<1> QED
  BY <1>1, <1>2, <1>3, NoneAssumption DEF LogOK

\* Either nothing is started, or a stream that is over is taken for the log.
LEMMA Streaming ==
  ASSUME DockerOK, StreamsOK, NEW c \in Containers, StartStreaming(c), printed' = printed
  PROVE  /\ StreamsOK'
         /\ \/ UNCHANGED streams
            \/ \E s \in Streams :
                 /\ stream[s].at = "ended" /\ \A d \in Containers \ {c} : current[d] # s
                 /\ stream' = [stream EXCEPT ![s] = Started(c)]
                 /\ current' = [current EXCEPT ![c] = s]
<1>1. CASE UNCHANGED streams
  BY <1>1, Frames DEF streams
<1>2. ASSUME NEW s \in Spare \cup ({current[c]} \ {NoStream}), stream[s].at = "ended",
             stream' = [stream EXCEPT ![s] = Started(c)],
             current' = [current EXCEPT ![c] = s]
      PROVE  /\ s \in Streams /\ \A d \in Containers \ {c} : current[d] # s
             /\ StreamsOK'
  <2>1. s \in Streams /\ \A d \in Containers \ {c} : current[d] # s
    BY <1>2 DEF StreamsOK, Spare
  <2>2. LogOK(Started(c)) /\ Started(c).of = c
    BY StartedIsOK
  <2>3. \A q \in Streams : LogOK(stream'[q])
    BY <1>2, <2>1, <2>2 DEF StreamsOK
  <2>4. \A q \in Streams : LogOK(stream[q])'
    BY <2>3 DEF LogOK
  <2>5. stream'[s].of = c /\ \A q \in Streams \ {s} : stream'[q] = stream[q]
    BY <1>2, <2>1, <2>2 DEF StreamsOK
  <2>6. current'[c] = s /\ \A d \in Containers \ {c} : current'[d] = current[d]
    BY <1>2 DEF StreamsOK
  <2>7. \A d \in Containers : current'[d] # NoStream => stream'[current'[d]].of = d
    BY <2>1, <2>5, <2>6 DEF StreamsOK
  <2>8. DOMAIN stream' = Streams /\ current' \in [Containers -> Streams \cup {NoStream}]
    BY <1>2, <2>1 DEF StreamsOK
  <2> QED
    BY <2>1, <2>4, <2>7, <2>8 DEF StreamsOK
<1>3. UNCHANGED streams
      \/ \E s \in Spare \cup ({current[c]} \ {NoStream}) :
           /\ stream[s].at = "ended"
           /\ stream' = [stream EXCEPT ![s] = Started(c)]
           /\ current' = [current EXCEPT ![c] = s]
  BY StartedIsOK DEF StartStreaming
<1> QED
  BY <1>1, <1>2, <1>3

\* Cancelling streams leaves what they have read and hold.
LEMMA Stopping ==
  ASSUME StreamsOK, NEW c \in Containers, NEW cancel \in BOOLEAN, stream' = Stopped(c, cancel),
         UNCHANGED <<current, printed>>
  PROVE  /\ StreamsOK'
         /\ \A s \in Streams : /\ stream'[s].of = stream[s].of /\ stream'[s].at = stream[s].at
                               /\ stream'[s].next = stream[s].next
                               /\ stream'[s].left = stream[s].left
<1>1. DOMAIN stream' = Streams
  BY DEF Stopped
<1>2. ASSUME NEW s \in Streams
      PROVE  /\ stream'[s].of = stream[s].of /\ stream'[s].at = stream[s].at
             /\ stream'[s].next = stream[s].next /\ stream'[s].left = stream[s].left
             /\ LogOK(stream'[s])
  <2>1. LogOK(stream[s])
    BY DEF StreamsOK
  <2>2. CASE stream[s].of # c
    <3>1. stream'[s] = stream[s]
      BY <2>2 DEF Stopped
    <3> QED
      BY <2>1, <3>1
  <2>3. CASE stream[s].of = c
    <3>1. PICK active \in BOOLEAN, live \in BOOLEAN :
            stream'[s] = [stream[s] EXCEPT !.follow = FALSE, !.active = active, !.live = live]
      BY <2>1, <2>3 DEF Stopped, LogOK, Log
    <3>2. stream[s] \in Log /\ stream[s].of # NoContainer
      BY <2>1, <2>3, NoneAssumption DEF LogOK
    <3>3. /\ stream'[s] \in Log /\ stream'[s].of = stream[s].of /\ stream'[s].at = stream[s].at
          /\ stream'[s].next = stream[s].next /\ stream'[s].left = stream[s].left
      BY <3>1, <3>2 DEF Log
    <3> QED
      BY <2>1, <3>2, <3>3 DEF LogOK
  <2> QED
    BY <2>2, <2>3
<1>3. \A s \in Streams : LogOK(stream[s])'
  BY <1>2 DEF LogOK
<1>4. \A d \in Containers : current'[d] # NoStream => stream'[current'[d]].of = d
  BY <1>2 DEF StreamsOK
<1> QED
  BY <1>1, <1>2, <1>3, <1>4 DEF StreamsOK

-----------------------------------------------------------------------------
(* Delivery.                                                                *)

\* The kept log of c, as numbers of lines.
LEMMA LogsAre ==
  ASSUME NEW c \in Containers, NEW line
  PROVE  line \in GetLogs(c) <=>
           /\ current[c] # NoStream
           /\ \E n \in 1..stream[current[c]].next : line = <<c, n>>
  BY DEF GetLogs

\* A step leaves what stream s has read and hands on.
Kept(s) == /\ stream'[s].of = stream[s].of /\ stream'[s].at = stream[s].at
           /\ stream'[s].next = stream[s].next /\ stream'[s].left = stream[s].left

\* What k has of c's log is claimed to be all of it.
Claim(k, c) == subscription[k] \in subscribers[c] /\ ~(step[k] = "snapshot" /\ saw[k] = c)

\* Delivery survives a step that keeps no new line, takes no line out of a stream's
\* hands or a channel without bringing it to the browser, and claims for a browser
\* only what was claimed, or what it has been sent.
LEMMA DeliveredStays ==
  ASSUME Delivered, ChannelsOK,
         \A c \in Containers : GetLogs(c)' \subseteq GetLogs(c),
         \A s \in Streams : stream[s].at = "copy" \/ stream[s].left # {} => Kept(s),
         \A k \in Clients : got[k] \subseteq got'[k] /\ missed[k] \subseteq missed'[k],
         \A k \in Clients, c \in Containers : Claim(k, c)' =>
           \/ GetLogs(c) \subseteq got'[k]
           \/ Claim(k, c) /\ subscription'[k] = subscription[k],
         \A k \in Clients : subscription'[k] = subscription[k] /\ subscription[k] \in Chans =>
           \A line \in buffered[subscription[k]] : line \in buffered'[subscription[k]] \cup got'[k]
  PROVE  Delivered'
<1> SUFFICES ASSUME NEW k \in Clients, NEW c \in Containers, Claim(k, c)', NEW line, (line \in GetLogs(c))'
             PROVE  line \in got'[k] \cup missed'[k] \/ Coming(subscription[k], line)'
  BY DEF Delivered, Claim
<1>1. line \in GetLogs(c)
  OBVIOUS
<1>2. CASE GetLogs(c) \subseteq got'[k]
  BY <1>1, <1>2
<1>3. CASE Claim(k, c) /\ subscription'[k] = subscription[k]
  <2> DEFINE h == subscription[k]
  <2>1. /\ line \in got[k] \cup missed[k] \/ Coming(h, line)
        /\ h \in Chans
    BY <1>1, <1>3 DEF Delivered, Claim, ChannelsOK
  <2>2. CASE line \in got[k] \cup missed[k]
    BY <2>2
  <2>3. CASE line \in buffered[h]
    BY <1>3, <2>1, <2>3 DEF Coming
  <2>4. ASSUME NEW s \in Streams, line = <<stream[s].of, stream[s].next>>,
               \/ stream[s].at = "copy" /\ h \in subscribers[stream[s].of]
               \/ h \in stream[s].left
        PROVE  Coming(subscription[k], line)'
    <3>1. Kept(s)
      BY <2>4
    <3>2. stream[s].of = c
      BY <1>1, <2>4, LogsAre
    <3>3. h \in subscribers'[c] /\ h = subscription'[k]
      BY <1>3 DEF Claim
    <3> QED
      BY <2>4, <3>1, <3>2, <3>3 DEF Coming, Kept
  <2> QED
    BY <2>1, <2>2, <2>3, <2>4 DEF Coming
<1> QED
  BY <1>2, <1>3

\* Reading a line, taking the channels it goes to, and sending it to one of them.
LEMMA ReadLineStep ==
  ASSUME Inv, NEW s \in Streams, ReadLine(s)
  PROVE  Inv'
<1> DEFINE log == [stream[s] EXCEPT !.next = @ + 1, !.at = "copy"]
<1>1. /\ stream[s].at = "read" /\ stream[s].next < printed[stream[s].of]
      /\ stream' = [stream EXCEPT ![s] = log]
      /\ UNCHANGED <<docker, current, channels, clients, outcome>>
  BY DEF ReadLine, Advance
<1>2. LogOK(stream[s]) /\ DockerOK
  BY DEF Inv, StreamsOK
<1>3. stream[s] \in Log /\ stream[s].of \in Containers /\ stream[s].left = {}
  BY <1>1, <1>2 DEF LogOK, NoLog, Log
<1>4. printed[stream[s].of] \in 0..MaxLines /\ stream[s].next \in 0..MaxLines
  BY <1>2, <1>3 DEF DockerOK, Log
<1>5. /\ log \in Log /\ log.of = stream[s].of /\ log.at = "copy" /\ log.left = {}
      /\ log.next = stream[s].next + 1 /\ log.next <= printed[log.of]
  <2>1. log.of = stream[s].of /\ log.at = "copy" /\ log.left = {} /\ log.next = stream[s].next + 1
    BY <1>3 DEF Log
  <2>2. stream[s].next + 1 \in 0..MaxLines /\ stream[s].next + 1 <= printed[stream[s].of]
    BY <1>1, <1>4
  <2>3. log \in Log
    BY <1>3, <2>2 DEF Log
  <2> HIDE DEF log
  <2> QED
    BY <2>1, <2>2, <2>3
<1> HIDE DEF log
<1>6. LogOK(log)
  BY <1>3, <1>4, <1>5, NoneAssumption DEF LogOK
<1>7. StreamsOK'
  BY <1>1, <1>5, <1>6, Advanced DEF Inv, docker
<1>8. Delivered'
  <2> SUFFICES ASSUME NEW k \in Clients, NEW c \in Containers, Claim(k, c),
                      NEW line, (line \in GetLogs(c))'
               PROVE  line \in got[k] \cup missed[k] \/ Coming(subscription[k], line)'
    BY <1>1 DEF Delivered, Claim, channels, clients, outcome
  <2>1. stream'[s] = log /\ \A q \in Streams \ {s} : stream'[q] = stream[q]
    BY <1>1 DEF Inv, StreamsOK
  <2>2. current'[c] = current[c] /\ buffered' = buffered /\ subscribers' = subscribers
        /\ subscription' = subscription
    BY <1>1 DEF channels, clients
  <2>3. CASE line \in GetLogs(c)
    <3>1. line \in got[k] \cup missed[k] \/ Coming(subscription[k], line)
      BY <2>3 DEF Inv, Delivered, Claim
    <3> QED
      BY <1>1, <1>3, <2>1, <2>2, <3>1 DEF Coming
  <2>4. CASE line \notin GetLogs(c)
    <3>1. current[c] = s /\ line = <<c, log.next>> /\ c = log.of
      <4>1. PICK n \in 1..stream'[current[c]].next : line = <<c, n>> /\ current[c] # NoStream
        BY <2>2 DEF GetLogs
      <4>2. current[c] \in Streams /\ stream[current[c]].of = c
        BY <4>1 DEF Inv, StreamsOK
      <4>3. ~(n \in 1..stream[current[c]].next)
        BY <2>4, <4>1 DEF GetLogs
      <4>4. current[c] = s
        BY <2>1, <4>1, <4>2, <4>3
      <4> QED
        BY <1>4, <1>5, <2>1, <4>1, <4>2, <4>3, <4>4
    <3>2. subscription[k] \in subscribers[c]
      BY DEF Claim
    <3> QED
      BY <1>5, <2>1, <2>2, <3>1, <3>2 DEF Coming
  <2> QED
    BY <2>3, <2>4
<1> QED
  BY <1>1, <1>7, <1>8, Frames DEF Inv, channels

\* Streams that go on, one or all, without reading keep the same log.
LEMMA SameLogs ==
  ASSUME StreamsOK, current' = current, \A q \in Streams : stream'[q].next = stream[q].next
  PROVE  \A c \in Containers : GetLogs(c)' \subseteq GetLogs(c)
<1> SUFFICES ASSUME NEW c \in Containers PROVE GetLogs(c)' \subseteq GetLogs(c)
  OBVIOUS
<1>1. current[c] # NoStream => stream'[current[c]].next = stream[current[c]].next
  BY DEF StreamsOK
<1> QED
  BY <1>1 DEF GetLogs

\* The beginning and the end of a stream.
LEMMA EdgeStep ==
  ASSUME Inv, NEW s \in Streams, OpenLog(s) \/ EndOfLog(s)
  PROVE  Inv'
<1>1. PICK at \in {"read", "ended"}, active \in BOOLEAN, follow \in BOOLEAN :
        /\ stream[s].at \in {"open", "read"}
        /\ stream' = [stream EXCEPT ![s] = [stream[s] EXCEPT !.at = at, !.active = active,
                                                             !.follow = follow]]
        /\ UNCHANGED <<docker, current, channels, clients, outcome>>
  <2>1. stream[s] \in Log
    BY DEF Inv, StreamsOK, LogOK
  <2>2. CASE OpenLog(s)
    <3>1. [stream[s] EXCEPT !.at = "read", !.follow = stream[s].of \in up]
            = [stream[s] EXCEPT !.at = "read", !.active = stream[s].active,
                                !.follow = stream[s].of \in up]
      BY <2>1 DEF Log
    <3>2. stream' = [stream EXCEPT ![s] = [stream[s] EXCEPT !.at = "read",
                       !.active = stream[s].active, !.follow = stream[s].of \in up]]
      BY <2>2, <3>1 DEF OpenLog, Advance
    <3>3. stream[s].active \in BOOLEAN /\ (stream[s].of \in up) \in BOOLEAN
      BY <2>1 DEF Log
    <3>4. stream[s].at = "open" /\ UNCHANGED <<docker, current, channels, clients, outcome>>
      BY <2>2 DEF OpenLog, Advance
    <3> QED
      BY <3>2, <3>3, <3>4
  <2>3. CASE EndOfLog(s)
    <3>1. [stream[s] EXCEPT !.at = "ended", !.active = FALSE]
            = [stream[s] EXCEPT !.at = "ended", !.active = FALSE, !.follow = stream[s].follow]
      BY <2>1 DEF Log
    <3> QED
      BY <2>1, <2>3, <3>1 DEF EndOfLog, Advance, Log
  <2> QED
    BY <2>2, <2>3
<1> DEFINE log == [stream[s] EXCEPT !.at = at, !.active = active, !.follow = follow]
<1>2. LogOK(stream[s]) /\ stream[s] \in Log
  BY DEF Inv, StreamsOK, LogOK
<1>3. stream[s].of # NoContainer /\ stream[s].left = {}
  BY <1>1, <1>2 DEF LogOK, NoLog
<1>4. /\ log \in Log /\ log.of = stream[s].of /\ log.at = at /\ log.left = {}
      /\ log.next = stream[s].next
  BY <1>2, <1>3 DEF Log
<1>5. stream' = [stream EXCEPT ![s] = log]
  BY <1>1
<1> HIDE DEF log
<1>6. LogOK(log)
  BY <1>2, <1>3, <1>4 DEF LogOK
<1>7. StreamsOK'
  BY <1>1, <1>4, <1>5, <1>6, Advanced DEF Inv, docker
<1>8. Delivered'
  <2>1. stream'[s] = log /\ \A q \in Streams \ {s} : stream'[q] = stream[q]
    BY <1>5 DEF Inv, StreamsOK
  <2>2. \A c \in Containers : GetLogs(c)' \subseteq GetLogs(c)
    BY <1>1, <1>4, <2>1, SameLogs DEF Inv
  <2>3. \A q \in Streams : stream[q].at = "copy" \/ stream[q].left # {} => Kept(q)
    BY <1>1, <1>3, <2>1 DEF Kept
  <2>4. \A k \in Clients, c \in Containers :
          Claim(k, c)' => Claim(k, c) /\ subscription'[k] = subscription[k]
    BY <1>1 DEF Claim, channels, clients
  <2>5. \A k \in Clients : buffered' = buffered /\ got[k] \subseteq got'[k] /\ missed[k] \subseteq missed'[k]
    BY <1>1 DEF channels, outcome
  <2> QED
    BY <2>2, <2>3, <2>4, <2>5, DeliveredStays DEF Inv
<1> QED
  BY <1>1, <1>7, <1>8, Frames DEF Inv, channels

LEMMA CopySubscribersStep ==
  ASSUME Inv, NEW s \in Streams, CopySubscribers(s)
  PROVE  Inv'
<1> DEFINE targets == subscribers[stream[s].of]
           at == IF targets = {} THEN "read" ELSE "send"
           log == [stream[s] EXCEPT !.left = targets, !.at = at]
<1>1. /\ stream[s].at = "copy" /\ stream' = [stream EXCEPT ![s] = log]
      /\ UNCHANGED <<docker, current, channels, clients, outcome>>
  BY DEF CopySubscribers, Advance
<1>2. LogOK(stream[s]) /\ stream[s] \in Log /\ stream[s].next > 0
  BY <1>1 DEF Inv, StreamsOK, LogOK
<1>3. stream[s].of \in Containers /\ stream[s].left = {}
  BY <1>1, <1>2 DEF LogOK, NoLog, Log
<1>4. targets \in SUBSET Chans
  BY <1>3 DEF Inv, ChannelsOK
<1>5. /\ log \in Log /\ log.of = stream[s].of /\ log.at = at /\ log.left = targets
      /\ log.next = stream[s].next
  BY <1>2, <1>4 DEF Log
<1>6. at \in {"read", "send"} /\ (at = "read" => targets = {})
  OBVIOUS
<1> HIDE DEF log, at
<1>7. LogOK(log)
  BY <1>2, <1>3, <1>5, <1>6, NoneAssumption DEF LogOK
<1>8. StreamsOK'
  BY <1>1, <1>5, <1>7, Advanced DEF Inv, docker
<1>9. Delivered'
  <2>1. stream'[s] = log /\ \A q \in Streams \ {s} : stream'[q] = stream[q]
    BY <1>1 DEF Inv, StreamsOK
  <2>2. \A c \in Containers : GetLogs(c)' \subseteq GetLogs(c)
    BY <1>1, <1>5, <2>1, SameLogs DEF Inv
  <2>3. buffered' = buffered /\ subscribers' = subscribers /\ subscription' = subscription
        /\ got' = got /\ missed' = missed /\ step' = step /\ saw' = saw
    BY <1>1 DEF channels, clients, outcome
  <2> SUFFICES ASSUME NEW k \in Clients, NEW c \in Containers, Claim(k, c), NEW line, line \in GetLogs(c)
               PROVE  line \in got[k] \cup missed[k] \/ Coming(subscription[k], line)'
    BY <2>2, <2>3 DEF Delivered, Claim
  <2>4. line \in got[k] \cup missed[k] \/ Coming(subscription[k], line)
    BY DEF Inv, Delivered, Claim
  <2>5. CASE line = <<stream[s].of, stream[s].next>> /\ subscription[k] \in targets
    BY <1>5, <2>1, <2>3, <2>5 DEF Coming
  <2>6. CASE ~(line = <<stream[s].of, stream[s].next>> /\ subscription[k] \in targets)
    BY <1>3, <2>1, <2>3, <2>4, <2>6 DEF Coming
  <2> QED
    BY <2>5, <2>6
<1> QED
  BY <1>1, <1>8, <1>9, Frames DEF Inv, channels

LEMMA SendLineStep ==
  ASSUME Inv, NEW s \in Streams, SendLine(s)
  PROVE  Inv'
<1> DEFINE line == <<stream[s].of, stream[s].next>>
<1>1. PICK h \in stream[s].left : Send(s, h, stream[s].left \ {h}) /\ stream[s].at = "send"
  BY DEF SendLine
<1> DEFINE rest == stream[s].left \ {h}
           at   == IF rest = {} THEN "read" ELSE "send"
           log  == [stream[s] EXCEPT !.left = rest, !.at = at]
<1>2. LogOK(stream[s]) /\ stream[s] \in Log /\ stream[s].next > 0
  BY <1>1 DEF Inv, StreamsOK, LogOK
<1>3. stream[s].of \in Containers /\ rest \in SUBSET Chans /\ h \in Chans
  BY <1>1, <1>2 DEF LogOK, NoLog, Log
<1>4. stream' = [stream EXCEPT ![s] = log]
  BY <1>1 DEF Send, Inv, StreamsOK
<1>5. /\ log \in Log /\ log.of = stream[s].of /\ log.at = at /\ log.left = rest
      /\ log.next = stream[s].next
  BY <1>2, <1>3 DEF Log
<1>6. at \in {"read", "send"} /\ (at = "read" => rest = {})
  OBVIOUS
<1>7. /\ UNCHANGED <<docker, current, subscribers, owner, closed, clients, got>>
      /\ panicked' \in BOOLEAN
      /\ \/ buffered' = [buffered EXCEPT ![h] = @ \cup {line}] /\ missed' = missed
         \/ missed' = [missed EXCEPT ![owner[h]] = @ \cup {line}] /\ buffered' = buffered
  BY <1>1 DEF Send
<1>8. line \in Lines
  BY <1>2, <1>3 DEF Lines, Log
<1> HIDE DEF log, at, rest
<1>9. LogOK(log)
  BY <1>2, <1>3, <1>5, <1>6, NoneAssumption DEF LogOK
<1>10. StreamsOK'
  BY <1>4, <1>5, <1>7, <1>9, Advanced DEF Inv, docker
<1>11. ChannelsOK' /\ OutcomeOK'
  BY <1>7, <1>8 DEF Inv, ChannelsOK, OutcomeOK
<1>12. Delivered'
  <2>1. stream'[s] = log /\ \A q \in Streams \ {s} : stream'[q] = stream[q]
    BY <1>4 DEF Inv, StreamsOK
  <2>2. \A c \in Containers : GetLogs(c)' \subseteq GetLogs(c)
    BY <1>5, <1>7, <2>1, SameLogs DEF Inv
  <2>3. subscribers' = subscribers /\ subscription' = subscription
        /\ got' = got /\ step' = step /\ saw' = saw
    BY <1>7 DEF clients
  <2>4. \A g \in Chans : buffered[g] \subseteq buffered'[g]
    BY <1>7 DEF Inv, ChannelsOK
  <2>5. \A k \in Clients : missed[k] \subseteq missed'[k]
    BY <1>7 DEF Inv, OutcomeOK
  <2> SUFFICES ASSUME NEW k \in Clients, NEW c \in Containers, Claim(k, c),
                      NEW kept, kept \in GetLogs(c)
               PROVE  kept \in got[k] \cup missed'[k] \/ Coming(subscription[k], kept)'
    BY <2>2, <2>3 DEF Delivered, Claim
  <2>6. kept \in got[k] \cup missed[k] \/ Coming(subscription[k], kept)
    BY DEF Inv, Delivered, Claim
  <2>7. subscription[k] \in Chans /\ owner[subscription[k]] = k
    BY NoneAssumption DEF Claim, Inv, ClientsOK, ChannelsOK
  <2>8. CASE kept = line /\ subscription[k] = h
    <3>1. kept \in buffered'[h] \/ kept \in missed'[k]
      BY <1>3, <1>7, <2>7, <2>8 DEF Inv, ChannelsOK, OutcomeOK
    <3> QED
      BY <2>3, <2>8, <3>1 DEF Coming
  <2>9. CASE ~(kept = line /\ subscription[k] = h)
    <3>1. CASE kept \in got[k] \cup missed[k] \cup buffered[subscription[k]]
      BY <2>3, <2>4, <2>5, <2>7, <3>1 DEF Coming
    <3>2. ASSUME NEW q \in Streams, kept = <<stream[q].of, stream[q].next>>,
                 \/ stream[q].at = "copy" /\ subscription[k] \in subscribers[stream[q].of]
                 \/ subscription[k] \in stream[q].left
          PROVE  Coming(subscription[k], kept)'
      <4>1. CASE q # s
        BY <2>1, <2>3, <3>2, <4>1 DEF Coming
      <4>2. CASE q = s
        <5>1. subscription[k] \in rest
          BY <1>1, <2>9, <3>2, <4>2 DEF rest
        <5> QED
          BY <1>5, <2>1, <2>3, <3>2, <4>2, <5>1 DEF Coming
      <4> QED
        BY <4>1, <4>2
    <3> QED
      BY <2>6, <3>1, <3>2 DEF Coming
  <2> QED
    BY <2>8, <2>9
<1> QED
  BY <1>7, <1>10, <1>11, <1>12, Frames DEF Inv

-----------------------------------------------------------------------------
(* Browsers.                                                                *)

\* Starting a stream, or not, delivers nothing and loses nothing.
LEMMA StreamingKeeps ==
  ASSUME DockerOK, StreamsOK, NEW c \in Containers, StartStreaming(c), printed' = printed
  PROVE  /\ \A d \in Containers : GetLogs(d)' \subseteq GetLogs(d)
         /\ \A q \in Streams : stream[q].at = "copy" \/ stream[q].left # {} => Kept(q)
<1>1. CASE UNCHANGED streams
  BY <1>1 DEF streams, GetLogs, Kept
<1>2. ASSUME NEW s \in Streams, stream[s].at = "ended", \A d \in Containers \ {c} : current[d] # s,
             stream' = [stream EXCEPT ![s] = Started(c)], current' = [current EXCEPT ![c] = s]
      PROVE  /\ \A d \in Containers : GetLogs(d)' \subseteq GetLogs(d)
             /\ \A q \in Streams : stream[q].at = "copy" \/ stream[q].left # {} => Kept(q)
  <2>1. stream'[s] = Started(c) /\ \A q \in Streams \ {s} : stream'[q] = stream[q]
    BY <1>2 DEF StreamsOK
  <2>2. stream[s].left = {}
    BY <1>2 DEF StreamsOK, LogOK
  <2>3. GetLogs(c)' = {}
    <3>1. current'[c] = s /\ stream'[current'[c]].next = 0
      BY <1>2, <2>1, StartedIsOK DEF StreamsOK
    <3> QED
      BY <3>1 DEF GetLogs
  <2>4. ASSUME NEW d \in Containers \ {c} PROVE GetLogs(d)' = GetLogs(d)
    <3>1. current'[d] = current[d] /\ current[d] \in Streams \cup {NoStream} /\ current[d] # s
      BY <1>2 DEF StreamsOK
    <3> QED
      BY <2>1, <3>1 DEF GetLogs
  <2> QED
    BY <1>2, <2>1, <2>2, <2>3, <2>4 DEF Kept
<1> QED
  BY <1>1, <1>2, Streaming

LEMMA AfterIs == /\ After["start"] = "subscribe" /\ After["subscribe"] = "snapshot"
                 /\ After["snapshot"] = "idle"
  BY DEF After

LEMMA HandleSubscribeStep ==
  ASSUME Inv, NEW k \in Clients, HandleSubscribe(k)
  PROVE  Inv'
<1>1. /\ socket[k] = "open" /\ step[k] = "idle" /\ container # NoContainer
      /\ step' = [step EXCEPT ![k] = "start"] /\ saw' = [saw EXCEPT ![k] = container]
      /\ UNCHANGED <<docker, streams, channels, socket, subscription, outcome>>
  BY DEF HandleSubscribe, Serves
<1>2. container \in Containers
  BY <1>1 DEF Inv, DockerOK
<1>3. ClientsOK'
  BY <1>1, <1>2 DEF Inv, ClientsOK, channels
<1>4. Delivered'
  <2>1. \A c \in Containers : GetLogs(c)' \subseteq GetLogs(c)
    BY <1>1 DEF streams, GetLogs
  <2>2. \A q \in Streams : Kept(q)
    BY <1>1 DEF streams, Kept
  <2>3. \A j \in Clients, c \in Containers :
          Claim(j, c)' => Claim(j, c) /\ subscription'[j] = subscription[j]
    BY <1>1 DEF Claim, channels, Inv, ClientsOK
  <2>4. buffered' = buffered /\ got' = got /\ missed' = missed
    BY <1>1 DEF channels, outcome
  <2> QED
    BY <2>1, <2>2, <2>3, <2>4, DeliveredStays DEF Inv
<1> QED
  BY <1>1, <1>3, <1>4, Frames DEF Inv, streams, docker

LEMMA EnsureStreamStep ==
  ASSUME Inv, NEW k \in Clients, EnsureStream(k)
  PROVE  Inv'
<1>1. /\ step[k] = "start" /\ step' = [step EXCEPT ![k] = "subscribe"]
      /\ StartStreaming(saw[k])
      /\ UNCHANGED <<docker, channels, socket, saw, subscription, outcome>>
  BY AfterIs DEF EnsureStream, Proceeds
<1>2. saw[k] \in Containers /\ printed' = printed
  BY <1>1 DEF Inv, ClientsOK, docker
<1>3. ClientsOK'
  BY <1>1 DEF Inv, ClientsOK, channels
<1>4. StreamsOK'
  BY <1>1, <1>2, Streaming DEF Inv
<1>5. Delivered'
  <2>1. /\ \A c \in Containers : GetLogs(c)' \subseteq GetLogs(c)
        /\ \A q \in Streams : stream[q].at = "copy" \/ stream[q].left # {} => Kept(q)
    BY <1>1, <1>2, StreamingKeeps DEF Inv
  <2>2. \A j \in Clients, c \in Containers :
          Claim(j, c)' => Claim(j, c) /\ subscription'[j] = subscription[j]
    BY <1>1 DEF Claim, channels, Inv, ClientsOK
  <2>3. buffered' = buffered /\ got' = got /\ missed' = missed
    BY <1>1 DEF channels, outcome
  <2> QED
    BY <2>1, <2>2, <2>3, DeliveredStays DEF Inv
<1> QED
  BY <1>1, <1>3, <1>4, <1>5, Frames DEF Inv

LEMMA SubscribeStep ==
  ASSUME Inv, NEW k \in Clients, Subscribe(k)
  PROVE  Inv'
<1>1. /\ step[k] = "subscribe" /\ step' = [step EXCEPT ![k] = "snapshot"]
      /\ UNCHANGED <<docker, streams, socket, saw, outcome>>
  BY AfterIs DEF Subscribe, Proceeds
<1>2. saw[k] \in Containers /\ socket[k] = "open"
  BY <1>1 DEF Inv, ClientsOK
<1>3. /\ \A c \in Containers : GetLogs(c)' \subseteq GetLogs(c)
      /\ \A q \in Streams : Kept(q)
      /\ got' = got /\ missed' = missed
  BY <1>1 DEF streams, GetLogs, Kept, outcome
<1>4. CASE UNCHANGED <<channels, subscription>>
  <2>1. ClientsOK'
    BY <1>1, <1>2, <1>4 DEF Inv, ClientsOK, channels
  <2>2. \A j \in Clients, c \in Containers :
          Claim(j, c)' => Claim(j, c) /\ subscription'[j] = subscription[j]
    BY <1>1, <1>4 DEF Claim, channels, Inv, ClientsOK
  <2>3. Delivered'
    BY <1>3, <1>4, <2>2, DeliveredStays DEF Inv, channels
  <2> QED
    BY <1>1, <1>4, <2>1, <2>3, Frames DEF Inv, streams, docker
<1>5. ASSUME NEW h \in Chans \ DOMAIN owner,
             owner' = [g \in DOMAIN owner \cup {h} |-> IF g = h THEN k ELSE owner[g]],
             subscribers' = [subscribers EXCEPT ![saw[k]] = @ \cup {h}],
             subscription' = [subscription EXCEPT ![k] = h],
             UNCHANGED <<closed, buffered>>
      PROVE  Inv'
  <2>1. /\ DOMAIN owner' = DOMAIN owner \cup {h} /\ owner'[h] = k
        /\ \A g \in DOMAIN owner : owner'[g] = owner[g]
        /\ owner' \in [DOMAIN owner' -> Clients]
    BY <1>5 DEF Inv, ChannelsOK
  <2>2. ChannelsOK'
    <3>1. \A c \in Containers : h \notin subscribers[c]
      BY <1>5 DEF Inv, ChannelsOK
    <3>2. subscribers' \in [Containers -> SUBSET DOMAIN owner']
      BY <1>2, <1>5, <2>1 DEF Inv, ChannelsOK
    <3>3. \A c, d \in Containers : c # d => subscribers'[c] \cap subscribers'[d] = {}
      BY <1>2, <1>5, <3>1 DEF Inv, ChannelsOK
    <3> QED
      BY <1>5, <2>1, <3>2, <3>3 DEF Inv, ChannelsOK
  <2>3. ClientsOK'
    BY <1>1, <1>2, <1>5, <2>1 DEF Inv, ClientsOK
  <2>4. ASSUME NEW j \in Clients, NEW c \in Containers, Claim(j, c)'
        PROVE  Claim(j, c) /\ subscription'[j] = subscription[j]
    <3>1. CASE j = k
      <4>1. subscription'[k] = h /\ step'[k] = "snapshot" /\ saw' = saw
        BY <1>1, <1>5 DEF Inv, ClientsOK
      <4>2. c = saw[k]
        BY <1>5, <2>4, <3>1, <4>1 DEF Claim, Inv, ChannelsOK
      <4> QED
        BY <2>4, <3>1, <4>1, <4>2 DEF Claim
    <3>2. CASE j # k
      <4>1. subscription'[j] = subscription[j] /\ step'[j] = step[j] /\ saw' = saw
        BY <1>1, <1>5, <3>2 DEF Inv, ClientsOK
      <4>2. subscription[j] # h
        <5>1. h # NoChan
          BY <1>5, NoneAssumption
        <5> QED
          BY <1>5, <5>1 DEF Inv, ClientsOK
      <4>3. subscription[j] \in subscribers[c]
        BY <1>2, <1>5, <2>4, <4>1, <4>2 DEF Claim, Inv, ChannelsOK
      <4> QED
        BY <2>4, <4>1, <4>3 DEF Claim
    <3> QED
      BY <3>1, <3>2
  <2>5. Delivered'
    BY <1>3, <1>5, <2>4, DeliveredStays DEF Inv
  <2> QED
    BY <1>1, <2>2, <2>3, <2>5, Frames DEF Inv, streams, docker
<1> QED
  BY <1>4, <1>5 DEF Subscribe

\* The kept log consists of lines.
LEMMA LogsAreLines ==
  ASSUME StreamsOK, NEW c \in Containers
  PROVE  GetLogs(c) \subseteq Lines
<1> SUFFICES ASSUME NEW line \in GetLogs(c) PROVE line \in Lines
  OBVIOUS
<1>1. current[c] # NoStream /\ current[c] \in Streams
  BY LogsAre DEF StreamsOK
<1>2. PICK n \in 1..stream[current[c]].next : line = <<c, n>>
  BY LogsAre
<1>3. stream[current[c]].next \in 0..MaxLines
  BY <1>1 DEF StreamsOK, LogOK, Log
<1>4. n \in 1..MaxLines
  BY <1>2, <1>3
<1> QED
  BY <1>2, <1>4 DEF Lines

LEMMA SendLogsStep ==
  ASSUME Inv, NEW k \in Clients, SendLogs(k)
  PROVE  Inv'
<1>1. /\ step[k] = "snapshot" /\ step' = [step EXCEPT ![k] = "idle"]
      /\ got' = [got EXCEPT ![k] = @ \cup GetLogs(saw[k])]
      /\ UNCHANGED <<docker, streams, channels, socket, saw, subscription, missed, panicked>>
  BY AfterIs DEF SendLogs, Proceeds
<1>2. saw[k] \in Containers
  BY <1>1 DEF Inv, ClientsOK
<1>3. ClientsOK'
  BY <1>1 DEF Inv, ClientsOK, channels
<1>4. OutcomeOK'
  BY <1>1, <1>2, LogsAreLines DEF Inv, OutcomeOK
<1>5. Delivered'
  <2>1. /\ \A c \in Containers : GetLogs(c)' \subseteq GetLogs(c)
        /\ \A q \in Streams : Kept(q)
        /\ buffered' = buffered /\ missed' = missed
    BY <1>1 DEF streams, GetLogs, Kept, channels
  <2>2. \A j \in Clients : got[j] \subseteq got'[j]
    BY <1>1 DEF Inv, OutcomeOK
  <2>3. GetLogs(saw[k]) \subseteq got'[k]
    BY <1>1 DEF Inv, OutcomeOK
  <2>4. ASSUME NEW j \in Clients, NEW c \in Containers, Claim(j, c)'
        PROVE  \/ GetLogs(c) \subseteq got'[j]
               \/ Claim(j, c) /\ subscription'[j] = subscription[j]
    <3>1. CASE j = k /\ c = saw[k]
      BY <2>3, <3>1
    <3>2. CASE ~(j = k /\ c = saw[k])
      BY <1>1, <2>4, <3>2 DEF Claim, channels, Inv, ClientsOK
    <3> QED
      BY <3>1, <3>2
  <2> QED
    BY <2>1, <2>2, <2>4, DeliveredStays DEF Inv
<1> QED
  BY <1>1, <1>3, <1>4, <1>5, Frames DEF Inv, streams, docker

\* Only the channel of a browser that has left can be drained into a closed socket.
LEMMA ForwardLogStep ==
  ASSUME Inv, NEW h \in Chans, ForwardLog(h)
  PROVE  Inv'
<1>1. PICK line \in buffered[h] :
        /\ buffered' = [buffered EXCEPT ![h] = @ \ {line}]
        /\ panicked' = (socket[owner[h]] = "closed")
        /\ got' = IF panicked' THEN got ELSE [got EXCEPT ![owner[h]] = @ \cup {line}]
  BY DEF ForwardLog
<1>2. UNCHANGED <<docker, streams, subscribers, owner, closed, clients, missed>>
  BY DEF ForwardLog
<1>3. line \in Lines
  BY <1>1 DEF Inv, ChannelsOK
<1>4. ChannelsOK'
  BY <1>1, <1>2 DEF Inv, ChannelsOK
<1>5. OutcomeOK'
  <2>1. panicked' \in BOOLEAN
    BY <1>1
  <2>2. got' \in [Clients -> SUBSET Lines]
    BY <1>1, <1>3 DEF Inv, OutcomeOK
  <2> QED
    BY <1>2, <2>1, <2>2 DEF Inv, OutcomeOK
<1>6. Delivered'
  <2>1. /\ \A c \in Containers : GetLogs(c)' \subseteq GetLogs(c)
        /\ \A q \in Streams : Kept(q)
        /\ missed' = missed
    BY <1>2 DEF streams, GetLogs, Kept
  <2>2. \A j \in Clients : got[j] \subseteq got'[j]
    BY <1>1 DEF Inv, OutcomeOK
  <2>3. \A j \in Clients, c \in Containers :
          Claim(j, c)' => Claim(j, c) /\ subscription'[j] = subscription[j]
    BY <1>2 DEF Claim, clients
  <2>4. ASSUME NEW j \in Clients, subscription[j] \in Chans, NEW other \in buffered[subscription[j]]
        PROVE  other \in buffered'[subscription[j]] \cup got'[j]
    <3>1. CASE subscription[j] # h \/ other # line
      BY <1>1, <2>4, <3>1 DEF Inv, ChannelsOK
    <3>2. CASE subscription[j] = h /\ other = line
      <4>1. owner[h] = j /\ socket[j] = "open"
        BY <2>4, <3>2, NoneAssumption DEF Inv, ClientsOK
      <4>2. got' = [got EXCEPT ![j] = @ \cup {line}]
        BY <1>1, <4>1
      <4> QED
        BY <3>2, <4>2 DEF Inv, OutcomeOK
    <3> QED
      BY <3>1, <3>2
  <2> QED
    BY <2>1, <2>2, <2>3, <2>4, DeliveredStays DEF Inv
<1> QED
  BY <1>2, <1>4, <1>5, <1>6, Frames DEF Inv, streams, docker

\* A browser that gives its channel up, whatever becomes of the channel.
LEMMA Leaving ==
  ASSUME Inv, NEW k \in Clients, subscription' = [subscription EXCEPT ![k] = NoChan],
         subscription[k] = NoChan => UNCHANGED channels,
         subscription[k] # NoChan =>
           \/ UNCHANGED channels
           \/ Close(subscription[k]) /\ UNCHANGED subscribers
           \/ container \in Containers /\ Unsubscribe(container, subscription[k]),
         UNCHANGED <<docker, streams, step, saw, outcome>>
  PROVE  /\ ChannelsOK' /\ Delivered' /\ owner' = owner
         /\ subscription' \in [Clients -> Chans \cup {NoChan}]
<1>1. /\ owner' = owner /\ buffered' = buffered /\ closed' \subseteq closed \cup ({subscription[k]} \ {NoChan})
      /\ DOMAIN subscribers' = Containers
      /\ \A c \in Containers : subscribers'[c] \subseteq subscribers[c]
  BY DEF Inv, ChannelsOK, channels, Close, Unsubscribe
<1>2. ChannelsOK'
  <2>1. subscribers' \in [Containers -> SUBSET DOMAIN owner]
    BY <1>1 DEF Inv, ChannelsOK, channels, Close, Unsubscribe
  <2>2. closed' \subseteq DOMAIN owner
    BY <1>1 DEF Inv, ChannelsOK, ClientsOK
  <2> QED
    BY <1>1, <2>1, <2>2 DEF Inv, ChannelsOK
<1>3. Delivered'
  <2>1. /\ \A c \in Containers : GetLogs(c)' \subseteq GetLogs(c)
        /\ \A q \in Streams : Kept(q)
        /\ got' = got /\ missed' = missed
    BY DEF streams, GetLogs, Kept, outcome
  <2>2. ASSUME NEW j \in Clients, NEW c \in Containers, Claim(j, c)'
        PROVE  Claim(j, c) /\ subscription'[j] = subscription[j]
    <3>1. subscription'[j] \in subscribers[c]
      BY <1>1, <2>2 DEF Claim
    <3>2. subscription'[j] # NoChan
      BY <3>1, NoneAssumption DEF Inv, ChannelsOK
    <3>3. subscription'[j] = subscription[j]
      BY <3>2 DEF Inv, ClientsOK
    <3> QED
      BY <2>2, <3>1, <3>3 DEF Claim
  <2> QED
    BY <1>1, <2>1, <2>2, DeliveredStays DEF Inv
<1> QED
  BY <1>1, <1>2, <1>3 DEF Inv, ClientsOK

LEMMA HandleUnsubscribeStep ==
  ASSUME Inv, NEW k \in Clients, HandleUnsubscribe(k)
  PROVE  Inv'
<1>1. /\ subscription[k] # NoChan
      /\ subscription' = [subscription EXCEPT ![k] = NoChan]
      /\ IF container # NoContainer
           THEN Unsubscribe(container, subscription[k])
           ELSE Close(subscription[k]) /\ UNCHANGED subscribers
      /\ UNCHANGED <<docker, streams, socket, step, saw, outcome>>
  BY DEF HandleUnsubscribe
<1>2. container # NoContainer => container \in Containers
  BY DEF Inv, DockerOK
<1>3. /\ ChannelsOK' /\ Delivered' /\ owner' = owner
      /\ subscription' \in [Clients -> Chans \cup {NoChan}]
  BY <1>1, <1>2, Leaving
<1>4. ClientsOK'
  BY <1>1, <1>3 DEF Inv, ClientsOK
<1> QED
  BY <1>1, <1>3, <1>4, Frames DEF Inv, streams, docker

LEMMA CleanUpStep ==
  ASSUME Inv, NEW k \in Clients, CleanUp(k)
  PROVE  Inv'
<1>1. /\ step[k] = "idle" /\ socket' = [socket EXCEPT ![k] = "cleaned"]
      /\ subscription' = [subscription EXCEPT ![k] = NoChan]
      /\ IF subscription[k] # NoChan /\ container # NoContainer
           THEN Unsubscribe(container, subscription[k])
           ELSE UNCHANGED channels
      /\ UNCHANGED <<docker, streams, step, saw, outcome>>
  BY DEF CleanUp, Serves
<1>2. container # NoContainer => container \in Containers
  BY DEF Inv, DockerOK
<1>3. /\ ChannelsOK' /\ Delivered' /\ owner' = owner
      /\ subscription' \in [Clients -> Chans \cup {NoChan}]
  BY <1>1, <1>2, Leaving
<1>4. ClientsOK'
  BY <1>1, <1>3 DEF Inv, ClientsOK
<1> QED
  BY <1>1, <1>3, <1>4, Frames DEF Inv, streams, docker

LEMMA UnregisterStep ==
  ASSUME Inv, NEW k \in Clients, Unregister(k)
  PROVE  Inv'
<1>1. /\ socket[k] = "cleaned" /\ socket' = [socket EXCEPT ![k] = "closed"]
      /\ UNCHANGED <<docker, streams, channels, step, saw, subscription, outcome>>
  BY DEF Unregister
<1>2. ClientsOK'
  BY <1>1 DEF Inv, ClientsOK, channels
<1>3. Delivered'
  BY <1>1 DEF Inv, Delivered, GetLogs, Coming, streams, channels, outcome
<1> QED
  BY <1>1, <1>2, <1>3, Frames DEF Inv, streams, docker

-----------------------------------------------------------------------------
(* The server's container.                                                  *)

LEMMA ChangesAreBounded ==
  ASSUME DockerOK, NEW what, Change(what)
  PROVE  changes' \in 0..MaxChanges
  BY DEF DockerOK, Change

\* A step of the server that leaves channels and browsers as they are.
LEMMA ServerKeeps ==
  ASSUME Inv, DockerOK', StreamsOK', UNCHANGED <<channels, clients, outcome>>,
         \A c \in Containers : GetLogs(c)' \subseteq GetLogs(c),
         \A q \in Streams : stream[q].at = "copy" \/ stream[q].left # {} => Kept(q)
  PROVE  Inv'
<1>1. \A k \in Clients, c \in Containers :
        Claim(k, c)' => Claim(k, c) /\ subscription'[k] = subscription[k]
  BY DEF Claim, channels, clients
<1>2. buffered' = buffered /\ got' = got /\ missed' = missed
  BY DEF channels, outcome
<1>3. Delivered'
  BY <1>1, <1>2, DeliveredStays DEF Inv
<1> QED
  BY <1>3, Frames DEF Inv, channels

\* What streams have read is not touched when they are cancelled.
LEMMA StoppingKeeps ==
  ASSUME StreamsOK, current' = current,
         \A s \in Streams : /\ stream'[s].of = stream[s].of /\ stream'[s].at = stream[s].at
                            /\ stream'[s].next = stream[s].next
                            /\ stream'[s].left = stream[s].left
  PROVE  /\ \A c \in Containers : GetLogs(c)' \subseteq GetLogs(c)
         /\ \A q \in Streams : Kept(q)
<1>1. \A q \in Streams : Kept(q)
  BY DEF Kept
<1>2. ASSUME NEW c \in Containers PROVE GetLogs(c)' \subseteq GetLogs(c)
  <2>1. current[c] = NoStream \/ current[c] \in Streams
    BY DEF StreamsOK
  <2> QED
    BY <2>1 DEF GetLogs
<1> QED
  BY <1>1, <1>2

LEMMA CreateContainerStep == Inv /\ CreateContainer => Inv'
<1> SUFFICES ASSUME Inv, CreateContainer PROVE Inv'
  OBVIOUS
<1>1. /\ DockerOK' /\ UNCHANGED <<channels, clients, outcome>>
      /\ UNCHANGED <<stream, current, printed>>
  BY DEF CreateContainer, Inv, DockerOK, streams
<1>2. /\ StreamsOK' /\ \A c \in Containers : GetLogs(c)' \subseteq GetLogs(c)
      /\ \A q \in Streams : Kept(q)
  BY <1>1, Frames DEF GetLogs, Kept, Inv
<1> QED
  BY <1>1, <1>2, ServerKeeps

LEMMA StartContainerStep ==
  ASSUME Inv, NEW c \in Containers, StartContainer(c)
  PROVE  Inv'
<1>1. /\ DockerOK' /\ UNCHANGED <<channels, clients, outcome>>
      /\ StartStreaming(c) /\ printed' = printed
  BY DEF StartContainer, Inv, DockerOK
<1>2. /\ StreamsOK' /\ \A d \in Containers : GetLogs(d)' \subseteq GetLogs(d)
      /\ \A q \in Streams : stream[q].at = "copy" \/ stream[q].left # {} => Kept(q)
  BY <1>1, Streaming, StreamingKeeps DEF Inv
<1> QED
  BY <1>1, <1>2, ServerKeeps

LEMMA StopContainerStep == Inv /\ StopContainer => Inv'
<1> SUFFICES ASSUME Inv, StopContainer PROVE Inv'
  OBVIOUS
<1>1. /\ container \in up /\ changes' \in 0..MaxChanges
      /\ UNCHANGED <<container, successor, restarts, printed, current, channels, clients, outcome>>
      /\ up' = up \ {container}
      /\ stream' = Stopped(container, TRUE) \/ stream' = Stopped(container, FALSE)
  BY ChangesAreBounded DEF StopContainer, Inv
<1>2. DockerOK' /\ container \in Containers
  BY <1>1 DEF Inv, DockerOK
<1>3. /\ StreamsOK'
      /\ \A s \in Streams : /\ stream'[s].of = stream[s].of /\ stream'[s].at = stream[s].at
                            /\ stream'[s].next = stream[s].next
                            /\ stream'[s].left = stream[s].left
  BY <1>1, <1>2, Stopping DEF Inv
<1>4. /\ \A c \in Containers : GetLogs(c)' \subseteq GetLogs(c)
      /\ \A q \in Streams : Kept(q)
  BY <1>1, <1>3, StoppingKeeps DEF Inv
<1> QED
  BY <1>1, <1>2, <1>3, <1>4, ServerKeeps

\* The new container has printed nothing yet: nothing of its log is kept.
LEMMA ReplaceContainerStep == Inv /\ ReplaceContainer => Inv'
<1> SUFFICES ASSUME Inv, ReplaceContainer PROVE Inv'
  OBVIOUS
<1> DEFINE new == successor'
<1>1. /\ container \in Containers /\ new \in Containers /\ printed[new] = 0 /\ new # container
      /\ up' = up \ {container} /\ stream' = Stopped(container, container \in up)
      /\ UNCHANGED <<container, printed, current, owner, closed, buffered, clients, outcome>>
      /\ changes' \in 0..MaxChanges /\ restarts' \in BOOLEAN
  <2>1. container \in Containers
    BY DEF ReplaceContainer, Inv, DockerOK
  <2>2. Change("recreate") \/ Change("config")
    BY DEF ReplaceContainer
  <2>3. changes' \in 0..MaxChanges
    BY <2>2, ChangesAreBounded DEF Inv
  <2>4. restarts' = (container \in up) \/ restarts' = FALSE
    BY DEF ReplaceContainer
  <2>5. restarts' \in BOOLEAN
    <3>1. CASE container \in up
      BY <2>4, <3>1
    <3>2. CASE container \notin up
      <4>1. (container \in up) = FALSE
        BY <3>2
      <4>2. restarts' = FALSE
        BY <2>4, <4>1
      <4> QED
        BY <4>2
    <3> QED
      BY <3>1, <3>2
  <2>6. /\ new \in Containers /\ printed[new] = 0 /\ new # container
        /\ up' = up \ {container} /\ stream' = Stopped(container, container \in up)
        /\ UNCHANGED <<container, printed, current, owner, closed, buffered, clients, outcome>>
    BY DEF ReplaceContainer
  <2> QED
    BY <2>1, <2>3, <2>5, <2>6
<1>2. DockerOK'
  BY <1>1 DEF Inv, DockerOK
<1>3. /\ StreamsOK'
      /\ \A s \in Streams : /\ stream'[s].of = stream[s].of /\ stream'[s].at = stream[s].at
                            /\ stream'[s].next = stream[s].next
                            /\ stream'[s].left = stream[s].left
  <2>1. (container \in up) \in BOOLEAN
    OBVIOUS
  <2> QED
    BY <1>1, <2>1, Stopping DEF Inv
<1>4. /\ \A c \in Containers : GetLogs(c)' \subseteq GetLogs(c)
      /\ \A q \in Streams : Kept(q)
  BY <1>1, <1>3, StoppingKeeps DEF Inv
<1>5. GetLogs(new) = {}
  <2>1. CASE current[new] = NoStream
    BY <2>1 DEF GetLogs
  <2>2. CASE current[new] # NoStream
    <3>1. current[new] \in Streams /\ stream[current[new]].of = new
      BY <1>1, <2>2 DEF Inv, StreamsOK
    <3>2. LogOK(stream[current[new]]) /\ new # NoContainer
      BY <1>1, <3>1, NoneAssumption DEF Inv, StreamsOK
    <3>3. stream[current[new]].next = 0
      BY <1>1, <3>1, <3>2 DEF LogOK, Log
    <3> QED
      BY <3>3 DEF GetLogs
  <2> QED
    BY <2>1, <2>2
<1>6. \/ UNCHANGED subscribers
      \/ subscribers' = [subscribers EXCEPT ![new] = @ \cup subscribers[container], ![container] = {}]
  BY DEF ReplaceContainer, MigrateSubscribers
<1>7. ChannelsOK'
  <2>1. subscribers' \in [Containers -> SUBSET DOMAIN owner]
    BY <1>1, <1>6 DEF Inv, ChannelsOK
  <2>2. \A c, d \in Containers : c # d => subscribers'[c] \cap subscribers'[d] = {}
    BY <1>1, <1>6 DEF Inv, ChannelsOK
  <2> QED
    BY <1>1, <2>1, <2>2 DEF Inv, ChannelsOK
<1>8. Delivered'
  <2>1. buffered' = buffered /\ got' = got /\ missed' = missed /\ subscription' = subscription
        /\ step' = step /\ saw' = saw
    BY <1>1 DEF outcome, clients
  <2>2. ASSUME NEW k \in Clients, NEW c \in Containers, Claim(k, c)'
        PROVE  GetLogs(c) \subseteq got'[k] \/ Claim(k, c)
    <3>1. CASE c = new
      BY <1>5, <3>1
    <3>2. CASE c # new
      <4>1. subscribers'[c] \subseteq subscribers[c]
        BY <1>1, <1>6, <3>2 DEF Inv, ChannelsOK
      <4> QED
        BY <2>1, <2>2, <4>1 DEF Claim
    <3> QED
      BY <3>1, <3>2
  <2> QED
    BY <1>4, <2>1, <2>2, DeliveredStays DEF Inv
<1> QED
  BY <1>1, <1>2, <1>3, <1>7, <1>8, Frames DEF Inv

LEMMA SaveContainerStep == Inv /\ SaveContainer => Inv'
<1> SUFFICES ASSUME Inv, SaveContainer PROVE Inv'
  OBVIOUS
<1>1. /\ DockerOK' /\ UNCHANGED <<channels, clients, outcome>>
      /\ UNCHANGED <<stream, current, printed>>
  BY DEF SaveContainer, Inv, DockerOK, streams
<1>2. /\ StreamsOK' /\ \A c \in Containers : GetLogs(c)' \subseteq GetLogs(c)
      /\ \A q \in Streams : Kept(q)
  BY <1>1, Frames DEF GetLogs, Kept, Inv
<1> QED
  BY <1>1, <1>2, ServerKeeps

LEMMA DeleteServerStep == Inv /\ DeleteServer => Inv'
<1> SUFFICES ASSUME Inv, DeleteServer PROVE Inv'
  OBVIOUS
<1>1. /\ container \in Containers /\ changes' \in 0..MaxChanges
      /\ UNCHANGED <<successor, restarts, printed, current, channels, clients, outcome>>
      /\ up' = up \ {container} /\ container' = NoContainer
      /\ stream' = Stopped(container, TRUE)
  BY DEF DeleteServer, Change, Inv, DockerOK
<1>2. DockerOK'
  BY <1>1 DEF Inv, DockerOK
<1>3. /\ StreamsOK'
      /\ \A s \in Streams : /\ stream'[s].of = stream[s].of /\ stream'[s].at = stream[s].at
                            /\ stream'[s].next = stream[s].next
                            /\ stream'[s].left = stream[s].left
  BY <1>1, Stopping DEF Inv
<1>4. /\ \A c \in Containers : GetLogs(c)' \subseteq GetLogs(c)
      /\ \A q \in Streams : Kept(q)
  BY <1>1, <1>3, StoppingKeeps DEF Inv
<1> QED
  BY <1>1, <1>2, <1>3, <1>4, ServerKeeps

LEMMA PrintsStep ==
  ASSUME Inv, NEW c \in Containers, Prints(c)
  PROVE  Inv'
<1>1. /\ printed[c] < MaxLines /\ printed' = [printed EXCEPT ![c] = @ + 1]
      /\ UNCHANGED <<container, successor, restarts, up, changes, streams, channels, clients, outcome>>
  BY DEF Prints
<1>2. DockerOK'
  BY <1>1 DEF Inv, DockerOK
<1>3. \A d \in Containers : printed[d] \in Nat /\ printed'[d] \in Nat /\ printed[d] <= printed'[d]
  BY <1>1 DEF Inv, DockerOK
<1>4. StreamsOK'
  <2>1. ASSUME NEW s \in Streams PROVE LogOK(stream[s])'
    <3>1. LogOK(stream[s]) /\ stream' = stream
      BY <1>1 DEF Inv, StreamsOK, streams
    <3>2. stream[s].of # NoContainer => stream[s].next <= printed'[stream[s].of]
      BY <1>3, <3>1 DEF LogOK, Log
    <3> QED
      BY <3>1, <3>2 DEF LogOK
  <2> QED
    BY <1>1, <2>1 DEF Inv, StreamsOK, streams
<1>5. /\ \A d \in Containers : GetLogs(d)' \subseteq GetLogs(d)
      /\ \A q \in Streams : Kept(q)
  BY <1>1 DEF GetLogs, Kept, streams
<1> QED
  BY <1>1, <1>2, <1>4, <1>5, ServerKeeps

-----------------------------------------------------------------------------
(* The invariant.                                                           *)

LEMMA InitInv == Init => Inv
<1> SUFFICES ASSUME Init PROVE Inv
  OBVIOUS
<1>1. Delivered
  BY DEF Init, Delivered
<1> QED
  BY <1>1, InitTypes DEF Inv

LEMMA InvStep == Inv /\ [Next]_vars => Inv'
<1> SUFFICES ASSUME Inv, [Next]_vars PROVE Inv'
  OBVIOUS
<1>1. ASSUME NEW s \in Streams, StreamLogs(s) PROVE Inv'
  BY <1>1, EdgeStep, ReadLineStep, CopySubscribersStep, SendLineStep DEF StreamLogs
<1>2. ASSUME NEW k \in Clients, GoesOn(k) PROVE Inv'
  BY <1>2, EnsureStreamStep, SubscribeStep, SendLogsStep, UnregisterStep DEF GoesOn
<1>3. ASSUME NEW k \in Clients, Receives(k) PROVE Inv'
  BY <1>3, HandleSubscribeStep, HandleUnsubscribeStep, CleanUpStep DEF Receives
<1>4. ASSUME NEW h \in Chans, ForwardLogs(h) PROVE Inv'
  BY <1>4, ForwardLogStep DEF ForwardLogs
<1>5. CASE Server
  BY <1>5, CreateContainerStep, StopContainerStep, ReplaceContainerStep, SaveContainerStep,
     DeleteServerStep, StartContainerStep, PrintsStep DEF Server
<1>6. CASE UNCHANGED vars
  <2>1. UNCHANGED <<docker, streams, channels, clients, outcome>>
    BY <1>6 DEF vars
  <2>2. Delivered'
    BY <2>1 DEF Inv, Delivered, GetLogs, Coming, streams, channels, clients, outcome
  <2> QED
    BY <2>1, <2>2, Frames DEF Inv, streams, docker, channels
<1> QED
  BY <1>1, <1>2, <1>3, <1>4, <1>5, <1>6 DEF Next

LEMMA Invariance == Spec => []Inv
  BY InitInv, InvStep, PTL DEF Spec

\* Streams, channels and browsers keep their form whatever is started, stopped,
\* replaced or closed (log_streamer.go, hub.go).
THEOREM TypeCorrect == Spec => []TypeOK
<1>1. Inv => TypeOK
  BY TypesImply DEF Inv
<1> QED
  BY <1>1, Invariance, PTL

\* No line falls between the log a browser is sent and the lines it is sent one by
\* one: registered first and sent the kept log after that, it was sent every line
\* its container's stream has kept, or the line is coming, or met its full channel,
\* through replacements, stops and other browsers' leaving (handleSubscribe, broadcast).
THEOREM NothingFallsBetween == Spec => []NoLineIsLost
<1>1. Inv => NoLineIsLost
  BY DEF Inv, Delivered, NoLineIsLost, Listens
<1> QED
  BY <1>1, Invariance, PTL
=============================================================================
