------------------------- MODULE ServerLifecycleProofs -------------------------
(***************************************************************************)
(* Theorems about ServerLifecycle for every set of containers and every    *)
(* value of the bounds.                                                    *)
(*                                                                         *)
(* What a call promises at its end rests on what holds at each of its      *)
(* points (Keeps): which container can exist there, as its copy of the row *)
(* or the result of the recreation names it, and whether the row names it  *)
(* too.  While one call runs at a time and nothing has failed, every step  *)
(* takes the call from one such promise to the next.                       *)
(***************************************************************************)
EXTENDS ServerLifecycle, TLAPS

\* What holds of Docker and the row at the points of a call.
Keeps(x) ==
  /\ x.at \in {"create", "createNew", "erase"} => Existing = {}
  /\ x.at = "startNew" => Existing = {x.made}
  /\ x.at \notin {"create", "createNew", "erase", "startNew"} => Existing \subseteq {x.copy.container}
  /\ x.at \in {"stop", "start", "observe"} => row # NoRow /\ row.container = x.copy.container
  /\ x.kind = "create" /\ x.at \in {"saveId", "start"} => x.copy.container \in Existing
  /\ x.copy.status # "error"

\* A server is created once, and calls run only while the panel does.
Begun == /\ ~born => row = NoRow /\ Idle
         /\ panel = "off" => Idle

Healthy == row # NoRow => row.status # "error"

\* What holds as long as nothing has failed.
Faultless ==
  /\ Healthy
  /\ TracksContainer
  /\ \A a \in Calls : call[a] # NoCall => Keeps(call[a])

\* Calls run one at a time.
Serial == \A a, b \in Calls : a = b

\* The types of everything but the list of the shutdown.
Typed ==
  /\ docker \in [Containers -> {"none"} \cup Exists]
  /\ row \in Row \cup {NoRow} /\ born \in BOOLEAN
  /\ panel \in {"off", "up", "leaving", "closing"}
  /\ call \in [Calls -> Call \cup {NoCall}]
  /\ requests \in 0..MaxRequests /\ health \in 0..MaxHealth
  /\ crashes \in 0..MaxCrashes /\ faults \in 0..MaxFaults

Inv == Typed /\ (Serial => Begun /\ (faults = 0 => Faultless))

-----------------------------------------------------------------------------
(* Types.                                                                   *)

\* The bounds are numbers, one by one.
LEMMA Bounds == MaxFaults \in Nat /\ MaxCrashes \in Nat /\ MaxRequests \in Nat /\ MaxHealth \in Nat
  BY LimitAssumption

USE Bounds

DockerTyped == docker \in [Containers -> {"none"} \cup Exists]
RowTyped    == row \in Row \cup {NoRow} /\ born \in BOOLEAN
PanelTyped  == panel \in {"off", "up", "leaving", "closing"}
CallsTyped  == call \in [Calls -> Call \cup {NoCall}]
LimitsTyped == /\ requests \in 0..MaxRequests /\ health \in 0..MaxHealth
               /\ crashes \in 0..MaxCrashes /\ faults \in 0..MaxFaults

LEMMA TypesAre == Typed <=> DockerTyped /\ RowTyped /\ PanelTyped /\ CallsTyped /\ LimitsTyped
  BY DEF Typed, DockerTyped, RowTyped, PanelTyped, CallsTyped, LimitsTyped

\* A row is not the absence of one, a call not the absence of one.
LEMMA RowIsARow == \A r \in Row : r # NoRow
<1> SUFFICES ASSUME NEW r \in Row, r = NoRow PROVE FALSE
  OBVIOUS
<1>1. DOMAIN r = {"container", "status", "settings"}
  BY DEF Row
<1>2. DOMAIN r = {"container"}
  BY DEF NoRow
<1> QED
  BY <1>1, <1>2

LEMMA CallIsACall == \A x \in Call : x # NoCall /\ x.at # "idle" /\ x.at \in Points
<1> SUFFICES ASSUME NEW x \in Call PROVE x # NoCall /\ x.at # "idle" /\ x.at \in Points
  OBVIOUS
<1>1. x.at \in Points
  BY DEF Call
<1>2. x.at # "idle"
  BY <1>1 DEF Points
<1>3. NoCall.at = "idle"
  BY DEF NoCall
<1> QED
  BY <1>1, <1>2, <1>3

\* A call that is somewhere has its memory.
LEMMA Busy ==
  ASSUME CallsTyped, NEW a \in Calls, call[a] # NoCall \/ call[a].at # "idle"
  PROVE  /\ call[a] \in Call /\ call[a] # NoCall
         /\ call[a].kind \in AllKinds /\ call[a].at \in Points /\ call[a].copy \in Row
         /\ call[a].was \in BOOLEAN /\ call[a].made \in Containers \cup {NoContainer}
         /\ Of(a) \in Containers \cup {NoContainer} /\ call[a].copy.status \in Statuses
<1>1. NoCall.at = "idle"
  BY DEF NoCall
<1>2. call[a] \in Call
  BY <1>1 DEF CallsTyped
<1>3. call[a] # NoCall
  BY <1>2, CallIsACall
<1>4. call[a].copy \in Row
  BY <1>2 DEF Call
<1> QED
  BY <1>2, <1>3, <1>4 DEF Call, Row, Of

\* What the steps of a call do to the calls.
LEMMA Entered ==
  ASSUME CallsTyped, NEW a \in Calls, NEW k \in AllKinds, NEW point \in Points,
         NEW copy \in Row, NEW was \in BOOLEAN, Enter(a, k, point, copy, was)
  PROVE  /\ CallsTyped' /\ call[a] = NoCall /\ call'[a] # NoCall
         /\ call'[a].kind = k /\ call'[a].at = point /\ call'[a].copy = copy
<1> DEFINE x == [kind |-> k, at |-> point, copy |-> copy, was |-> was, made |-> NoContainer]
<1>1. x \in Call
  BY DEF Call
<1>2. call' = [call EXCEPT ![a] = x] /\ call[a] = NoCall
  BY DEF Enter
<1>3. x # NoCall
  BY <1>1, CallIsACall
<1>4. x.kind = k /\ x.at = point /\ x.copy = copy
  OBVIOUS
<1> HIDE DEF x
<1>5. call'[a] = x
  BY <1>2 DEF CallsTyped
<1> QED
  BY <1>1, <1>2, <1>3, <1>4, <1>5 DEF CallsTyped

LEMMA Gone ==
  ASSUME CallsTyped, NEW a \in Calls, call[a].at # "idle", NEW to \in Points,
         NEW copy \in Row, GoesWith(a, to, copy)
  PROVE  /\ CallsTyped' /\ call'[a] # NoCall
         /\ call'[a].kind = call[a].kind /\ call'[a].at = to /\ call'[a].copy = copy
         /\ call'[a].was = call[a].was /\ call'[a].made = call[a].made
<1> DEFINE x == [kind |-> call[a].kind, at |-> to, copy |-> copy,
                 was |-> call[a].was, made |-> call[a].made]
<1>1. x \in Call
  BY Busy DEF Call
<1>2. call' = [call EXCEPT ![a] = x]
  BY DEF GoesWith
<1>3. x # NoCall
  BY <1>1, CallIsACall
<1>4. x.kind = call[a].kind /\ x.at = to /\ x.copy = copy /\ x.was = call[a].was
      /\ x.made = call[a].made
  OBVIOUS
<1> HIDE DEF x
<1>5. call'[a] = x
  BY <1>2 DEF CallsTyped
<1> QED
  BY <1>1, <1>2, <1>3, <1>4, <1>5 DEF CallsTyped

LEMMA Remembered ==
  ASSUME CallsTyped, NEW a \in Calls, call[a].at # "idle", NEW to \in Points,
         NEW was \in BOOLEAN, NEW made \in Containers \cup {NoContainer},
         Remembers(a, to, was, made)
  PROVE  /\ CallsTyped' /\ call'[a] # NoCall
         /\ call'[a].kind = call[a].kind /\ call'[a].at = to /\ call'[a].copy = call[a].copy
         /\ call'[a].was = was /\ call'[a].made = made
<1> DEFINE x == [kind |-> call[a].kind, at |-> to, copy |-> call[a].copy,
                 was |-> was, made |-> made]
<1>1. x \in Call
  BY Busy DEF Call
<1>2. call' = [call EXCEPT ![a] = x]
  BY DEF Remembers
<1>3. x # NoCall
  BY <1>1, CallIsACall
<1>4. x.kind = call[a].kind /\ x.at = to /\ x.copy = call[a].copy /\ x.was = was /\ x.made = made
  OBVIOUS
<1> HIDE DEF x
<1>5. call'[a] = x
  BY <1>2 DEF CallsTyped
<1> QED
  BY <1>1, <1>2, <1>3, <1>4, <1>5 DEF CallsTyped

LEMMA Returned ==
  ASSUME CallsTyped, NEW a \in Calls, Returns(a)
  PROVE  CallsTyped' /\ call'[a] = NoCall
  BY DEF CallsTyped, Returns

\* The copy a call goes on with is a row.
LEMMA CopyIsARow ==
  ASSUME CallsTyped, NEW a \in Calls, call[a].at # "idle",
         NEW c \in Containers \cup {NoContainer}, NEW status \in Statuses
  PROVE  /\ Copy(a, c, status) \in Row
         /\ Copy(a, c, status).container = c /\ Copy(a, c, status).status = status
<1>1. call[a].copy \in Row
  BY Busy
<1> QED
  BY <1>1 DEF Copy, With, Row

-----------------------------------------------------------------------------
(* What the operations on Docker do to the containers there are.            *)

LEMMA FreshIsFree == Free # {} => Fresh \in Containers /\ docker[Fresh] = "none"
  BY DEF Free, Fresh

LEMMA Issued ==
  ASSUME DockerTyped, Issue
  PROVE  DockerTyped' /\ Fresh \in Containers /\ Existing = {} /\ Existing' = {Fresh}
<1>1. Fresh \in Containers /\ docker[Fresh] = "none" /\ Existing = {}
  BY FreshIsFree DEF Issue
<1>2. docker' = [docker EXCEPT ![Fresh] = "created"] /\ "created" \in Exists
  BY DEF Issue, Exists
<1> HIDE DEF Exists
<1>3. DockerTyped'
  BY <1>1, <1>2 DEF DockerTyped
<1>4. Existing' = {Fresh}
  BY <1>1, <1>2 DEF Existing, DockerTyped
<1> QED
  BY <1>1, <1>3, <1>4

\* Starting and stopping leave the containers that exist, removing takes one.
LEMMA Starting ==
  ASSUME DockerTyped, NEW c \in Containers \cup {NoContainer}, Started(c)
  PROVE  DockerTyped' /\ Existing' = Existing /\ c \in Existing
<1>1. c \in Containers /\ docker[c] \in Exists
  BY DEF Started, DockerState, Exists, Up
<1>2. docker' = docker \/ docker' = [docker EXCEPT ![c] = "starting"]
  BY DEF Started
<1>3. "starting" \in Exists
  BY DEF Exists, Up
<1> QED
  BY <1>1, <1>2, <1>3 DEF DockerTyped, Existing

LEMMA Stopping ==
  ASSUME DockerTyped, NEW c, Stopped(c)
  PROVE  DockerTyped' /\ Existing' = Existing
<1>1. \/ docker' = docker
      \/ docker[c] \in Up /\ docker' = [docker EXCEPT ![c] = "exited"]
  <2>1. CASE c = NoContainer
    <3>1. DockerState(c) \notin Up
      BY <2>1 DEF DockerState, Up
    <3> QED
      BY <3>1 DEF Stopped
  <2>2. CASE c # NoContainer
    BY <2>2 DEF Stopped, DockerState
  <2> QED
    BY <2>1, <2>2
<1>2. "exited" \in Exists /\ Up \subseteq Exists
  BY DEF Exists
<1> QED
  BY <1>1, <1>2 DEF DockerTyped, Existing

LEMMA Discarding ==
  ASSUME DockerTyped, NEW c, Discarded(c)
  PROVE  DockerTyped' /\ Existing' = Existing \ {c}
<1>1. "none" \notin Exists
  BY DEF Exists, Up
<1> QED
  BY <1>1 DEF DockerTyped, Existing, Discarded

LEMMA Cleaning ==
  ASSUME DockerTyped, NEW tracked, CleanUp(tracked)
  PROVE  DockerTyped' /\ Existing' = Existing \cap tracked
<1>1. "none" \notin Exists
  BY DEF Exists, Up
<1> QED
  BY <1>1 DEF DockerTyped, Existing, CleanUp

\* A start is refused only if there is no such container, or by a failure.
LEMMA Refused ==
  ASSUME DockerTyped, LimitsTyped, NEW c \in Containers \cup {NoContainer}, StartRefused(c)
  PROVE  DockerTyped' /\ Existing' = Existing /\ faults' \in 0..MaxFaults
         /\ (faults' = 0 => faults = 0 /\ c \notin Existing)
<1>1. docker' = docker
  BY DEF StartRefused
<1>2. \/ DockerState(c) \notin Exists /\ faults' = faults
      \/ faults' = faults + 1 /\ faults < MaxFaults
  BY DEF StartRefused, Fails
<1>3. faults \in Nat /\ faults' \in 0..MaxFaults
  BY <1>2 DEF LimitsTyped
<1>4. DockerState(c) \notin Exists => c \notin Existing
  BY NoneAssumption DEF DockerState, Existing
<1> QED
  BY <1>1, <1>2, <1>3, <1>4 DEF DockerTyped, Existing

\* The same of the creation of a container.
LEMMA IssueIsRefused ==
  ASSUME DockerTyped, LimitsTyped, IssueRefused
  PROVE  DockerTyped' /\ Existing' = Existing /\ faults' \in 0..MaxFaults
         /\ (faults' = 0 => faults = 0 /\ Existing # {})
<1>1. docker' = docker
  BY DEF IssueRefused
<1>2. \/ Existing # {} /\ faults' = faults
      \/ faults' = faults + 1 /\ faults < MaxFaults
  BY DEF IssueRefused, Fails
<1>3. faults \in Nat /\ faults' \in 0..MaxFaults
  BY <1>2 DEF LimitsTyped
<1> QED
  BY <1>1, <1>2, <1>3 DEF DockerTyped, Existing

\* After a failure there has been one.
LEMMA Failing ==
  ASSUME LimitsTyped, NEW what, Fails(what)
  PROVE  faults' \in 0..MaxFaults /\ faults' # 0
  BY DEF LimitsTyped, Fails

-----------------------------------------------------------------------------
(* The shape of a step of a call.                                           *)

\* What a call that is somewhere can rely on.
LEMMA Running ==
  ASSUME Inv, NEW a \in Calls, call[a].at # "idle"
  PROVE  /\ DockerTyped /\ RowTyped /\ CallsTyped /\ LimitsTyped
         /\ call[a] \in Call /\ call[a].kind \in AllKinds
         /\ call[a].copy \in Row /\ call[a].copy # NoRow
         /\ Of(a) \in Containers \cup {NoContainer} /\ call[a].copy.status \in Statuses
         /\ call[a].made \in Containers \cup {NoContainer}
         /\ Serial /\ faults = 0 => Keeps(call[a]) /\ Healthy
<1>1. DockerTyped /\ RowTyped /\ CallsTyped /\ LimitsTyped
  BY TypesAre DEF Inv
<1>2. call[a] \in Call /\ call[a] # NoCall /\ call[a].copy \in Row
  BY <1>1, Busy
<1>3. Serial /\ faults = 0 => Keeps(call[a]) /\ Healthy
  BY <1>2 DEF Inv, Faultless
<1> QED
  BY <1>1, <1>2, <1>3, Busy, RowIsARow

\* It goes on, and what holds at its next point holds.
LEMMA Continues ==
  ASSUME Inv, NEW a \in Calls, call[a].at # "idle", Local,
         DockerTyped', RowTyped', CallsTyped', faults' \in 0..MaxFaults,
         call'[a] # NoCall,
         Serial /\ faults' = 0 => Keeps(call[a])' /\ Healthy'
  PROVE  Inv'
<1>1. Typed'
  <2>1. PanelTyped' /\ LimitsTyped'
    BY TypesAre DEF Inv, Local, PanelTyped, LimitsTyped
  <2> QED
    BY <2>1 DEF Typed, DockerTyped, RowTyped, PanelTyped, CallsTyped, LimitsTyped
<1>2. ASSUME Serial PROVE Begun' /\ (faults' = 0 => Faultless')
  <2>1. call[a] # NoCall
    BY Busy, TypesAre DEF Inv
  <2>2. born /\ panel # "off"
    BY <1>2, <2>1 DEF Inv, Begun, Idle
  <2>3. Begun'
    BY <2>2 DEF Begun, Local
  <2>4. ~Idle'
    BY DEF Idle
  <2>5. faults' = 0 => Faultless'
    BY <1>2, <2>4 DEF Faultless, TracksContainer, Serial
  <2> QED
    BY <2>3, <2>5
<1> QED
  BY <1>1, <1>2 DEF Inv

\* It returns, and the row names what there is.
LEMMA Ends ==
  ASSUME Inv, NEW a \in Calls, call[a].at # "idle", Local,
         DockerTyped', RowTyped', CallsTyped', faults' \in 0..MaxFaults,
         call'[a] = NoCall,
         Serial /\ faults' = 0 => Healthy' /\ (Existing \subseteq Tracked)'
  PROVE  Inv'
<1>1. Typed'
  <2>1. PanelTyped' /\ LimitsTyped'
    BY TypesAre DEF Inv, Local, PanelTyped, LimitsTyped
  <2> QED
    BY <2>1 DEF Typed, DockerTyped, RowTyped, PanelTyped, CallsTyped, LimitsTyped
<1>2. ASSUME Serial PROVE Begun' /\ (faults' = 0 => Faultless')
  <2>1. call[a] # NoCall
    BY Busy, TypesAre DEF Inv
  <2>2. born /\ panel # "off"
    BY <1>2, <2>1 DEF Inv, Begun, Idle
  <2>3. Begun'
    BY <2>2 DEF Begun, Local
  <2>4. \A b \in Calls : call'[b] = NoCall
    BY <1>2 DEF Serial
  <2>5. faults' = 0 => Faultless'
    BY <1>2, <2>4 DEF Faultless, TracksContainer
  <2> QED
    BY <2>3, <2>5
<1> QED
  BY <1>1, <1>2 DEF Inv

\* It returns because of a failure.
LEMMA GivesUp ==
  ASSUME Inv, NEW a \in Calls, call[a].at # "idle", Local, Returns(a),
         UNCHANGED <<docker, row>>, NEW what, Fails(what)
  PROVE  Inv'
<1>1. DockerTyped /\ RowTyped /\ CallsTyped /\ LimitsTyped
  BY TypesAre DEF Inv
<1>2. DockerTyped' /\ RowTyped' /\ CallsTyped' /\ call'[a] = NoCall
  BY <1>1, Returned DEF DockerTyped, RowTyped, Local
<1>3. faults' \in 0..MaxFaults /\ faults' # 0
  BY <1>1, Failing
<1> QED
  BY <1>2, <1>3, Ends

\* It goes on in spite of one.
LEMMA GoesOn ==
  ASSUME Inv, NEW a \in Calls, call[a].at # "idle", Local,
         NEW to \in Points, NEW copy \in Row, GoesWith(a, to, copy),
         UNCHANGED <<docker, row>>, NEW what, Fails(what)
  PROVE  Inv'
<1>1. DockerTyped /\ RowTyped /\ CallsTyped /\ LimitsTyped
  BY TypesAre DEF Inv
<1>2. DockerTyped' /\ RowTyped' /\ CallsTyped' /\ call'[a] # NoCall
  BY <1>1, Gone DEF DockerTyped, RowTyped, Local
<1>3. faults' \in 0..MaxFaults /\ faults' # 0
  BY <1>1, Failing
<1> QED
  BY <1>2, <1>3, Continues

-----------------------------------------------------------------------------
(* The steps of a call.                                                     *)

LEMMA CreateContainerStep ==
  ASSUME Inv, NEW a \in Calls, CreateContainer(a)
  PROVE  Inv'
<1>1. call[a].at = "create" /\ Local /\ row' = row /\ faults' = faults /\ born' = born
      /\ Issue /\ GoesWith(a, "saveId", Copy(a, Fresh, call[a].copy.status))
  BY DEF CreateContainer, Local
<1>2. /\ DockerTyped /\ RowTyped /\ CallsTyped /\ LimitsTyped /\ call[a].copy.status \in Statuses
      /\ Serial /\ faults = 0 => Keeps(call[a]) /\ Healthy
  BY <1>1, Running
<1>3. DockerTyped' /\ Fresh \in Containers /\ Existing' = {Fresh}
  BY <1>1, <1>2, Issued
<1> DEFINE copy == Copy(a, Fresh, call[a].copy.status)
<1>4. copy \in Row /\ copy.container = Fresh /\ copy.status = call[a].copy.status
  BY <1>1, <1>2, <1>3, CopyIsARow
<1> HIDE DEF copy
<1>5. CallsTyped' /\ call'[a] # NoCall /\ call'[a].at = "saveId" /\ call'[a].copy = copy
  BY <1>1, <1>2, <1>4, Gone DEF Points, copy
<1>6. Serial /\ faults' = 0 => Keeps(call[a])' /\ Healthy'
  BY <1>1, <1>2, <1>3, <1>4, <1>5 DEF Keeps, Healthy
<1>7. RowTyped' /\ faults' \in 0..MaxFaults
  BY <1>1, <1>2 DEF RowTyped, LimitsTyped
<1> QED
  BY <1>1, <1>3, <1>5, <1>6, <1>7, Continues

LEMMA CreateContainerFailsStep ==
  ASSUME Inv, NEW a \in Calls, CreateContainerFails(a)
  PROVE  Inv'
<1>1. call[a].at = "create" /\ Local /\ row' = row /\ born' = born /\ IssueRefused
  BY DEF CreateContainerFails, Local
<1>2. /\ DockerTyped /\ RowTyped /\ CallsTyped /\ LimitsTyped /\ call[a].copy.status \in Statuses
      /\ Serial /\ faults = 0 => Keeps(call[a]) /\ Healthy
  BY <1>1, Running
<1>3. DockerTyped' /\ Existing' = Existing /\ faults' \in 0..MaxFaults
      /\ (faults' = 0 => faults = 0 /\ Existing # {})
  BY <1>1, <1>2, IssueIsRefused
<1>4. ~(Serial /\ faults' = 0)
  BY <1>1, <1>2, <1>3 DEF Keeps
<1>5. RowTyped'
  BY <1>1, <1>2 DEF RowTyped
<1>6. CASE Returns(a)
  BY <1>1, <1>2, <1>3, <1>4, <1>5, <1>6, Returned, Ends
<1>7. CASE GoesWith(a, "save", Copy(a, NoContainer, "error"))
  <2>1. Copy(a, NoContainer, "error") \in Row
    BY <1>1, <1>2, CopyIsARow DEF Statuses
  <2>2. CallsTyped' /\ call'[a] # NoCall
    BY <1>1, <1>2, <1>7, <2>1, Gone DEF Points
  <2> QED
    BY <1>1, <1>3, <1>4, <1>5, <2>2, Continues
<1> QED
  BY <1>6, <1>7 DEF CreateContainerFails

LEMMA SaveContainerStep ==
  ASSUME Inv, NEW a \in Calls, SaveContainer(a)
  PROVE  Inv'
<1>1. /\ call[a].at = "saveId" /\ call[a].at # "idle" /\ Local
      /\ row' = call[a].copy /\ docker' = docker /\ faults' = faults
  BY DEF SaveContainer
<1>2. /\ DockerTyped /\ RowTyped /\ CallsTyped /\ LimitsTyped
      /\ call[a].copy \in Row /\ call[a].copy # NoRow
      /\ Of(a) \in Containers \cup {NoContainer} /\ call[a].copy.status \in Statuses
      /\ call[a].made \in Containers \cup {NoContainer}
      /\ Serial /\ faults = 0 => Keeps(call[a]) /\ Healthy
  BY <1>1, Running
<1>3. /\ DockerTyped' /\ RowTyped' /\ faults' \in 0..MaxFaults
      /\ Existing' = Existing
  BY <1>1, <1>2 DEF DockerTyped, Existing, RowTyped, LimitsTyped, Local
<1>4. CASE Goes(a, "start")
  <2>2. /\ CallsTyped' /\ call'[a] # NoCall /\ call'[a].at = "start"
        /\ call'[a].copy = call[a].copy /\ call'[a].kind = call[a].kind
    BY <1>1, <1>2, <1>4, Gone DEF Points, Goes, Is
  <2>3. Serial /\ faults' = 0 => Keeps(call[a])' /\ Healthy'
    BY <1>1, <1>2, <1>3, <1>4, <2>2 DEF Keeps, Healthy, Of, Is
  <2> QED
    BY <1>1, <1>3, <2>2, <2>3, Continues
<1>5. CASE GoesWith(a, "save", Copy(a, Of(a), "stopped"))
  <2> DEFINE copy == Copy(a, Of(a), "stopped")
  <2>1. copy \in Row /\ copy.container = Of(a) /\ copy.status = "stopped"
    BY <1>1, <1>2, <1>3, CopyIsARow DEF Statuses
  <2> HIDE DEF copy
  <2>2. /\ CallsTyped' /\ call'[a] # NoCall /\ call'[a].at = "save"
        /\ call'[a].copy = copy /\ call'[a].kind = call[a].kind
    BY <1>1, <1>2, <1>5, <2>1, Gone DEF Points, copy
  <2>3. Serial /\ faults' = 0 => Keeps(call[a])' /\ Healthy'
    BY <1>1, <1>2, <1>3, <1>5, <2>1, <2>2 DEF Keeps, Healthy, Of, Is
  <2> QED
    BY <1>1, <1>3, <2>2, <2>3, Continues
<1> QED
  BY <1>1, <1>4, <1>5 DEF SaveContainer

LEMMA StartContainerStep ==
  ASSUME Inv, NEW a \in Calls, StartContainer(a)
  PROVE  Inv'
<1>1. /\ call[a].at = "start" /\ call[a].at # "idle" /\ Local
      /\ row' = row /\ faults' = faults /\ Started(Of(a))
  BY DEF StartContainer
<1>2. /\ DockerTyped /\ RowTyped /\ CallsTyped /\ LimitsTyped
      /\ call[a].copy \in Row /\ call[a].copy # NoRow
      /\ Of(a) \in Containers \cup {NoContainer} /\ call[a].copy.status \in Statuses
      /\ call[a].made \in Containers \cup {NoContainer}
      /\ Serial /\ faults = 0 => Keeps(call[a]) /\ Healthy
  BY <1>1, Running
<1>3. /\ DockerTyped' /\ RowTyped' /\ faults' \in 0..MaxFaults
      /\ Existing' = Existing
  BY <1>1, <1>2, Starting DEF RowTyped, LimitsTyped, Local
<1>4. CASE GoesWith(a, "save", Copy(a, Of(a), "running"))
  <2> DEFINE copy == Copy(a, Of(a), "running")
  <2>1. copy \in Row /\ copy.container = Of(a) /\ copy.status = "running"
    BY <1>1, <1>2, <1>3, CopyIsARow DEF Statuses
  <2> HIDE DEF copy
  <2>2. /\ CallsTyped' /\ call'[a] # NoCall /\ call'[a].at = "save"
        /\ call'[a].copy = copy /\ call'[a].kind = call[a].kind
    BY <1>1, <1>2, <1>4, <2>1, Gone DEF Points, copy
  <2>3. Serial /\ faults' = 0 => Keeps(call[a])' /\ Healthy'
    BY <1>1, <1>2, <1>3, <1>4, <2>1, <2>2 DEF Keeps, Healthy, Of, Is
  <2> QED
    BY <1>1, <1>3, <2>2, <2>3, Continues
<1>5. CASE GoesWith(a, "save", Copy(a, Of(a), "starting"))
  <2> DEFINE copy == Copy(a, Of(a), "starting")
  <2>1. copy \in Row /\ copy.container = Of(a) /\ copy.status = "starting"
    BY <1>1, <1>2, <1>3, CopyIsARow DEF Statuses
  <2> HIDE DEF copy
  <2>2. /\ CallsTyped' /\ call'[a] # NoCall /\ call'[a].at = "save"
        /\ call'[a].copy = copy /\ call'[a].kind = call[a].kind
    BY <1>1, <1>2, <1>5, <2>1, Gone DEF Points, copy
  <2>3. Serial /\ faults' = 0 => Keeps(call[a])' /\ Healthy'
    BY <1>1, <1>2, <1>3, <1>5, <2>1, <2>2 DEF Keeps, Healthy, Of, Is
  <2> QED
    BY <1>1, <1>3, <2>2, <2>3, Continues
<1> QED
  BY <1>1, <1>4, <1>5 DEF StartContainer

LEMMA StartContainerFailsStep ==
  ASSUME Inv, NEW a \in Calls, StartContainerFails(a)
  PROVE  Inv'
<1>1. /\ call[a].at = "start" /\ call[a].at # "idle" /\ Local
      /\ row' = row /\ StartRefused(Of(a))
  BY DEF StartContainerFails
<1>2. /\ DockerTyped /\ RowTyped /\ CallsTyped /\ LimitsTyped
      /\ call[a].copy \in Row /\ call[a].copy # NoRow
      /\ Of(a) \in Containers \cup {NoContainer} /\ call[a].copy.status \in Statuses
      /\ call[a].made \in Containers \cup {NoContainer}
      /\ Serial /\ faults = 0 => Keeps(call[a]) /\ Healthy
  BY <1>1, Running
<1>3. /\ DockerTyped' /\ RowTyped' /\ faults' \in 0..MaxFaults
      /\ Existing' = Existing /\ (faults' = 0 => faults = 0 /\ Of(a) \notin Existing)
  BY <1>1, <1>2, Refused DEF RowTyped, Local
<1>4. CASE Goes(a, "inspect")
  <2>2. /\ CallsTyped' /\ call'[a] # NoCall /\ call'[a].at = "inspect"
        /\ call'[a].copy = call[a].copy /\ call'[a].kind = call[a].kind
    BY <1>1, <1>2, <1>4, Gone DEF Points, Goes, Is
  <2>3. Serial /\ faults' = 0 => Keeps(call[a])' /\ Healthy'
    BY <1>1, <1>2, <1>3, <1>4, <2>2 DEF Keeps, Healthy, Of, Is
  <2> QED
    BY <1>1, <1>3, <2>2, <2>3, Continues
<1>5. CASE Is(a, {"create"}, "start") /\ GoesWith(a, "save", Copy(a, Of(a), "error"))
  <2> DEFINE copy == Copy(a, Of(a), "error")
  <2>1. copy \in Row /\ copy.container = Of(a) /\ copy.status = "error"
    BY <1>1, <1>2, <1>3, CopyIsARow DEF Statuses
  <2> HIDE DEF copy
  <2>2. /\ CallsTyped' /\ call'[a] # NoCall /\ call'[a].at = "save"
        /\ call'[a].copy = copy /\ call'[a].kind = call[a].kind
    BY <1>1, <1>2, <1>5, <2>1, Gone DEF Points, copy
  <2>3. Serial /\ faults' = 0 => Keeps(call[a])' /\ Healthy'
    BY <1>1, <1>2, <1>3, <1>5, <2>1, <2>2 DEF Keeps, Healthy, Of, Is
  <2> QED
    BY <1>1, <1>3, <2>2, <2>3, Continues
<1>6. CASE Returns(a)
  <2>1. CallsTyped' /\ call'[a] = NoCall
    BY <1>2, <1>6, Returned
  <2>2. Serial /\ faults' = 0 => Healthy' /\ (Existing \subseteq Tracked)'
    BY <1>1, <1>2, <1>3, <2>1 DEF Keeps, Healthy, Of, Tracked
  <2> QED
    BY <1>1, <1>3, <2>1, <2>2, Ends
<1> QED
  BY <1>1, <1>4, <1>5, <1>6 DEF StartContainerFails

LEMMA StopContainerStep ==
  ASSUME Inv, NEW a \in Calls, StopContainer(a)
  PROVE  Inv'
<1>1. /\ call[a].at = "stop" /\ call[a].at # "idle" /\ Local
      /\ row' = row /\ faults' = faults /\ Stopped(Of(a))
  BY DEF StopContainer
<1>2. /\ DockerTyped /\ RowTyped /\ CallsTyped /\ LimitsTyped
      /\ call[a].copy \in Row /\ call[a].copy # NoRow
      /\ Of(a) \in Containers \cup {NoContainer} /\ call[a].copy.status \in Statuses
      /\ call[a].made \in Containers \cup {NoContainer}
      /\ Serial /\ faults = 0 => Keeps(call[a]) /\ Healthy
  BY <1>1, Running
<1>3. /\ DockerTyped' /\ RowTyped' /\ faults' \in 0..MaxFaults
      /\ Existing' = Existing
  BY <1>1, <1>2, Stopping DEF RowTyped, LimitsTyped, Local
<1>4. CASE GoesWith(a, "save", Copy(a, Of(a), "stopping"))
  <2> DEFINE copy == Copy(a, Of(a), "stopping")
  <2>1. copy \in Row /\ copy.container = Of(a) /\ copy.status = "stopping"
    BY <1>1, <1>2, <1>3, CopyIsARow DEF Statuses
  <2> HIDE DEF copy
  <2>2. /\ CallsTyped' /\ call'[a] # NoCall /\ call'[a].at = "save"
        /\ call'[a].copy = copy /\ call'[a].kind = call[a].kind
    BY <1>1, <1>2, <1>4, <2>1, Gone DEF Points, copy
  <2>3. Serial /\ faults' = 0 => Keeps(call[a])' /\ Healthy'
    BY <1>1, <1>2, <1>3, <1>4, <2>1, <2>2 DEF Keeps, Healthy, Of, Is
  <2> QED
    BY <1>1, <1>3, <2>2, <2>3, Continues
<1>5. CASE DockerState(Of(a)) \notin Exists /\ GoesWith(a, "save", Copy(a, NoContainer, "stopped"))
  <2> DEFINE copy == Copy(a, NoContainer, "stopped")
  <2>1. copy \in Row /\ copy.container = NoContainer /\ copy.status = "stopped"
    BY <1>1, <1>2, <1>3, CopyIsARow DEF Statuses
  <2> HIDE DEF copy
  <2>2. /\ CallsTyped' /\ call'[a] # NoCall /\ call'[a].at = "save"
        /\ call'[a].copy = copy /\ call'[a].kind = call[a].kind
    BY <1>1, <1>2, <1>5, <2>1, Gone DEF Points, copy
  <2>3. Serial /\ faults' = 0 => Keeps(call[a])' /\ Healthy'
    BY <1>1, <1>2, <1>3, <1>5, <2>1, <2>2 DEF Keeps, Healthy, Of, Is, DockerState, Existing
  <2> QED
    BY <1>1, <1>3, <2>2, <2>3, Continues
<1>6. CASE Goes(a, "start") /\ call[a].kind # "create"
  <2>2. /\ CallsTyped' /\ call'[a] # NoCall /\ call'[a].at = "start"
        /\ call'[a].copy = call[a].copy /\ call'[a].kind = call[a].kind
    BY <1>1, <1>2, <1>6, Gone DEF Points, Goes, Is
  <2>3. Serial /\ faults' = 0 => Keeps(call[a])' /\ Healthy'
    BY <1>1, <1>2, <1>3, <1>6, <2>2 DEF Keeps, Healthy, Of, Is
  <2> QED
    BY <1>1, <1>3, <2>2, <2>3, Continues
<1>7. CASE Goes(a, "remove")
  <2>2. /\ CallsTyped' /\ call'[a] # NoCall /\ call'[a].at = "remove"
        /\ call'[a].copy = call[a].copy /\ call'[a].kind = call[a].kind
    BY <1>1, <1>2, <1>7, Gone DEF Points, Goes, Is
  <2>3. Serial /\ faults' = 0 => Keeps(call[a])' /\ Healthy'
    BY <1>1, <1>2, <1>3, <1>7, <2>2 DEF Keeps, Healthy, Of, Is
  <2> QED
    BY <1>1, <1>3, <2>2, <2>3, Continues
<1> QED
  BY <1>1, <1>4, <1>5, <1>6, <1>7 DEF StopContainer, Is

LEMMA StopContainerFailsStep ==
  ASSUME Inv, NEW a \in Calls, StopContainerFails(a)
  PROVE  Inv'
<1>1. call[a].at = "stop" /\ call[a].at # "idle" /\ Local /\ UNCHANGED <<docker, row>>
  BY DEF StopContainerFails
<1>2. Fails("docker") /\ call[a].copy \in Row
  BY <1>1, Running DEF StopContainerFails
<1>3. CASE Goes(a, "remove")
  BY <1>1, <1>2, <1>3, GoesOn DEF Goes, Points
<1>4. CASE Returns(a)
  BY <1>1, <1>2, <1>4, GivesUp
<1> QED
  BY <1>3, <1>4 DEF StopContainerFails

LEMMA InspectOldFailsStep ==
  ASSUME Inv, NEW a \in Calls, InspectOldFails(a)
  PROVE  Inv'
<1>1. call[a].at = "inspect" /\ call[a].at # "idle" /\ Local /\ UNCHANGED <<docker, row>>
  BY DEF InspectOldFails
<1>2. Fails("docker") /\ call[a].copy \in Row
  BY <1>1, Running DEF InspectOldFails
<1>3. CASE Goes(a, "remove")
  BY <1>1, <1>2, <1>3, GoesOn DEF Goes, Points
<1> QED
  BY <1>3 DEF InspectOldFails

LEMMA ObserveFailsStep ==
  ASSUME Inv, NEW a \in Calls, ObserveFails(a)
  PROVE  Inv'
<1>1. call[a].at = "observe" /\ call[a].at # "idle" /\ Local /\ UNCHANGED <<docker, row>>
  BY DEF ObserveFails
<1>2. Fails("docker") /\ call[a].copy \in Row
  BY <1>1, Running DEF ObserveFails
<1>3. CASE Returns(a)
  BY <1>1, <1>2, <1>3, GivesUp
<1> QED
  BY <1>3 DEF ObserveFails

LEMMA StatementFailsStep ==
  ASSUME Inv, NEW a \in Calls, StatementFails(a)
  PROVE  Inv'
<1>1. call[a].at # "idle"
  BY DEF StatementFails, Is
<1> QED
  BY <1>1, GivesUp DEF StatementFails

LEMMA InspectOldStep ==
  ASSUME Inv, NEW a \in Calls, InspectOld(a)
  PROVE  Inv'
<1> DEFINE runs == DockerState(Of(a)) \in {"running", "unhealthy"}
           to   == IF Of(a) = NoContainer THEN "createNew" ELSE IF runs THEN "halt" ELSE "remove"
<1>1. /\ call[a].at = "inspect" /\ call[a].at # "idle" /\ Local
      /\ docker' = docker /\ row' = row /\ faults' = faults
      /\ Remembers(a, to, runs, NoContainer)
  BY DEF InspectOld
<1>2. /\ DockerTyped /\ RowTyped /\ CallsTyped /\ LimitsTyped
      /\ call[a].copy \in Row /\ call[a].copy # NoRow
      /\ Of(a) \in Containers \cup {NoContainer} /\ call[a].copy.status \in Statuses
      /\ call[a].made \in Containers \cup {NoContainer}
      /\ Serial /\ faults = 0 => Keeps(call[a]) /\ Healthy
  BY <1>1, Running
<1>3. /\ DockerTyped' /\ RowTyped' /\ faults' \in 0..MaxFaults
      /\ Existing' = Existing /\ Existing \subseteq Containers
  BY <1>1, <1>2 DEF DockerTyped, Existing, RowTyped, LimitsTyped, Local
<1>4. /\ to \in {"createNew", "halt", "remove"} /\ to \in Points /\ runs \in BOOLEAN
      /\ to = "createNew" => Of(a) = NoContainer
  BY DEF Points
<1> HIDE DEF to, runs
<1>5. /\ CallsTyped' /\ call'[a] # NoCall /\ call'[a].kind = call[a].kind
      /\ call'[a].at = to /\ call'[a].copy = call[a].copy
  BY <1>1, <1>2, <1>4, Remembered
<1>6. Serial /\ faults' = 0 => Keeps(call[a])' /\ Healthy'
  BY <1>1, <1>2, <1>3, <1>4, <1>5, NoneAssumption DEF Keeps, Healthy, Of
<1> QED
  BY <1>1, <1>3, <1>5, <1>6, Continues

LEMMA HaltOldStep ==
  ASSUME Inv, NEW a \in Calls, HaltOld(a)
  PROVE  Inv'
<1>1. /\ call[a].at = "halt" /\ call[a].at # "idle" /\ Local
      /\ row' = row /\ faults' = faults /\ Stopped(Of(a))
  BY DEF HaltOld
<1>2. /\ DockerTyped /\ RowTyped /\ CallsTyped /\ LimitsTyped
      /\ call[a].copy \in Row /\ call[a].copy # NoRow
      /\ Of(a) \in Containers \cup {NoContainer} /\ call[a].copy.status \in Statuses
      /\ call[a].made \in Containers \cup {NoContainer}
      /\ Serial /\ faults = 0 => Keeps(call[a]) /\ Healthy
  BY <1>1, Running
<1>3. /\ DockerTyped' /\ RowTyped' /\ faults' \in 0..MaxFaults
      /\ Existing' = Existing
  BY <1>1, <1>2, Stopping DEF RowTyped, LimitsTyped, Local
<1>4. CASE Goes(a, "remove")
  <2>2. /\ CallsTyped' /\ call'[a] # NoCall /\ call'[a].at = "remove"
        /\ call'[a].copy = call[a].copy /\ call'[a].kind = call[a].kind
    BY <1>1, <1>2, <1>4, Gone DEF Points, Goes, Is
  <2>3. Serial /\ faults' = 0 => Keeps(call[a])' /\ Healthy'
    BY <1>1, <1>2, <1>3, <1>4, <2>2 DEF Keeps, Healthy, Of, Is
  <2> QED
    BY <1>1, <1>3, <2>2, <2>3, Continues
<1> QED
  BY <1>1, <1>4 DEF HaltOld

LEMMA RemoveOldStep ==
  ASSUME Inv, NEW a \in Calls, RemoveOld(a)
  PROVE  Inv'
<1>1. /\ call[a].at = "remove" /\ call[a].at # "idle" /\ Local
      /\ row' = row /\ faults' = faults /\ Discarded(Of(a))
  BY DEF RemoveOld
<1>2. /\ DockerTyped /\ RowTyped /\ CallsTyped /\ LimitsTyped
      /\ call[a].copy \in Row /\ call[a].copy # NoRow
      /\ Of(a) \in Containers \cup {NoContainer} /\ call[a].copy.status \in Statuses
      /\ call[a].made \in Containers \cup {NoContainer}
      /\ Serial /\ faults = 0 => Keeps(call[a]) /\ Healthy
  BY <1>1, Running
<1>3. /\ DockerTyped' /\ RowTyped' /\ faults' \in 0..MaxFaults
      /\ Existing' = Existing \ {Of(a)}
  BY <1>1, <1>2, Discarding DEF RowTyped, LimitsTyped, Local
<1>4. CASE Goes(a, "erase")
  <2>2. /\ CallsTyped' /\ call'[a] # NoCall /\ call'[a].at = "erase"
        /\ call'[a].copy = call[a].copy /\ call'[a].kind = call[a].kind
    BY <1>1, <1>2, <1>4, Gone DEF Points, Goes, Is
  <2>3. Serial /\ faults' = 0 => Keeps(call[a])' /\ Healthy'
    BY <1>1, <1>2, <1>3, <1>4, <2>2 DEF Keeps, Healthy, Of, Is
  <2> QED
    BY <1>1, <1>3, <2>2, <2>3, Continues
<1>5. CASE Goes(a, "createNew")
  <2>2. /\ CallsTyped' /\ call'[a] # NoCall /\ call'[a].at = "createNew"
        /\ call'[a].copy = call[a].copy /\ call'[a].kind = call[a].kind
    BY <1>1, <1>2, <1>5, Gone DEF Points, Goes, Is
  <2>3. Serial /\ faults' = 0 => Keeps(call[a])' /\ Healthy'
    BY <1>1, <1>2, <1>3, <1>5, <2>2 DEF Keeps, Healthy, Of, Is
  <2> QED
    BY <1>1, <1>3, <2>2, <2>3, Continues
<1> QED
  BY <1>1, <1>4, <1>5 DEF RemoveOld

LEMMA RemoveOldFailsStep ==
  ASSUME Inv, NEW a \in Calls, RemoveOldFails(a)
  PROVE  Inv'
<1>1. call[a].at = "remove" /\ call[a].at # "idle" /\ Local /\ docker' = docker /\ row' = row
  BY DEF RemoveOldFails
<1>2. /\ DockerTyped /\ RowTyped /\ CallsTyped /\ LimitsTyped
      /\ call[a].copy \in Row /\ call[a].copy # NoRow
      /\ Of(a) \in Containers \cup {NoContainer} /\ call[a].copy.status \in Statuses
      /\ call[a].made \in Containers \cup {NoContainer}
      /\ Serial /\ faults = 0 => Keeps(call[a]) /\ Healthy
  BY <1>1, Running
<1>3. CASE Fails("docker")
  <2>1. CASE Returns(a)
    BY <1>1, <1>3, <2>1, GivesUp
  <2>2. CASE Goes(a, "erase") \/ Goes(a, "createNew")
    BY <1>1, <1>2, <1>3, <2>2, GoesOn DEF Goes, Points
  <2> QED
    BY <2>1, <2>2 DEF RemoveOldFails
<1>4. CASE docker[Of(a)] \notin Exists /\ faults' = faults /\ Returns(a)
  <2>1. /\ DockerTyped' /\ RowTyped' /\ faults' \in 0..MaxFaults
        /\ Existing' = Existing /\ Of(a) \notin Existing
    BY <1>1, <1>2, <1>4 DEF DockerTyped, Existing, RowTyped, LimitsTyped, Local
  <2>2. CallsTyped' /\ call'[a] = NoCall
    BY <1>2, <1>4, Returned
  <2>3. Serial /\ faults' = 0 => Healthy' /\ (Existing \subseteq Tracked)'
    BY <1>1, <1>2, <1>4, <2>1 DEF Keeps, Healthy, Of
  <2> QED
    BY <1>1, <2>1, <2>2, <2>3, Ends
<1> QED
  BY <1>3, <1>4 DEF RemoveOldFails

\* The callers of RecreateContainer record what it made.
LEMMA RecreatedStep ==
  ASSUME Inv, NEW a \in Calls, call[a].at # "idle", Local, row' = row, DockerTyped',
         faults' \in 0..MaxFaults, NEW c \in Containers \cup {NoContainer}, NEW ok \in BOOLEAN,
         Recreated(a, c, ok),
         Serial /\ faults' = 0 => faults = 0 /\ ok /\ Existing' = {c}
  PROVE  Inv'
<1>2. /\ DockerTyped /\ RowTyped /\ CallsTyped /\ LimitsTyped
      /\ call[a].copy \in Row /\ call[a].copy # NoRow
      /\ Of(a) \in Containers \cup {NoContainer} /\ call[a].copy.status \in Statuses
      /\ call[a].made \in Containers \cup {NoContainer}
      /\ Serial /\ faults = 0 => Keeps(call[a]) /\ Healthy
  BY Running
<1>3. RowTyped'
  BY <1>2 DEF RowTyped, Local
<1>4. PICK to \in {"save", "saveNew"}, d \in {c, Of(a)},
           status \in {"error", "running", "stopped", "starting"} :
        /\ GoesWith(a, to, Copy(a, d, status))
        /\ ok => d = c /\ status # "error"
        /\ call[a].kind # "create"
  BY DEF Recreated
<1> DEFINE copy == Copy(a, d, status)
<1>5. copy \in Row /\ copy.container = d /\ copy.status = status
  BY <1>2, CopyIsARow DEF Statuses
<1> HIDE DEF copy
<1>6. /\ CallsTyped' /\ call'[a] # NoCall /\ call'[a].at = to
      /\ call'[a].copy = copy /\ call'[a].kind = call[a].kind
  BY <1>2, <1>4, <1>5, Gone DEF Points, copy
<1>7. Serial /\ faults' = 0 => Keeps(call[a])' /\ Healthy'
  BY <1>2, <1>4, <1>5, <1>6 DEF Keeps, Healthy
<1> QED
  BY <1>3, <1>6, <1>7, Continues

LEMMA HaltOldFailsStep ==
  ASSUME Inv, NEW a \in Calls, HaltOldFails(a)
  PROVE  Inv'
<1>1. /\ call[a].at = "halt" /\ call[a].at # "idle" /\ Local
      /\ docker' = docker /\ row' = row /\ Fails("docker")
  BY DEF HaltOldFails
<1>2. /\ DockerTyped /\ RowTyped /\ CallsTyped /\ LimitsTyped
      /\ call[a].copy \in Row /\ call[a].copy # NoRow
      /\ Of(a) \in Containers \cup {NoContainer} /\ call[a].copy.status \in Statuses
      /\ call[a].made \in Containers \cup {NoContainer}
      /\ Serial /\ faults = 0 => Keeps(call[a]) /\ Healthy
  BY <1>1, Running
<1>3. CASE Returns(a)
  BY <1>1, <1>3, GivesUp
<1>4. CASE Recreated(a, NoContainer, FALSE)
  <2>1. faults' \in 0..MaxFaults /\ faults' # 0 /\ DockerTyped'
    BY <1>1, <1>2, Failing DEF DockerTyped
  <2> QED
    BY <1>1, <1>4, <2>1, RecreatedStep
<1> QED
  BY <1>3, <1>4 DEF HaltOldFails

LEMMA CreateNewStep ==
  ASSUME Inv, NEW a \in Calls, CreateNew(a)
  PROVE  Inv'
<1>1. /\ call[a].at = "createNew" /\ call[a].at # "idle" /\ Local
      /\ row' = row /\ faults' = faults /\ Issue
  BY DEF CreateNew
<1>2. /\ DockerTyped /\ RowTyped /\ CallsTyped /\ LimitsTyped
      /\ call[a].copy \in Row /\ call[a].copy # NoRow
      /\ Of(a) \in Containers \cup {NoContainer} /\ call[a].copy.status \in Statuses
      /\ call[a].made \in Containers \cup {NoContainer}
      /\ Serial /\ faults = 0 => Keeps(call[a]) /\ Healthy
  BY <1>1, Running
<1>3. /\ DockerTyped' /\ RowTyped' /\ faults' \in 0..MaxFaults
      /\ Fresh \in Containers /\ Existing' = {Fresh}
  BY <1>1, <1>2, Issued DEF RowTyped, LimitsTyped, Local
<1>4. CASE call[a].kind = "config" /\ GoesWith(a, "saveNew", Copy(a, Fresh, call[a].copy.status))
  <2> DEFINE copy == Copy(a, Fresh, call[a].copy.status)
  <2>1. copy \in Row /\ copy.container = Fresh /\ copy.status = call[a].copy.status
    BY <1>1, <1>2, <1>3, CopyIsARow DEF Statuses
  <2> HIDE DEF copy
  <2>2. /\ CallsTyped' /\ call'[a] # NoCall /\ call'[a].at = "saveNew"
        /\ call'[a].copy = copy /\ call'[a].kind = call[a].kind
    BY <1>1, <1>2, <1>4, <2>1, Gone DEF Points, copy
  <2>3. Serial /\ faults' = 0 => Keeps(call[a])' /\ Healthy'
    BY <1>1, <1>2, <1>3, <1>4, <2>1, <2>2 DEF Keeps, Healthy, Of, Is
  <2> QED
    BY <1>1, <1>3, <2>2, <2>3, Continues
<1>5. CASE call[a].kind # "config" /\ Remembers(a, "startNew", TRUE, Fresh)
  <2>1. /\ CallsTyped' /\ call'[a] # NoCall /\ call'[a].at = "startNew"
        /\ call'[a].copy = call[a].copy /\ call'[a].made = Fresh
    BY <1>1, <1>2, <1>3, <1>5, Remembered DEF Points
  <2>2. Serial /\ faults' = 0 => Keeps(call[a])' /\ Healthy'
    BY <1>1, <1>2, <1>3, <2>1 DEF Keeps, Healthy
  <2> QED
    BY <1>1, <1>3, <2>1, <2>2, Continues
<1>6. CASE Recreated(a, Fresh, TRUE)
  <2>1. Serial /\ faults' = 0 => faults = 0 /\ TRUE /\ Existing' = {Fresh}
    BY <1>1, <1>3
  <2> QED
    BY <1>1, <1>3, <1>6, <2>1, RecreatedStep
<1> QED
  BY <1>4, <1>5, <1>6 DEF CreateNew

LEMMA CreateNewFailsStep ==
  ASSUME Inv, NEW a \in Calls, CreateNewFails(a)
  PROVE  Inv'
<1>1. call[a].at = "createNew" /\ call[a].at # "idle" /\ Local /\ row' = row /\ IssueRefused
  BY DEF CreateNewFails
<1>2. /\ DockerTyped /\ RowTyped /\ CallsTyped /\ LimitsTyped
      /\ call[a].copy \in Row /\ call[a].copy # NoRow
      /\ Of(a) \in Containers \cup {NoContainer} /\ call[a].copy.status \in Statuses
      /\ call[a].made \in Containers \cup {NoContainer}
      /\ Serial /\ faults = 0 => Keeps(call[a]) /\ Healthy
  BY <1>1, Running
<1>3. /\ DockerTyped' /\ RowTyped' /\ faults' \in 0..MaxFaults
      /\ Existing' = Existing /\ (faults' = 0 => faults = 0 /\ Existing # {})
  BY <1>1, <1>2, IssueIsRefused DEF RowTyped, Local
<1>4. ~(Serial /\ faults' = 0)
  BY <1>1, <1>2, <1>3 DEF Keeps
<1>5. CASE Returns(a)
  BY <1>1, <1>2, <1>3, <1>4, <1>5, Returned, Ends
<1>6. CASE Recreated(a, NoContainer, FALSE)
  BY <1>1, <1>3, <1>4, <1>6, RecreatedStep
<1> QED
  BY <1>5, <1>6 DEF CreateNewFails

LEMMA StartNewStep ==
  ASSUME Inv, NEW a \in Calls, StartNew(a)
  PROVE  Inv'
<1>1. /\ call[a].at = "startNew" /\ call[a].at # "idle" /\ Local
      /\ row' = row /\ faults' = faults /\ Started(call[a].made)
      /\ Recreated(a, call[a].made, TRUE)
  BY DEF StartNew
<1>2. /\ DockerTyped /\ RowTyped /\ CallsTyped /\ LimitsTyped
      /\ call[a].copy \in Row /\ call[a].copy # NoRow
      /\ Of(a) \in Containers \cup {NoContainer} /\ call[a].copy.status \in Statuses
      /\ call[a].made \in Containers \cup {NoContainer}
      /\ Serial /\ faults = 0 => Keeps(call[a]) /\ Healthy
  BY <1>1, Running
<1>3. DockerTyped' /\ faults' \in 0..MaxFaults /\ Existing' = Existing
  BY <1>1, <1>2, Starting DEF LimitsTyped
<1>4. Serial /\ faults' = 0 => faults = 0 /\ TRUE /\ Existing' = {call[a].made}
  BY <1>1, <1>2, <1>3 DEF Keeps
<1> QED
  BY <1>1, <1>2, <1>3, <1>4, RecreatedStep

LEMMA StartNewFailsStep ==
  ASSUME Inv, NEW a \in Calls, StartNewFails(a)
  PROVE  Inv'
<1>1. /\ call[a].at = "startNew" /\ call[a].at # "idle" /\ Local
      /\ row' = row /\ StartRefused(call[a].made) /\ Recreated(a, call[a].made, FALSE)
  BY DEF StartNewFails
<1>2. /\ DockerTyped /\ RowTyped /\ CallsTyped /\ LimitsTyped
      /\ call[a].copy \in Row /\ call[a].copy # NoRow
      /\ Of(a) \in Containers \cup {NoContainer} /\ call[a].copy.status \in Statuses
      /\ call[a].made \in Containers \cup {NoContainer}
      /\ Serial /\ faults = 0 => Keeps(call[a]) /\ Healthy
  BY <1>1, Running
<1>3. /\ DockerTyped' /\ faults' \in 0..MaxFaults
      /\ (faults' = 0 => faults = 0 /\ call[a].made \notin Existing)
  BY <1>1, <1>2, Refused
<1>4. ~(Serial /\ faults' = 0)
  BY <1>1, <1>2, <1>3 DEF Keeps
<1> QED
  BY <1>1, <1>2, <1>3, <1>4, RecreatedStep

LEMMA SaveRecreatedStep ==
  ASSUME Inv, NEW a \in Calls, SaveRecreated(a)
  PROVE  Inv'
<1>1. /\ call[a].at = "saveNew" /\ call[a].at # "idle" /\ Local
      /\ row' = call[a].copy /\ docker' = docker /\ faults' = faults
  BY DEF SaveRecreated
<1>2. /\ DockerTyped /\ RowTyped /\ CallsTyped /\ LimitsTyped
      /\ call[a].copy \in Row /\ call[a].copy # NoRow
      /\ Of(a) \in Containers \cup {NoContainer} /\ call[a].copy.status \in Statuses
      /\ call[a].made \in Containers \cup {NoContainer}
      /\ Serial /\ faults = 0 => Keeps(call[a]) /\ Healthy
  BY <1>1, Running
<1>3. /\ DockerTyped' /\ RowTyped' /\ faults' \in 0..MaxFaults
      /\ Existing' = Existing
  BY <1>1, <1>2 DEF DockerTyped, Existing, RowTyped, LimitsTyped, Local
<1>4. CASE GoesWith(a, "save", Copy(a, Of(a), "starting"))
  <2> DEFINE copy == Copy(a, Of(a), "starting")
  <2>1. copy \in Row /\ copy.container = Of(a) /\ copy.status = "starting"
    BY <1>1, <1>2, <1>3, CopyIsARow DEF Statuses
  <2> HIDE DEF copy
  <2>2. /\ CallsTyped' /\ call'[a] # NoCall /\ call'[a].at = "save"
        /\ call'[a].copy = copy /\ call'[a].kind = call[a].kind
    BY <1>1, <1>2, <1>4, <2>1, Gone DEF Points, copy
  <2>3. Serial /\ faults' = 0 => Keeps(call[a])' /\ Healthy'
    BY <1>1, <1>2, <1>3, <1>4, <2>1, <2>2 DEF Keeps, Healthy, Of, Is
  <2> QED
    BY <1>1, <1>3, <2>2, <2>3, Continues
<1>5. CASE call[a].kind = "config" /\ Goes(a, "start")
  <2>2. /\ CallsTyped' /\ call'[a] # NoCall /\ call'[a].at = "start"
        /\ call'[a].copy = call[a].copy /\ call'[a].kind = call[a].kind
    BY <1>1, <1>2, <1>5, Gone DEF Points, Goes, Is
  <2>3. Serial /\ faults' = 0 => Keeps(call[a])' /\ Healthy'
    BY <1>1, <1>2, <1>3, <1>5, <2>2 DEF Keeps, Healthy, Of, Is
  <2> QED
    BY <1>1, <1>3, <2>2, <2>3, Continues
<1>6. CASE Returns(a)
  <2>1. CallsTyped' /\ call'[a] = NoCall
    BY <1>2, <1>6, Returned
  <2>2. Serial /\ faults' = 0 => Healthy' /\ (Existing \subseteq Tracked)'
    BY <1>1, <1>2, <1>3, <2>1 DEF Keeps, Healthy, Of, Tracked
  <2> QED
    BY <1>1, <1>3, <2>1, <2>2, Ends
<1> QED
  BY <1>1, <1>4, <1>5, <1>6 DEF SaveRecreated

LEMMA SaveEditStep ==
  ASSUME Inv, NEW a \in Calls, SaveEdit(a)
  PROVE  Inv'
<1>1. /\ call[a].at = "edit" /\ call[a].at # "idle" /\ Local
      /\ row' = call[a].copy /\ docker' = docker /\ faults' = faults
  BY DEF SaveEdit
<1>2. /\ DockerTyped /\ RowTyped /\ CallsTyped /\ LimitsTyped
      /\ call[a].copy \in Row /\ call[a].copy # NoRow
      /\ Of(a) \in Containers \cup {NoContainer} /\ call[a].copy.status \in Statuses
      /\ call[a].made \in Containers \cup {NoContainer}
      /\ Serial /\ faults = 0 => Keeps(call[a]) /\ Healthy
  BY <1>1, Running
<1>3. /\ DockerTyped' /\ RowTyped' /\ faults' \in 0..MaxFaults
      /\ Existing' = Existing
  BY <1>1, <1>2 DEF DockerTyped, Existing, RowTyped, LimitsTyped, Local
<1>4. CASE Goes(a, "inspect")
  <2>2. /\ CallsTyped' /\ call'[a] # NoCall /\ call'[a].at = "inspect"
        /\ call'[a].copy = call[a].copy /\ call'[a].kind = call[a].kind
    BY <1>1, <1>2, <1>4, Gone DEF Points, Goes, Is
  <2>3. Serial /\ faults' = 0 => Keeps(call[a])' /\ Healthy'
    BY <1>1, <1>2, <1>3, <1>4, <2>2 DEF Keeps, Healthy, Of, Is
  <2> QED
    BY <1>1, <1>3, <2>2, <2>3, Continues
<1>5. CASE Returns(a)
  <2>1. CallsTyped' /\ call'[a] = NoCall
    BY <1>2, <1>5, Returned
  <2>2. Serial /\ faults' = 0 => Healthy' /\ (Existing \subseteq Tracked)'
    BY <1>1, <1>2, <1>3, <2>1 DEF Keeps, Healthy, Of, Tracked
  <2> QED
    BY <1>1, <1>3, <2>1, <2>2, Ends
<1> QED
  BY <1>1, <1>4, <1>5 DEF SaveEdit

LEMMA SaveServerStep ==
  ASSUME Inv, NEW a \in Calls, SaveServer(a)
  PROVE  Inv'
<1>1. /\ call[a].at = "save" /\ call[a].at # "idle" /\ Local
      /\ row' = call[a].copy /\ docker' = docker /\ faults' = faults
  BY DEF SaveServer
<1>2. /\ DockerTyped /\ RowTyped /\ CallsTyped /\ LimitsTyped
      /\ call[a].copy \in Row /\ call[a].copy # NoRow
      /\ Of(a) \in Containers \cup {NoContainer} /\ call[a].copy.status \in Statuses
      /\ call[a].made \in Containers \cup {NoContainer}
      /\ Serial /\ faults = 0 => Keeps(call[a]) /\ Healthy
  BY <1>1, Running
<1>3. /\ DockerTyped' /\ RowTyped' /\ faults' \in 0..MaxFaults
      /\ Existing' = Existing
  BY <1>1, <1>2 DEF DockerTyped, Existing, RowTyped, LimitsTyped, Local
<1>4. CASE Returns(a)
  <2>1. CallsTyped' /\ call'[a] = NoCall
    BY <1>2, <1>4, Returned
  <2>2. Serial /\ faults' = 0 => Healthy' /\ (Existing \subseteq Tracked)'
    BY <1>1, <1>2, <1>3, <2>1 DEF Keeps, Healthy, Of, Tracked
  <2> QED
    BY <1>1, <1>3, <2>1, <2>2, Ends
<1> QED
  BY <1>1, <1>4 DEF SaveServer

LEMMA EraseServerStep ==
  ASSUME Inv, NEW a \in Calls, EraseServer(a)
  PROVE  Inv'
<1>1. /\ call[a].at = "erase" /\ call[a].at # "idle" /\ Local
      /\ row' = NoRow /\ docker' = docker /\ faults' = faults
  BY DEF EraseServer
<1>2. /\ DockerTyped /\ RowTyped /\ CallsTyped /\ LimitsTyped
      /\ call[a].copy \in Row /\ call[a].copy # NoRow
      /\ Of(a) \in Containers \cup {NoContainer} /\ call[a].copy.status \in Statuses
      /\ call[a].made \in Containers \cup {NoContainer}
      /\ Serial /\ faults = 0 => Keeps(call[a]) /\ Healthy
  BY <1>1, Running
<1>3. /\ DockerTyped' /\ RowTyped' /\ faults' \in 0..MaxFaults
      /\ Existing' = Existing
  BY <1>1, <1>2 DEF DockerTyped, Existing, RowTyped, LimitsTyped, Local
<1>4. CASE Returns(a)
  <2>1. CallsTyped' /\ call'[a] = NoCall
    BY <1>2, <1>4, Returned
  <2>2. Serial /\ faults' = 0 => Healthy' /\ (Existing \subseteq Tracked)'
    BY <1>1, <1>2, <1>3, <2>1 DEF Keeps, Healthy, Of, Tracked
  <2> QED
    BY <1>1, <1>3, <2>1, <2>2, Ends
<1> QED
  BY <1>1, <1>4 DEF EraseServer

\* What is read off a container is never "error".
LEMMA StatusIsSound == \A state : StatusOf(state) \in Statuses /\ StatusOf(state) # "error"
  BY DEF StatusOf, Up, Statuses

LEMMA ObserveStep ==
  ASSUME Inv, NEW a \in Calls, Observe(a)
  PROVE  Inv'
<1>1. /\ call[a].at = "observe" /\ call[a].at # "idle" /\ Local
      /\ row' = row /\ docker' = docker /\ faults' = faults
  BY DEF Observe, Is
<1>2. /\ DockerTyped /\ RowTyped /\ CallsTyped /\ LimitsTyped
      /\ call[a].copy \in Row /\ call[a].copy # NoRow
      /\ Of(a) \in Containers \cup {NoContainer} /\ call[a].copy.status \in Statuses
      /\ call[a].made \in Containers \cup {NoContainer}
      /\ Serial /\ faults = 0 => Keeps(call[a]) /\ Healthy
  BY <1>1, Running
<1>3. /\ DockerTyped' /\ RowTyped' /\ faults' \in 0..MaxFaults
      /\ Existing' = Existing
  BY <1>1, <1>2 DEF DockerTyped, Existing, RowTyped, LimitsTyped, Local
<1>4. CASE DockerState(Of(a)) \in Exists /\ GoesWith(a, "save", Copy(a, Of(a), StatusOf(DockerState(Of(a)))))
  <2> DEFINE copy == Copy(a, Of(a), StatusOf(DockerState(Of(a))))
  <2>1. copy \in Row /\ copy.container = Of(a) /\ copy.status = StatusOf(DockerState(Of(a)))
    BY <1>1, <1>2, <1>3, CopyIsARow, StatusIsSound
  <2> HIDE DEF copy
  <2>2. /\ CallsTyped' /\ call'[a] # NoCall /\ call'[a].at = "save"
        /\ call'[a].copy = copy /\ call'[a].kind = call[a].kind
    BY <1>1, <1>2, <1>4, <2>1, Gone DEF Points, copy
  <2>3. Serial /\ faults' = 0 => Keeps(call[a])' /\ Healthy'
    BY <1>1, <1>2, <1>3, <1>4, <2>1, <2>2, StatusIsSound DEF Keeps, Healthy, Of, Is
  <2> QED
    BY <1>1, <1>3, <2>2, <2>3, Continues
<1>5. CASE Returns(a)
  <2>1. CallsTyped' /\ call'[a] = NoCall
    BY <1>2, <1>5, Returned
  <2>2. Serial /\ faults' = 0 => Healthy' /\ (Existing \subseteq Tracked)'
    BY <1>1, <1>2, <1>3, <2>1 DEF Keeps, Healthy, Of, Tracked
  <2> QED
    BY <1>1, <1>3, <2>1, <2>2, Ends
<1> QED
  BY <1>1, <1>4, <1>5 DEF Observe

LEMMA ObserveAutoStartStep ==
  ASSUME Inv, NEW a \in Calls, ObserveAutoStart(a)
  PROVE  Inv'
<1>1. /\ call[a].at = "observe" /\ call[a].at # "idle" /\ Local
      /\ row' = row /\ docker' = docker /\ faults' = faults
  BY DEF ObserveAutoStart, Is
<1>2. /\ DockerTyped /\ RowTyped /\ CallsTyped /\ LimitsTyped
      /\ call[a].copy \in Row /\ call[a].copy # NoRow
      /\ Of(a) \in Containers \cup {NoContainer} /\ call[a].copy.status \in Statuses
      /\ call[a].made \in Containers \cup {NoContainer}
      /\ Serial /\ faults = 0 => Keeps(call[a]) /\ Healthy
  BY <1>1, Running
<1>3. /\ DockerTyped' /\ RowTyped' /\ faults' \in 0..MaxFaults
      /\ Existing' = Existing
  BY <1>1, <1>2 DEF DockerTyped, Existing, RowTyped, LimitsTyped, Local
<1>4. CASE Goes(a, "start") /\ call[a].kind # "create"
  <2>2. /\ CallsTyped' /\ call'[a] # NoCall /\ call'[a].at = "start"
        /\ call'[a].copy = call[a].copy /\ call'[a].kind = call[a].kind
    BY <1>1, <1>2, <1>4, Gone DEF Points, Goes, Is
  <2>3. Serial /\ faults' = 0 => Keeps(call[a])' /\ Healthy'
    BY <1>1, <1>2, <1>3, <1>4, <2>2 DEF Keeps, Healthy, Of, Is
  <2> QED
    BY <1>1, <1>3, <2>2, <2>3, Continues
<1>5. CASE GoesWith(a, "save", Copy(a, Of(a), "running"))
  <2> DEFINE copy == Copy(a, Of(a), "running")
  <2>1. copy \in Row /\ copy.container = Of(a) /\ copy.status = "running"
    BY <1>1, <1>2, <1>3, CopyIsARow DEF Statuses
  <2> HIDE DEF copy
  <2>2. /\ CallsTyped' /\ call'[a] # NoCall /\ call'[a].at = "save"
        /\ call'[a].copy = copy /\ call'[a].kind = call[a].kind
    BY <1>1, <1>2, <1>5, <2>1, Gone DEF Points, copy
  <2>3. Serial /\ faults' = 0 => Keeps(call[a])' /\ Healthy'
    BY <1>1, <1>2, <1>3, <1>5, <2>1, <2>2 DEF Keeps, Healthy, Of, Is
  <2> QED
    BY <1>1, <1>3, <2>2, <2>3, Continues
<1>6. CASE Returns(a)
  <2>1. CallsTyped' /\ call'[a] = NoCall
    BY <1>2, <1>6, Returned
  <2>2. Serial /\ faults' = 0 => Healthy' /\ (Existing \subseteq Tracked)'
    BY <1>1, <1>2, <1>3, <2>1 DEF Keeps, Healthy, Of, Tracked
  <2> QED
    BY <1>1, <1>3, <2>1, <2>2, Ends
<1> QED
  BY <1>1, <1>4, <1>5, <1>6 DEF ObserveAutoStart, Is

-----------------------------------------------------------------------------
(* A call begins.                                                           *)

\* A call enters with a copy of the row; only for a row without a container
\* does it begin by making one or erasing the row.
LEMMA Begins ==
  ASSUME Inv, NEW a \in Calls, NEW k \in AllKinds \ {"create"}, NEW point \in Points,
         NEW copy \in Row, NEW was \in BOOLEAN, Enter(a, k, point, copy, was),
         UNCHANGED <<docker, row, born, panel, health, crashes, faults>>,
         requests' \in 0..MaxRequests, row # NoRow, panel # "off",
         copy.container = row.container,
         copy.status = row.status \/ copy.status # "error",
         point # "createNew", point # "startNew",
         point \in {"create", "erase"} => row.container = NoContainer
  PROVE  Inv'
<1>1. DockerTyped /\ RowTyped /\ PanelTyped /\ CallsTyped /\ LimitsTyped
  BY TypesAre DEF Inv
<1>2. /\ CallsTyped' /\ call[a] = NoCall /\ call'[a] # NoCall
      /\ call'[a].kind = k /\ call'[a].at = point /\ call'[a].copy = copy
  BY <1>1, Entered
<1>3. Typed'
  BY <1>1, <1>2 DEF Typed, DockerTyped, RowTyped, PanelTyped, CallsTyped, LimitsTyped
<1>4. ASSUME Serial PROVE Begun' /\ (faults' = 0 => Faultless')
  <2>1. Idle /\ ~Idle'
    BY <1>2, <1>4 DEF Idle, Serial
  <2>2. born /\ Begun
    BY <1>4 DEF Inv, Begun
  <2>3. Begun'
    BY <2>2 DEF Begun
  <2>4. ASSUME faults' = 0 PROVE Faultless'
    <3>1. Healthy /\ TracksContainer
      BY <1>4, <2>4 DEF Inv, Faultless
    <3>2. Existing \subseteq {row.container} /\ Existing \subseteq Containers
      BY <2>1, <3>1 DEF TracksContainer, Tracked, Existing
    <3>3. Existing' = Existing
      BY DEF Existing
    <3>4. Keeps(call[a])'
      BY <1>2, <3>1, <3>2, <3>3, NoneAssumption DEF Keeps, Healthy
    <3> QED
      BY <1>4, <2>1, <3>1, <3>4 DEF Faultless, Healthy, TracksContainer, Serial
  <2> QED
    BY <2>3, <2>4
<1> QED
  BY <1>3, <1>4 DEF Inv

\* What every request that reads the row does before it enters.
LEMMA Asked ==
  ASSUME Inv, NEW k, Begin(k)
  PROVE  /\ UNCHANGED <<docker, row, born, panel, health, crashes, faults>>
         /\ requests' \in 0..MaxRequests /\ row # NoRow /\ panel # "off" /\ row \in Row
<1>1. UNCHANGED <<docker, row, born, panel, health, crashes, faults>>
      /\ requests' = requests + 1 /\ requests < MaxRequests /\ row # NoRow /\ panel # "off"
  BY DEF Begin, Request
<1>2. row \in Row /\ requests \in 0..MaxRequests
  BY <1>1 DEF Inv, Typed
<1> QED
  BY <1>1, <1>2

LEMMA EditIsARow ==
  ASSUME row \in Row, NEW settings \in {"old", "new"}
  PROVE  Edited(settings) \in Row /\ Edited(settings).container = row.container
         /\ Edited(settings).status = row.status
  BY DEF Row, Edited

LEMMA ReceiveStep ==
  ASSUME Inv, NEW a \in Calls, Receive(a)
  PROVE  Inv'
<1> USE DEF Points, AllKinds
<1>1. CASE CreateServer(a)
  <2> DEFINE new == [container |-> NoContainer, status |-> "creating", settings |-> "old"]
  <2>1. new \in Row /\ new.status = "creating" /\ new # NoRow
    <3>1. new \in Row
      BY DEF Row, Statuses
    <3> QED
      BY <3>1, RowIsARow
  <2>2. /\ ~born /\ born' = TRUE /\ row' = new /\ panel # "off" /\ requests' = requests + 1
        /\ requests < MaxRequests /\ UNCHANGED <<docker, panel, health, crashes, faults>>
        /\ Enter(a, "create", "create", new, FALSE)
    BY <1>1 DEF CreateServer, Request
  <2> HIDE DEF new
  <2>3. DockerTyped /\ RowTyped /\ PanelTyped /\ CallsTyped /\ LimitsTyped
    BY TypesAre DEF Inv
  <2>4. /\ CallsTyped' /\ call[a] = NoCall /\ call'[a] # NoCall
        /\ call'[a].kind = "create" /\ call'[a].at = "create" /\ call'[a].copy = new
    BY <2>1, <2>2, <2>3, Entered
  <2>5. Typed'
    BY <2>1, <2>2, <2>3, <2>4
       DEF Typed, DockerTyped, RowTyped, PanelTyped, CallsTyped, LimitsTyped
  <2>6. ASSUME Serial PROVE Begun' /\ (faults' = 0 => Faultless')
    <3>1. Idle /\ row = NoRow /\ ~Idle'
      BY <2>2, <2>4, <2>6 DEF Inv, Begun, Idle
    <3>2. Begun'
      BY <2>2 DEF Begun
    <3>3. ASSUME faults' = 0 PROVE Faultless'
      <4>1. Existing = {} /\ Existing' = Existing
        BY <2>2, <2>6, <3>1, <3>3 DEF Inv, Faultless, TracksContainer, Tracked, Existing
      <4>2. Keeps(call[a])' /\ Healthy'
        BY <2>1, <2>2, <2>4, <4>1 DEF Keeps, Healthy
      <4> QED
        BY <2>6, <3>1, <4>2 DEF Faultless, TracksContainer, Serial
    <3> QED
      BY <3>2, <3>3
  <2> QED
    BY <2>5, <2>6 DEF Inv
<1>2. CASE UpdateServer(a)
  <2>1. PICK k \in {"rename", "update"}, settings \in {"old", "new"} :
          Begin(k) /\ Enter(a, k, "edit", Edited(settings), FALSE)
    BY <1>2 DEF UpdateServer
  <2> QED
    BY <2>1, Asked, EditIsARow, Begins
<1>3. CASE UpdateServerRouting(a)
  <2>1. PICK point \in {"inspect", "save"}, settings \in {"old", "new"} :
          Begin("routing") /\ Enter(a, "routing", point, Edited(settings), FALSE)
    BY <1>3 DEF UpdateServerRouting
  <2> QED
    BY <2>1, Asked, EditIsARow, Begins
<1>4. CASE UpdateServerConfig(a)
  <2>1. PICK point \in {"halt", "remove"}, was \in BOOLEAN :
          Begin("config") /\ Enter(a, "config", point, row, was)
    BY <1>4 DEF UpdateServerConfig
  <2> QED
    BY <2>1, Asked, Begins
<1>5. CASE DeleteServer(a)
  <2>1. PICK point \in {"stop", "erase"} :
          /\ Begin("delete") /\ Enter(a, "delete", point, row, FALSE)
          /\ point = "erase" => row.container = NoContainer
    BY <1>5 DEF DeleteServer, HasContainer
  <2> QED
    BY <2>1, Asked, Begins
<1>6. CASE StartServer(a)
  <2>1. PICK point \in {"start", "create"} :
          /\ Begin("start") /\ Enter(a, "start", point, row, FALSE)
          /\ point = "create" => row.container = NoContainer
    BY <1>6 DEF StartServer, HasContainer
  <2> QED
    BY <2>1, Asked, Begins
<1>7. CASE StopServer(a)
  <2>1. Begin("stop") /\ row \in Row
    BY <1>7, Asked DEF StopServer
  <2>2. CASE HasContainer
    <3>1. Enter(a, "stop", "stop", row, FALSE)
      BY <1>7, <2>2 DEF StopServer
    <3> QED
      BY <2>1, <3>1, Asked, Begins
  <2>3. CASE ~HasContainer
    <3> DEFINE copy == With(row, NoContainer, "stopped")
    <3>1. Enter(a, "stop", "save", copy, FALSE)
      BY <1>7, <2>3 DEF StopServer
    <3>2. copy \in Row /\ copy.container = row.container /\ copy.status # "error"
      BY <2>1, <2>3 DEF With, Row, HasContainer, Statuses
    <3> HIDE DEF copy
    <3> QED
      BY <2>1, <3>1, <3>2, Asked, Begins
  <2> QED
    BY <2>2, <2>3
<1>8. CASE RestartServer(a)
  <2>1. PICK point \in {"stop", "create"} :
          /\ Begin("restart") /\ Enter(a, "restart", point, row, FALSE)
          /\ point = "create" => row.container = NoContainer
    BY <1>8 DEF RestartServer, HasContainer
  <2> QED
    BY <2>1, Asked, Begins
<1>9. CASE RecreateServer(a)
  <2>1. Begin("recreate") /\ Enter(a, "recreate", "inspect", row, FALSE)
    BY <1>9 DEF RecreateServer
  <2> QED
    BY <2>1, Asked, Begins
<1>10. CASE ExecuteTask(a)
  <2>1. PICK k \in {"taskStart", "taskStop", "taskRestart"}, point \in {"start", "stop"} :
          Begin(k) /\ Enter(a, k, point, row, FALSE)
    BY <1>10 DEF ExecuteTask
  <2> QED
    BY <2>1, Asked, Begins
<1> QED
  BY <1>1, <1>2, <1>3, <1>4, <1>5, <1>6, <1>7, <1>8, <1>9, <1>10 DEF Receive

LEMMA MonitorTickStep ==
  ASSUME Inv, NEW a \in Calls, MonitorTick(a)
  PROVE  Inv'
<1>1. /\ UNCHANGED <<docker, row, born, panel, health, crashes, faults>>
      /\ requests' = requests /\ row # NoRow /\ panel # "off"
      /\ Enter(a, "monitor", "observe", row, FALSE)
  BY DEF MonitorTick, limits
<1>2. row \in Row /\ requests' \in 0..MaxRequests
  BY <1>1 DEF Inv, Typed
<1> QED
  BY <1>1, <1>2, Begins DEF Points, AllKinds

-----------------------------------------------------------------------------
(* The background, and what Docker does by itself.                          *)

\* What leaves the row and the calls alone, and the containers unless it fails.
LEMMA Background ==
  ASSUME Inv, DockerTyped', UNCHANGED <<row, born, call>>, LimitsTyped',
         panel' = panel \/ (panel # "off" /\ panel' \in {"leaving", "closing"}),
         faults' = 0 => faults = 0 /\ Existing' = Existing
  PROVE  Inv'
<1>1. DockerTyped /\ RowTyped /\ PanelTyped /\ CallsTyped /\ LimitsTyped
  BY TypesAre DEF Inv
<1>2. RowTyped' /\ CallsTyped' /\ PanelTyped'
  BY <1>1 DEF RowTyped, PanelTyped, CallsTyped
<1>3. Typed'
  BY <1>2 DEF Typed, DockerTyped, RowTyped, PanelTyped, CallsTyped, LimitsTyped
<1>4. ASSUME Serial PROVE Begun' /\ (faults' = 0 => Faultless')
  <2>1. Begun'
    BY <1>4 DEF Inv, Begun, Idle
  <2>2. ASSUME faults' = 0 PROVE Faultless'
    <3>1. Faultless /\ Existing' = Existing
      BY <1>4, <2>2 DEF Inv
    <3>2. Healthy'
      BY <3>1 DEF Faultless, Healthy
    <3>3. TracksContainer'
      BY <3>1 DEF Faultless, TracksContainer, Tracked, Idle
    <3>4. ASSUME NEW a \in Calls, call'[a] # NoCall PROVE Keeps(call[a])'
      <4>1. Keeps(call[a]) /\ call' = call /\ row' = row
        BY <3>1, <3>4 DEF Faultless
      <4> QED
        BY <3>1, <4>1 DEF Keeps
    <3> QED
      BY <3>2, <3>3, <3>4 DEF Faultless
  <2> QED
    BY <2>1, <2>2
<1> QED
  BY <1>3, <1>4 DEF Inv

LEMMA BootStep == Inv /\ Boot => Inv'
<1> SUFFICES ASSUME Inv, Boot PROVE Inv'
  OBVIOUS
<1>1. DockerTyped /\ RowTyped /\ PanelTyped /\ CallsTyped /\ LimitsTyped
  BY TypesAre DEF Inv
<1>2. /\ panel = "off" /\ panel' = "up" /\ AutoStarts
      /\ UNCHANGED <<row, born, requests, health, crashes>>
  BY DEF Boot
<1>3. /\ DockerTyped' /\ faults' \in 0..MaxFaults
      /\ faults' = 0 => faults = 0 /\ Existing' = Existing \cap Tracked
  <2>1. CASE CleanUp(Tracked) /\ UNCHANGED faults
    BY <1>1, <2>1, Cleaning DEF LimitsTyped
  <2>2. CASE Fails("list") /\ CleanUp({})
    BY <1>1, <2>2, Cleaning, Failing
  <2>3. CASE Fails("docker") /\ UNCHANGED docker
    BY <1>1, <2>3, Failing DEF DockerTyped
  <2> QED
    BY <2>1, <2>2, <2>3 DEF Boot
<1>4. RowTyped' /\ PanelTyped' /\ LimitsTyped'
  BY <1>1, <1>2, <1>3 DEF RowTyped, PanelTyped, LimitsTyped
<1>5. CASE UNCHANGED call
  <2>1. Typed'
    BY <1>1, <1>3, <1>4, <1>5
       DEF Typed, DockerTyped, RowTyped, PanelTyped, CallsTyped, LimitsTyped
  <2>2. ASSUME Serial PROVE Begun' /\ (faults' = 0 => Faultless')
    <3>1. Idle /\ Idle'
      BY <1>2, <1>5, <2>2 DEF Inv, Begun, Idle
    <3>2. Begun'
      BY <1>2, <2>2, <3>1 DEF Inv, Begun
    <3>3. ASSUME faults' = 0 PROVE Faultless'
      <4>1. Healthy' /\ Tracked' = Tracked
        BY <1>2, <1>3, <2>2, <3>3 DEF Inv, Faultless, Healthy, Tracked
      <4> QED
        BY <1>3, <3>1, <3>3, <4>1 DEF Faultless, TracksContainer, Idle
    <3> QED
      BY <3>2, <3>3
  <2> QED
    BY <2>1, <2>2 DEF Inv
<1>6. ASSUME NEW a \in Calls, row # NoRow, Enter(a, "autostart", "observe", row, FALSE)
      PROVE  Inv'
  <2>1. row \in Row
    BY <1>1, <1>6 DEF RowTyped
  <2>2. /\ CallsTyped' /\ call[a] = NoCall /\ call'[a] # NoCall
        /\ call'[a].kind = "autostart" /\ call'[a].at = "observe" /\ call'[a].copy = row
    BY <1>1, <1>6, <2>1, Entered DEF Points, AllKinds
  <2>3. Typed'
    BY <1>3, <1>4, <2>2
       DEF Typed, DockerTyped, RowTyped, PanelTyped, CallsTyped, LimitsTyped
  <2>4. ASSUME Serial PROVE Begun' /\ (faults' = 0 => Faultless')
    <3>1. born
      BY <1>6, <2>4 DEF Inv, Begun
    <3>2. Begun'
      BY <1>2, <3>1 DEF Begun
    <3>3. ASSUME faults' = 0 PROVE Faultless'
      <4>1. Healthy /\ Existing' = Existing \cap {row.container}
        BY <1>3, <1>6, <2>4, <3>3 DEF Inv, Faultless, Tracked
      <4>2. Healthy' /\ Keeps(call[a])'
        BY <1>2, <1>6, <2>2, <4>1 DEF Keeps, Healthy
      <4> QED
        BY <2>2, <2>4, <4>2 DEF Faultless, TracksContainer, Idle, Serial
    <3> QED
      BY <3>2, <3>3
  <2> QED
    BY <2>3, <2>4 DEF Inv
<1> QED
  BY <1>2, <1>5, <1>6 DEF AutoStarts

LEMMA ProcessEndsStep == Inv /\ (Exit \/ Crash) => Inv'
<1> SUFFICES ASSUME Inv, Exit \/ Crash PROVE Inv'
  OBVIOUS
<1>1. /\ panel' = "off" /\ call' = [a \in Calls |-> NoCall]
      /\ UNCHANGED <<docker, row, born, requests, health, faults>>
      /\ crashes' \in 0..MaxCrashes
  BY DEF Exit, Crash, ProcessEnds, Inv, Typed
<1>2. Typed'
  BY <1>1 DEF Inv, Typed
<1>3. ASSUME Serial PROVE Begun' /\ (faults' = 0 => Faultless')
  <2>1. Idle'
    BY <1>1 DEF Idle
  <2>2. Begun'
    BY <1>1, <1>3, <2>1 DEF Inv, Begun
  <2>3. faults' = 0 => Faultless'
    BY <1>1, <1>3, <2>1 DEF Inv, Faultless, Healthy, TracksContainer, Idle
  <2> QED
    BY <2>2, <2>3
<1> QED
  BY <1>2, <1>3 DEF Inv

LEMMA BackgroundSteps ==
  ASSUME Inv, Shutdown \/ StopListed \/ (\E c \in Containers : HealthChanges(c) \/ Vanish(c)) \/ UNCHANGED vars
  PROVE  Inv'
<1>1. DockerTyped /\ LimitsTyped
  BY TypesAre DEF Inv
<1>2. CASE Shutdown
  <2>1. /\ panel # "off" /\ panel' = "leaving"
        /\ UNCHANGED <<docker, row, born, call, requests, health, crashes>>
    BY <1>2 DEF Shutdown
  <2>2. LimitsTyped' /\ DockerTyped' /\ Existing' = Existing
    <3>1. CASE Fails("list")
      BY <1>1, <2>1, <3>1, Failing DEF LimitsTyped, DockerTyped, Existing
    <3>2. CASE UNCHANGED faults
      BY <1>1, <2>1, <3>2 DEF LimitsTyped, DockerTyped, Existing
    <3> QED
      BY <1>2, <3>1, <3>2 DEF Shutdown
  <2>3. faults' = 0 => faults = 0
    BY <1>1, <1>2 DEF Shutdown, Fails, LimitsTyped
  <2> QED
    BY <2>1, <2>2, <2>3, Background
<1>3. ASSUME NEW c \in Containers, HealthChanges(c) PROVE Inv'
  <2>1. PICK state \in Up : docker' = [docker EXCEPT ![c] = state]
    BY <1>3 DEF HealthChanges
  <2>2. docker[c] \in Exists /\ state \in Exists
    BY <1>3 DEF HealthChanges, Exists
  <2>3. DockerTyped' /\ Existing' = Existing
    BY <1>1, <2>1, <2>2 DEF DockerTyped, Existing
  <2>4. LimitsTyped' /\ faults' = faults /\ panel' = panel /\ UNCHANGED <<row, born, call>>
    BY <1>1, <1>3 DEF LimitsTyped, HealthChanges
  <2> QED
    BY <2>3, <2>4, Background
<1>4. ASSUME NEW c \in Containers, Vanish(c) PROVE Inv'
  <2>1. DockerTyped'
    BY <1>1, <1>4 DEF DockerTyped, Vanish
  <2>2. LimitsTyped' /\ faults' # 0 /\ panel' = panel /\ UNCHANGED <<row, born, call>>
    BY <1>1, <1>4, Failing DEF LimitsTyped, Vanish
  <2> QED
    BY <2>1, <2>2, Background
<1>5. CASE StopListed
  <2>1. /\ panel # "off" /\ panel' = "closing"
        /\ UNCHANGED <<row, born, call, requests, health, crashes>>
    BY <1>5 DEF StopListed
  <2>2. CASE Fails("docker") /\ UNCHANGED docker
    <3>1. LimitsTyped' /\ DockerTyped' /\ faults' # 0
      BY <1>1, <2>1, <2>2, Failing DEF LimitsTyped, DockerTyped
    <3> QED
      BY <2>1, <3>1, Background
  <2>3. CASE UNCHANGED docker /\ UNCHANGED faults
    <3>1. LimitsTyped' /\ DockerTyped' /\ Existing' = Existing
      BY <1>1, <2>1, <2>3 DEF LimitsTyped, DockerTyped, Existing
    <3> QED
      BY <2>1, <2>3, <3>1, Background
  <2>4. CASE Stopped(listed.container) /\ UNCHANGED faults
    <3>1. LimitsTyped' /\ DockerTyped' /\ Existing' = Existing
      BY <1>1, <2>1, <2>4, Stopping DEF LimitsTyped
    <3> QED
      BY <2>1, <2>4, <3>1, Background
  <2> QED
    BY <1>5, <2>2, <2>3, <2>4 DEF StopListed
<1>6. CASE UNCHANGED vars
  <2>1. DockerTyped' /\ LimitsTyped' /\ Existing' = Existing
    BY <1>1, <1>6 DEF DockerTyped, LimitsTyped, Existing, vars
  <2> QED
    BY <1>6, <2>1, Background DEF vars
<1> QED
  BY <1>2, <1>3, <1>4, <1>5, <1>6

-----------------------------------------------------------------------------
(* The invariant.                                                           *)

LEMMA InitInv == Init => Inv
<1> SUFFICES ASSUME Init PROVE Inv
  OBVIOUS
<1>1. Typed
  <2>1. DockerTyped /\ CallsTyped
    BY DEF Init, DockerTyped, CallsTyped
  <2>2. RowTyped
    BY DEF Init, RowTyped
  <2>3. PanelTyped
    BY DEF Init, PanelTyped
  <2>4. LimitsTyped
    BY DEF Init, LimitsTyped
  <2> QED
    BY <2>1, <2>2, <2>3, <2>4, TypesAre
<1>2. Begun /\ Faultless
  BY DEF Init, Begun, Idle, Faultless, Healthy, TracksContainer
<1> QED
  BY <1>1, <1>2 DEF Inv

LEMMA ProceedStep ==
  ASSUME Inv, NEW a \in Calls, Proceed(a)
  PROVE  Inv'
  BY CreateContainerStep, CreateContainerFailsStep, SaveContainerStep, StartContainerStep,
     StartContainerFailsStep, StopContainerStep, StopContainerFailsStep, InspectOldStep,
     InspectOldFailsStep, HaltOldStep, HaltOldFailsStep, RemoveOldStep, RemoveOldFailsStep,
     CreateNewStep, CreateNewFailsStep, StartNewStep, StartNewFailsStep, SaveRecreatedStep,
     SaveEditStep, SaveServerStep, EraseServerStep, StatementFailsStep, ObserveStep,
     ObserveAutoStartStep, ObserveFailsStep DEF Proceed

LEMMA InvStep == Inv /\ [Next]_vars => Inv'
<1> SUFFICES ASSUME Inv, [Next]_vars PROVE Inv'
  OBVIOUS
<1> QED
  BY BootStep, ProcessEndsStep, BackgroundSteps, ReceiveStep, MonitorTickStep, ProceedStep DEF Next

LEMMA Invariance == Spec => []Inv
  BY InitInv, InvStep, PTL DEF Spec

\* Only the panel's own comings and goings change whether it is up, and what its
\* shutdown has listed.
LEMMA PanelMoves ==
  ASSUME [Next]_vars
  PROVE  UNCHANGED <<panel, listed>> \/ Boot \/ Shutdown \/ StopListed \/ Exit \/ Crash
<1>1. ASSUME NEW a \in Calls, Receive(a) \/ MonitorTick(a) PROVE UNCHANGED <<panel, listed>>
  BY <1>1 DEF Receive, MonitorTick, CreateServer, UpdateServer, UpdateServerRouting,
     UpdateServerConfig, DeleteServer, StartServer, StopServer, RestartServer, RecreateServer,
     ExecuteTask, Begin, Request
<1>2. ASSUME NEW a \in Calls, Proceed(a) PROVE UNCHANGED <<panel, listed>>
  <2>1. Local => UNCHANGED <<panel, listed>>
    BY DEF Local
  <2> QED
    BY <1>2, <2>1 DEF Proceed, CreateContainer, CreateContainerFails, SaveContainer,
       StartContainer, StartContainerFails, StopContainer, StopContainerFails, InspectOld,
       InspectOldFails, HaltOld, HaltOldFails, RemoveOld, RemoveOldFails, CreateNew,
       CreateNewFails, StartNew, StartNewFails, SaveRecreated, SaveEdit, SaveServer,
       EraseServer, StatementFails, Observe, ObserveAutoStart, ObserveFails
<1>3. ASSUME NEW c \in Containers, HealthChanges(c) \/ Vanish(c) PROVE UNCHANGED <<panel, listed>>
  BY <1>3 DEF HealthChanges, Vanish
<1> QED
  BY <1>1, <1>2, <1>3 DEF Next, vars

\* The shutdown lists the row, or nothing.
ListedTyped == listed \in Row \cup {NoRow}

LEMMA ListedStep == Inv /\ ListedTyped /\ [Next]_vars => ListedTyped'
<1> SUFFICES ASSUME Inv, ListedTyped, [Next]_vars PROVE ListedTyped'
  OBVIOUS
<1>1. row \in Row \cup {NoRow}
  BY DEF Inv, Typed
<1> QED
  BY <1>1, PanelMoves DEF ListedTyped, Boot, Shutdown, StopListed, Exit, Crash, ProcessEnds

-----------------------------------------------------------------------------
(* The theorems.                                                            *)

\* The row, the containers and the calls keep their form, for any number of
\* calls that interleave and any failures (internal/rpc/services, main.go).
THEOREM TypeCorrect == Spec => []TypeOK
<1>1. Init => ListedTyped
  BY DEF Init, ListedTyped
<1>2. Spec => []ListedTyped
  BY <1>1, ListedStep, Invariance, PTL DEF Spec
<1>3. Inv /\ ListedTyped => TypeOK
  BY DEF Inv, Typed, ListedTyped, TypeOK
<1> QED
  BY <1>2, <1>3, Invariance, PTL

\* Calls that run one at a time record no error before something has failed,
\* wherever the panel crashed and whatever was asked of it before.
THEOREM OneCallRecordsNoError == Serial => (Spec => []NoErrorWithoutFault)
<1>1. Serial /\ Inv => NoErrorWithoutFault
  BY DEF Inv, Faultless, Healthy, NoErrorWithoutFault
<1>2. Serial => [](Inv => NoErrorWithoutFault)
  <2> SUFFICES ASSUME Serial PROVE [](Inv => NoErrorWithoutFault)
    OBVIOUS
  <2>1. Inv => NoErrorWithoutFault
    BY <1>1
  <2> QED
    BY <2>1, PTL
<1> QED
  BY <1>2, Invariance, PTL

\* Calls that run one at a time leave no container behind that the row does not
\* name, before something has failed and in spite of crashes of the panel between
\* any two statements (RecreateContainer, CleanupOrphanedContainers).
THEOREM OneCallTracksContainer == Serial => (Spec => [](faults = 0 => TracksContainer))
<1>1. Serial => [](Inv => (faults = 0 => TracksContainer))
  <2> SUFFICES ASSUME Serial PROVE [](Inv => (faults = 0 => TracksContainer))
    OBVIOUS
  <2>1. Inv => (faults = 0 => TracksContainer)
    BY DEF Inv, Faultless
  <2> QED
    BY <2>1, PTL
<1> QED
  BY <1>1, Invariance, PTL

\* The panel's own start, shutdown and end leave the container of a server up that is
\* detached as far as they were told, for any calls in flight (Boot, StopListed).
THEOREM DetachedIsLeftRunning == Spec => DetachedKeepsRunning
<1>1. ASSUME Inv, [Next]_vars, panel' # panel, Told # NoRow, Told.settings \in Detached,
             faults' = faults, NEW c \in Containers, Told.container = c, docker[c] \in Up
      PROVE  docker'[c] \in Up
  <2>1. \A what : ~Fails(what)
    BY <1>1 DEF Inv, Typed, Fails
  <2>2. CASE Boot
    <3>1. CleanUp(Tracked) /\ c \in Tracked
      BY <1>1, <2>1, <2>2 DEF Boot, Tracked, Told
    <3> QED
      BY <1>1, <3>1 DEF CleanUp
  <2>3. CASE Shutdown
    BY <1>1, <2>3 DEF Shutdown
  <2>4. CASE StopListed
    BY <1>1, <2>1, <2>4 DEF StopListed, Told
  <2>5. CASE Exit \/ Crash
    BY <1>1, <2>5 DEF Exit, Crash, ProcessEnds
  <2> QED
    BY <1>1, <2>2, <2>3, <2>4, <2>5, PanelMoves
<1>2. Inv /\ [Next]_vars =>
        [panel' # panel /\ Told # NoRow /\ Told.settings \in Detached /\ faults' = faults =>
           \A c \in Containers : Told.container = c /\ docker[c] \in Up => docker'[c] \in Up]_vars
  BY <1>1
<1> QED
  BY <1>2, Invariance, PTL DEF Spec, DetachedKeepsRunning
=============================================================================
