----------------------------- MODULE NewServer -----------------------------
(***************************************************************************)
(* The page on which a server is created: its form, the calls that fill it *)
(* in, and the modpack it may be made of.                                  *)
(*                                                                         *)
(* Three things write the form while the user does: what the page asks for *)
(* when it is opened, the configuration of a modpack, and the versions of  *)
(* that modpack.  None of them asks whether the form has changed since.    *)
(***************************************************************************)
EXTENDS Naturals, FiniteSets

CONSTANTS Packs, NoPack,
          Typed, Free,     \* the port a user types, the free one the backend names
          MaxNewEdits      \* bound: changes the user makes to the form

ASSUME EditsAssumption == MaxNewEdits \in Nat

VARIABLES newForm, newCalls

newVars == <<newForm, newCalls>>

MaybePack == Packs \cup {NoPack}
Default == "default"    \* the port a form begins with

\* filled: the modpack whose configuration the form has; listed: the one whose versions are offered;
\* version: the one whose version is chosen.  suggested: the modpack in the address of the page.
BlankNewServer(suggested) ==
    [ready |-> FALSE, left |-> FALSE, loading |-> FALSE, name |-> FALSE, port |-> Default,
     known |-> FALSE, proxies |-> FALSE, proxy |-> FALSE, detached |-> FALSE, autoStart |-> FALSE,
     favorites |-> FALSE, choosing |-> FALSE, pack |-> NoPack, filled |-> NoPack,
     listed |-> NoPack, version |-> NoPack, fetching |-> FALSE, suggested |-> suggested, edits |-> 0]

NewServerTypeOK ==
    /\ {newForm.pack, newForm.filled, newForm.listed, newForm.version, newForm.suggested} \subseteq MaybePack
    /\ newForm.port \in {Default, Typed, Free} /\ newForm.edits \in 0 .. MaxNewEdits
    /\ newForm.proxy => newForm.proxies
    /\ \A c \in newCalls : c.op \in {"opening", "favorites", "pack", "config", "versions", "port", "create"}

\* `mount' marks the calls that onMount makes one after the other.
NewCall(op, p, mount) == [op |-> op, of |-> p, mount |-> mount]

NewServerInit ==
    /\ \E p \in MaybePack : newForm = BlankNewServer(p)
    /\ newCalls = {NewCall("opening", NoPack, TRUE)}

Creating == {c \in newCalls : c.op = "create"}

NewEnds(c) == newCalls' = newCalls \ {c}
Then(c, next) == newCalls' = (newCalls \ {c}) \cup {next}

\* The end of onMount, if it is the one that waited.
ReadyAfter(c, f) == [f EXCEPT !.ready = @ \/ c.mount]

(***************************************************************************)
(* Opening the page                                                        *)
(***************************************************************************)
\* The versions, the loaders and the images are needed; the port and the proxy come or do not.
OpeningArrives(c) ==
    /\ c.op = "opening"
    /\ \/ \E known, proxies \in BOOLEAN :
            /\ newForm' = [newForm EXCEPT !.known = known, !.proxies = proxies,
                                          !.port = IF known THEN Free ELSE @]
            /\ Then(c, NewCall("favorites", NoPack, TRUE))
       \/ newForm' = ReadyAfter(c, newForm) /\ NewEnds(c)

FavoritesArrive(c) ==
    /\ c.op = "favorites"
    /\ \E came \in BOOLEAN :
         IF newForm.suggested = NoPack
         THEN newForm' = ReadyAfter(c, [newForm EXCEPT !.favorites = came]) /\ NewEnds(c)
         ELSE /\ newForm' = [newForm EXCEPT !.favorites = came, !.suggested = NoPack]
              /\ Then(c, NewCall("pack", newForm.suggested, TRUE))

\* The modpack of the address is selected, unless it cannot be read.
PackArrives(c) ==
    /\ c.op = "pack"
    /\ \/ newForm' = [newForm EXCEPT !.pack = c.of, !.choosing = FALSE] /\ Then(c, NewCall("config", c.of, TRUE))
       \/ newForm' = ReadyAfter(c, newForm) /\ NewEnds(c)

(***************************************************************************)
(* The modpack                                                             *)
(***************************************************************************)
\* Whatever modpack is selected by now.
ConfigArrives(c) ==
    /\ c.op = "config"
    /\ \/ /\ newForm' = [newForm EXCEPT !.name = TRUE, !.filled = c.of, !.fetching = TRUE,
                                        !.listed = NoPack, !.version = NoPack]
          /\ Then(c, NewCall("versions", c.of, c.mount))
       \/ newForm' = ReadyAfter(c, [newForm EXCEPT !.pack = NoPack]) /\ NewEnds(c)

VersionsArrive(c) ==
    /\ c.op = "versions"
    /\ \E p \in {c.of, NoPack} :     \* or it failed
         newForm' = ReadyAfter(c, [newForm EXCEPT !.listed = p, !.fetching = FALSE])
    /\ NewEnds(c)

\* bound: one choice of a modpack is answered before the next but one.
OpenPacks ==
    /\ ~newForm.left /\ ~newForm.loading /\ newForm.favorites /\ ~newForm.choosing
    /\ newForm' = [newForm EXCEPT !.choosing = TRUE]
    /\ UNCHANGED newCalls

SelectModpack(p) ==
    /\ newForm.choosing /\ Cardinality(newCalls) <= 1
    /\ newForm' = [newForm EXCEPT !.pack = p, !.choosing = FALSE]
    /\ newCalls' = newCalls \cup {NewCall("config", p, FALSE)}

\* Manual Configuration only forgets the modpack, Remove takes back what it brought.
ChooseManual ==
    /\ ~newForm.left /\ ~newForm.choosing /\ newForm.pack # NoPack
    /\ newForm' = [newForm EXCEPT !.pack = NoPack]
    /\ UNCHANGED newCalls

RemoveModpack ==
    /\ ~newForm.choosing /\ newForm.pack # NoPack /\ ~newForm.loading
    /\ newForm' = [newForm EXCEPT !.pack = NoPack, !.filled = NoPack, !.listed = NoPack, !.version = NoPack]
    /\ UNCHANGED newCalls

(***************************************************************************)
(* The form                                                                *)
(***************************************************************************)
EditNew(f) ==
    /\ ~newForm.left /\ ~newForm.choosing /\ newForm.edits < MaxNewEdits
    /\ f # newForm /\ newForm' = [f EXCEPT !.edits = @ + 1]
    /\ UNCHANGED newCalls

\* The first of the list is `Latest version', which is none.
ChooseVersion ==
    /\ newForm.pack # NoPack /\ newForm.listed # NoPack /\ ~newForm.loading /\ ~newForm.fetching
    /\ \E v \in {newForm.listed, NoPack} : EditNew([newForm EXCEPT !.version = v])

TypeName == ~newForm.loading /\ EditNew([newForm EXCEPT !.name = ~@])

TypePort == ~newForm.loading /\ ~newForm.proxy /\ EditNew([newForm EXCEPT !.port = Typed])

\* Mutant: the buttons are shown without a proxy.
ChooseConnectionAlways == EditNew([newForm EXCEPT !.proxy = ~@])

\* The two ways to connect are buttons that are never disabled.
ChooseConnection == newForm.proxies /\ EditNew([newForm EXCEPT !.proxy = ~@])

ToggleDetached ==
    /\ ~newForm.loading /\ ~newForm.proxy
    /\ EditNew([newForm EXCEPT !.detached = ~@, !.autoStart = @ /\ newForm.detached])

ToggleAutoStart == ~newForm.loading /\ ~newForm.detached /\ EditNew([newForm EXCEPT !.autoStart = ~@])

RefreshAvailablePort ==
    /\ ~newForm.left /\ ~newForm.loading /\ ~newForm.proxy
    /\ newCalls = {}     \* bound
    /\ newCalls' = newCalls \cup {NewCall("port", NoPack, FALSE)}
    /\ UNCHANGED newForm

PortArrives(c) ==
    /\ c.op = "port"
    /\ newForm' \in {newForm, [newForm EXCEPT !.port = Free, !.known = TRUE]}
    /\ NewEnds(c)

(***************************************************************************)
(* Creating it                                                             *)
(***************************************************************************)
\* The default port is taken, which the page knows once the backend has told it.
ValidatePort == newForm.port # Default \/ ~newForm.known

HandleSubmitNew ==
    /\ newForm.ready /\ ~newForm.left /\ ~newForm.loading /\ ~newForm.choosing
    /\ newForm.name /\ (newForm.proxy \/ ValidatePort)
    /\ newForm' = [newForm EXCEPT !.loading = TRUE]
    /\ newCalls' = newCalls \cup {[op |-> "create", of |-> newForm.pack, mount |-> FALSE,
                                  version |-> newForm.version, detached |-> newForm.detached,
                                  autoStart |-> newForm.autoStart, proxy |-> newForm.proxy]}

\* Mutant: after a failure the form stays as it was sent.
ServerCreatedOnly(c) ==
    /\ c.op = "create"
    /\ \/ newForm' = [BlankNewServer(NoPack) EXCEPT !.left = TRUE, !.ready = TRUE] /\ newCalls' = {}
       \/ UNCHANGED newForm /\ NewEnds(c)

\* A success leaves for the page of the server, and nobody waits for the other calls.
ServerCreated(c) ==
    /\ c.op = "create"
    /\ \/ newForm' = [BlankNewServer(NoPack) EXCEPT !.left = TRUE, !.ready = TRUE] /\ newCalls' = {}
       \/ newForm' = [newForm EXCEPT !.loading = FALSE] /\ NewEnds(c)

NewServerNext ==
    \/ \E c \in newCalls : \/ OpeningArrives(c) \/ FavoritesArrive(c) \/ PackArrives(c) \/ ConfigArrives(c)
                           \/ VersionsArrive(c) \/ PortArrives(c) \/ ServerCreated(c)
    \/ \E p \in Packs : SelectModpack(p)
    \/ OpenPacks \/ ChooseManual \/ RemoveModpack \/ ChooseVersion \/ TypeName \/ TypePort
    \/ ChooseConnection \/ ToggleDetached \/ ToggleAutoStart \/ RefreshAvailablePort \/ HandleSubmitNew

\* Every call ends.
NewServerFairness ==
    \A op \in {"opening", "favorites", "pack", "config", "versions", "create"} :
        WF_newVars(\E c \in newCalls :
            /\ c.op = op /\ (op = "create" \/ c.mount)
            /\ \/ OpeningArrives(c) \/ FavoritesArrive(c) \/ PackArrives(c)
               \/ ConfigArrives(c) \/ VersionsArrive(c) \/ ServerCreated(c))

NewServerSpec == NewServerInit /\ [][NewServerNext]_newVars /\ NewServerFairness

(***************************************************************************)
(* Properties                                                              *)
(***************************************************************************)
\* A server that goes on without the panel is never created to be started by it, in whatever order
\* the two switches, the connection and a modpack were chosen.
DetachedNeverAutoStarts == \A c \in Creating : c.detached => ~c.autoStart

\* The form can be sent once it is open, and again after a failure.
NewServerWaiting == newForm.loading \/ ~newForm.ready

\* The code breaks these: a server behind the proxy is not detached; a version that is sent is one of
\* the modpack that is sent; what the user typed stays until he changes it.
ProxiedNeverDetached == \A c \in Creating : c.detached => ~c.proxy
VersionOfItsPack == \A c \in Creating : c.version \in {NoPack, c.of}
TypedPortStays == [][newForm.port = Typed => newForm'.port = Typed \/ newForm'.left \/ newCalls = newCalls']_newVars
=============================================================================
