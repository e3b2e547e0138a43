---------------------------- MODULE ProfilePage ----------------------------
(***************************************************************************)
(* The profile of the account that is logged in: its API tokens, which are *)
(* listed, made in a dialog and deleted, and its password.                 *)
(*                                                                         *)
(* The plaintext of a token is only in the answer to the call that made it.*)
(***************************************************************************)
EXTENDS Naturals, FiniteSets

CONSTANTS ApiTokens,    \* bound: the tokens that can be made
          FirstApiTokens, \* those the account has when the page is opened
          NoApiToken

ASSUME ApiTokensAssumption == FirstApiTokens \subseteq ApiTokens

VARIABLES tokenTable,     \* the backend: the tokens the account has, and had
          profile, profileCalls

profileVars == <<tokenTable, profile, profileCalls>>

MaybeApiToken == ApiTokens \cup {NoApiToken}

\* typed: nothing; what the page refuses; a wrong and the right password, with a fit new one.
Typings == {"blank", "unfit", "wrong", "right"}

BlankProfile(isLocal) ==
    [isLocal |-> isLocal, rows |-> {}, loading |-> TRUE, dialog |-> FALSE, named |-> FALSE,
     creating |-> FALSE, shown |-> NoApiToken, deleting |-> NoApiToken, saving |-> FALSE,
     typed |-> "blank"]

ProfileTypeOK ==
    /\ tokenTable.now \subseteq tokenTable.made /\ tokenTable.made \subseteq ApiTokens
    /\ profile.rows \subseteq tokenTable.made /\ {profile.shown, profile.deleting} \subseteq MaybeApiToken
    /\ profile.typed \in Typings /\ (profile.saving => profile.isLocal)
    /\ {profile.loading, profile.dialog, profile.named, profile.creating} \subseteq BOOLEAN

\* `for' is who waits for a list; `seen' is what the backend has answered.  `nr' tells apart two
\* deletions of one token.
ListTokens(for) == [op |-> "list", for |-> for, served |-> FALSE, seen |-> {}]
TokenCall(op, t, nr) == [op |-> op, of |-> t, nr |-> nr]

ProfileInit ==
    /\ tokenTable = [now |-> FirstApiTokens, made |-> FirstApiTokens]
    /\ \E isLocal \in BOOLEAN : profile = BlankProfile(isLocal)
    /\ profileCalls = {ListTokens("mount")}

\* The `finally' of whoever asked for the list.
Resumes(p, for) ==
    CASE for = "create" -> [p EXCEPT !.creating = FALSE]
      [] for = "delete" -> [p EXCEPT !.deleting = NoApiToken]
      [] OTHER -> p

ProfileEnds(c) == profileCalls' = profileCalls \ {c}
ThenLists(c, for) == profileCalls' = (profileCalls \ {c}) \cup {ListTokens(for)}

(***************************************************************************)
(* The list: the table is hidden from the question to the first answer     *)
(***************************************************************************)
ServesTokens(c) ==
    /\ c.op = "list" /\ ~c.served
    /\ profileCalls' = (profileCalls \ {c}) \cup {[c EXCEPT !.served = TRUE, !.seen = tokenTable.now]}
    /\ UNCHANGED <<tokenTable, profile>>

\* Or it fails, silently.
TokensLoaded(c) ==
    /\ c.op = "list"
    /\ \E rows \in {profile.rows} \cup IF c.served THEN {c.seen} ELSE {} :
         profile' = Resumes([profile EXCEPT !.rows = rows, !.loading = FALSE], c.for)
    /\ ProfileEnds(c) /\ UNCHANGED tokenTable

(***************************************************************************)
(* Making a token                                                          *)
(***************************************************************************)
OpenTokenDialog ==
    /\ ~profile.dialog /\ profile' = [profile EXCEPT !.dialog = TRUE]
    /\ UNCHANGED <<tokenTable, profileCalls>>

\* The cross, and a click outside, at any time.
CloseCreateDialog ==
    /\ profile.dialog
    /\ profile' = [profile EXCEPT !.dialog = FALSE, !.shown = NoApiToken, !.named = FALSE]
    /\ UNCHANGED <<tokenTable, profileCalls>>

TypeTokenName ==
    /\ profile.dialog /\ profile.shown = NoApiToken /\ ~profile.creating
    /\ profile' = [profile EXCEPT !.named = ~@]
    /\ UNCHANGED <<tokenTable, profileCalls>>

CreateToken ==
    /\ profile.dialog /\ profile.shown = NoApiToken /\ ~profile.creating /\ profile.named
    /\ profile' = [profile EXCEPT !.creating = TRUE]
    /\ profileCalls' = profileCalls \cup {TokenCall("create", NoApiToken, 1)}
    /\ UNCHANGED tokenTable

\* Whether the dialog is still open is not asked.  An answer that is lost loses the plaintext.
TokenCreated(c) ==
    /\ c.op = "create"
    /\ \/ \E t \in ApiTokens \ tokenTable.made :
            /\ tokenTable' = [now |-> tokenTable.now \cup {t}, made |-> tokenTable.made \cup {t}]
            /\ \/ profile' = [profile EXCEPT !.shown = t, !.loading = TRUE] /\ ThenLists(c, "create")
               \/ profile' = [profile EXCEPT !.creating = FALSE] /\ ProfileEnds(c)
       \/ /\ profile' = [profile EXCEPT !.creating = FALSE]
          /\ ProfileEnds(c) /\ UNCHANGED tokenTable

(***************************************************************************)
(* Deleting one.  There is one flag, for the token that was clicked last.  *)
(***************************************************************************)
DeleteToken(t) ==
    /\ ~profile.dialog /\ ~profile.loading /\ t \in profile.rows /\ profile.deleting # t
    /\ Cardinality(profileCalls) < 2     \* bound
    /\ \E nr \in {n \in 1 .. 2 : TokenCall("delete", t, n) \notin profileCalls} :
         profileCalls' = profileCalls \cup {TokenCall("delete", t, nr)}
    /\ profile' = [profile EXCEPT !.deleting = t]
    /\ UNCHANGED tokenTable

\* A token that is gone already is an error, and the list is left as it is.
TokenDeleted(c) ==
    /\ c.op = "delete"
    /\ \/ /\ c.of \in tokenTable.now
          /\ tokenTable' = [tokenTable EXCEPT !.now = @ \ {c.of}]
          /\ \/ ThenLists(c, "delete") /\ profile' = [profile EXCEPT !.loading = TRUE]
             \/ ProfileEnds(c) /\ profile' = [profile EXCEPT !.deleting = NoApiToken]
       \/ /\ ProfileEnds(c) /\ profile' = [profile EXCEPT !.deleting = NoApiToken]
          /\ UNCHANGED tokenTable

(***************************************************************************)
(* The password, of an account the panel keeps itself                      *)
(***************************************************************************)
TypePassword ==
    /\ profile.isLocal /\ ~profile.dialog /\ ~profile.saving
    /\ profileCalls = {}     \* bound
    /\ \E typed \in Typings : profile' = [profile EXCEPT !.typed = typed]
    /\ UNCHANGED <<tokenTable, profileCalls>>

ChangePassword ==
    /\ profile.isLocal /\ ~profile.dialog /\ ~profile.saving /\ profile.typed \in {"wrong", "right"}
    /\ profile' = [profile EXCEPT !.saving = TRUE]
    /\ profileCalls' = profileCalls \cup {TokenCall("password", NoApiToken, 1)}
    /\ UNCHANGED tokenTable

PasswordChanged(c) ==
    /\ c.op = "password"
    /\ \/ profile.typed = "right" /\ profile' = [profile EXCEPT !.saving = FALSE, !.typed = "blank"]
       \/ profile' = [profile EXCEPT !.saving = FALSE]
    /\ ProfileEnds(c) /\ UNCHANGED tokenTable

ProfileNext ==
    \/ \E c \in profileCalls : \/ ServesTokens(c) \/ TokensLoaded(c) \/ TokenCreated(c)
                               \/ TokenDeleted(c) \/ PasswordChanged(c)
    \/ OpenTokenDialog \/ CloseCreateDialog \/ TypeTokenName \/ CreateToken
    \/ TypePassword \/ ChangePassword
    \/ \E t \in ApiTokens : DeleteToken(t)

\* Every call ends.
ProfileFairness ==
    /\ WF_profileVars(\E c \in profileCalls : c.op = "create" /\ TokenCreated(c))
    /\ WF_profileVars(\E c \in profileCalls : c.op = "list" /\ c.for = "create" /\ TokensLoaded(c))

ProfileSpec == ProfileInit /\ [][ProfileNext]_profileVars /\ ProfileFairness

(***************************************************************************)
(* Properties                                                              *)
(***************************************************************************)
\* However often the dialog is closed and opened while a token is being made, no second one is.
OneTokenAtATime == Cardinality({c \in profileCalls : c.op = "create"} \cup
                               {c \in profileCalls : c.op = "list" /\ c.for = "create"}) <= 1

\* The code breaks these: the plaintext that is shown is of a token that exists; a token is
\* deleted once; with no call on its way the table is the backend's.
ShownTokenExists == profile.dialog /\ profile.shown # NoApiToken => profile.shown \in tokenTable.now
DeletedOnce == \A c, d \in profileCalls : c.op = "delete" /\ d.op = "delete" /\ c.of = d.of => c = d
TableIsCurrent == profileCalls = {} /\ ~profile.loading => profile.rows = tokenTable.now
=============================================================================
