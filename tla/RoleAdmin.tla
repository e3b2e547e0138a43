----------------------------- MODULE RoleAdmin -----------------------------
(***************************************************************************)
(* The roles of the panel and the dialog with their permissions, for one   *)
(* kind of resource.  A permission is for all objects of it or for one;    *)
(* the dialog splits what a role has into the two, and sends both back as  *)
(* everything the role has.                                                *)
(***************************************************************************)
EXTENDS Naturals, FiniteSets

CONSTANTS Roles, SystemRole,    \* the system role among them may do everything
          Actions, Objects,
          AnyObject, NoRole

ASSUME ActionsAssumption == Actions # {}

VARIABLES grants,     \* what each role may do at the backend, NoRole if it was deleted
          existing,   \* the objects there are: a permission may outlive its object
          rolePage, roleCalls

roleVars == <<grants, existing, rolePage, roleCalls>>

Permissions == [act : Actions, on : Objects \cup {AnyObject}]
Everything == [act : Actions, on : {AnyObject}]

RolePageOpened ==
    [matrix |-> [r \in Roles |-> NoRole], objects |-> {}, loading |-> TRUE, dialog |-> "none",
     section |-> "global", editing |-> NoRole, opened |-> {}, touched |-> FALSE, toggled |-> FALSE,
     global |-> {}, scoped |-> {}, saving |-> FALSE]

RoleTypeOK ==
    /\ \A r \in Roles : grants[r] \in (SUBSET Permissions) \cup {NoRole}
    /\ rolePage.global \subseteq Actions /\ rolePage.scoped \subseteq Permissions
    /\ rolePage.dialog \in {"none", "create", "permissions"} /\ rolePage.section \in {"global", "scoped"}
    /\ rolePage.editing \in Roles \cup {NoRole} /\ existing \subseteq Objects
    /\ {rolePage.loading, rolePage.saving, rolePage.touched, rolePage.toggled} \subseteq BOOLEAN

RoleCallOf(op, r) == [op |-> op, role |-> r, perms |-> {}, opened |-> {}, touched |-> FALSE]
LoadRoles == RoleCallOf("load", NoRole)
ReloadRoles == RoleCallOf("reload", NoRole)     \* that a save waits for

RoleAdminInit ==
    /\ LET a == CHOOSE a \in Actions : TRUE
       IN  grants = [r \in Roles |-> IF r = SystemRole THEN Everything
                                     ELSE {[act |-> a, on |-> o] : o \in Objects \cup {AnyObject}}]
    /\ existing = Objects
    /\ rolePage = RolePageOpened /\ roleCalls = {LoadRoles}

\* bound: one more call beside one that is on its way.
RoleMay == Cardinality(roleCalls) <= 1

(***************************************************************************)
(* The table, which is left as it was when a load fails                    *)
(***************************************************************************)
RolesLoaded(c) ==
    /\ c.op \in {"load", "reload"}
    /\ LET over == [rolePage EXCEPT !.loading = FALSE, !.saving = @ /\ c.op # "reload"]
       IN  rolePage' \in {[over EXCEPT !.matrix = grants, !.objects = existing], over}
    /\ roleCalls' = roleCalls \ {c} /\ UNCHANGED <<grants, existing>>

ObjectGoes(o) ==
    /\ o \in existing /\ existing' = existing \ {o}
    /\ UNCHANGED <<grants, rolePage, roleCalls>>

RoleReloads(c, p, load) ==
    /\ rolePage' = [p EXCEPT !.loading = TRUE]
    /\ roleCalls' = (roleCalls \ {c}) \cup {load}

CreateRole ==
    /\ rolePage.dialog = "create" /\ RoleMay
    /\ roleCalls' = roleCalls \cup {RoleCallOf("create", NoRole)}
    /\ UNCHANGED <<grants, existing, rolePage>>

RoleCreated(c) ==
    /\ c.op = "create"
    /\ \/ \E r \in Roles : grants[r] = NoRole /\ grants' = [grants EXCEPT ![r] = {}]
                           /\ RoleReloads(c, [rolePage EXCEPT !.dialog = IF @ = "create" THEN "none" ELSE @], LoadRoles)
       \/ roleCalls' = roleCalls \ {c} /\ UNCHANGED <<grants, rolePage>>
    /\ UNCHANGED existing

DeleteRole(r) ==
    /\ rolePage.dialog = "none" /\ ~rolePage.loading /\ rolePage.matrix[r] # NoRole
    /\ r # SystemRole /\ RoleMay
    /\ roleCalls' = roleCalls \cup {RoleCallOf("delete", r)}
    /\ UNCHANGED <<grants, existing, rolePage>>

RoleDeleted(c) ==
    /\ c.op = "delete"
    /\ \/ grants' = [grants EXCEPT ![c.role] = NoRole] /\ RoleReloads(c, rolePage, LoadRoles)
       \/ roleCalls' = roleCalls \ {c} /\ UNCHANGED <<grants, rolePage>>
    /\ UNCHANGED existing

(***************************************************************************)
(* The dialogs                                                             *)
(***************************************************************************)
OpenCreateRole ==
    /\ rolePage.dialog = "none"
    /\ rolePage' = [rolePage EXCEPT !.dialog = "create"]
    /\ UNCHANGED <<grants, existing, roleCalls>>

CloseRoleDialog ==
    /\ rolePage.dialog # "none"
    /\ rolePage' = [rolePage EXCEPT !.dialog = "none"]
    /\ UNCHANGED <<grants, existing, roleCalls>>

HasFullAccess(r) == r = SystemRole

\* Mutant: those of an object that is gone are dropped.
ScopedOfShown(perms) == {p \in perms : p.on \in rolePage.objects}

\* Those of an object that is gone are kept, and shown by its identifier.
ScopedOf(perms) == {p \in perms : p.on # AnyObject}
GlobalOf(perms) == {a \in Actions : [act |-> a, on |-> AnyObject] \in perms}

OpenPermissionsDialog(r) ==
    /\ rolePage.dialog = "none" /\ ~rolePage.loading
    /\ rolePage.matrix[r] # NoRole /\ ~HasFullAccess(r)
    /\ LET perms == rolePage.matrix[r]
       IN  rolePage' = [rolePage EXCEPT !.dialog = "permissions", !.editing = r, !.section = "global",
                                        !.opened = perms, !.touched = FALSE,
                                        !.global = GlobalOf(perms), !.scoped = ScopedOf(perms)]
    /\ UNCHANGED <<grants, existing, roleCalls>>

InDialog == rolePage.dialog = "permissions" /\ rolePage.editing # NoRole
Flip(set, x) == IF x \in set THEN set \ {x} ELSE set \cup {x}
Touched == [rolePage EXCEPT !.touched = TRUE, !.toggled = TRUE]
MayToggle == InDialog /\ ~rolePage.toggled    \* bound: one change

ChooseSection ==
    /\ InDialog /\ \E s \in {"global", "scoped"} \ {rolePage.section} : rolePage' = [rolePage EXCEPT !.section = s]
    /\ UNCHANGED <<grants, existing, roleCalls>>

TogglePermission(a) ==
    /\ MayToggle /\ rolePage.section = "global"
    /\ rolePage' = [Touched EXCEPT !.global = Flip(@, a)]
    /\ UNCHANGED <<grants, existing, roleCalls>>

IsResourceAllChecked == rolePage.global = Actions
ToggleResourceAll ==
    /\ MayToggle /\ rolePage.section = "global"
    /\ rolePage' = [Touched EXCEPT !.global = IF IsResourceAllChecked THEN {} ELSE Actions]
    /\ UNCHANGED <<grants, existing, roleCalls>>

\* What is granted for all objects cannot be chosen for one.
ToggleScopedPermission(p) ==
    /\ MayToggle /\ rolePage.section = "scoped" /\ p.on \in rolePage.objects /\ p.act \notin rolePage.global
    /\ rolePage' = [Touched EXCEPT !.scoped = Flip(@, p)]
    /\ UNCHANGED <<grants, existing, roleCalls>>

SavePermissions ==
    /\ InDialog /\ ~rolePage.saving /\ RoleMay
    /\ rolePage' = [rolePage EXCEPT !.saving = TRUE]
    /\ roleCalls' = roleCalls \cup
         {[RoleCallOf("save", rolePage.editing) EXCEPT
             !.perms = rolePage.scoped \cup [act : rolePage.global, on : {AnyObject}],
             !.opened = rolePage.opened, !.touched = rolePage.touched]}
    /\ UNCHANGED <<grants, existing>>

\* A success closes the dialog, whichever role it has been opened for since, and the save is over
\* when the table has been loaded again, if only with an error.
PermissionsSaved(c) ==
    /\ c.op = "save"
    /\ \/ /\ grants' = [grants EXCEPT ![c.role] = IF @ = NoRole THEN NoRole ELSE c.perms]
          /\ RoleReloads(c, [rolePage EXCEPT !.editing = NoRole,
                                             !.dialog = IF @ = "permissions" THEN "none" ELSE @], ReloadRoles)
       \/ /\ rolePage' = [rolePage EXCEPT !.saving = FALSE]
          /\ roleCalls' = roleCalls \ {c} /\ UNCHANGED grants
    /\ UNCHANGED existing

RoleAdminNext ==
    \/ \E c \in roleCalls : RolesLoaded(c) \/ RoleCreated(c) \/ RoleDeleted(c) \/ PermissionsSaved(c)
    \/ \E o \in Objects : ObjectGoes(o)
    \/ \E r \in Roles : DeleteRole(r) \/ OpenPermissionsDialog(r)
    \/ \E a \in Actions : TogglePermission(a)
    \/ \E p \in Permissions : ToggleScopedPermission(p)
    \/ CreateRole \/ OpenCreateRole \/ CloseRoleDialog \/ ChooseSection \/ ToggleResourceAll \/ SavePermissions

\* Every call ends.
RoleAdminFairness ==
    /\ WF_roleVars(\E c \in roleCalls : c.op = "reload" /\ RolesLoaded(c))
    /\ WF_roleVars(\E c \in roleCalls : PermissionsSaved(c))

RoleAdminSpec == RoleAdminInit /\ [][RoleAdminNext]_roleVars /\ RoleAdminFairness

(***************************************************************************)
(* Properties                                                              *)
(***************************************************************************)
\* A dialog that was opened and is saved as it was leaves the role what it has, also on objects that are
\* gone and cannot be shown, as long as the role still has what the table said when it was opened.
SaveKeepsUntouched ==
    \A c \in roleCalls :
        c.op = "save" /\ ~c.touched /\ c.opened = grants[c.role] => c.perms = grants[c.role]

\* The code breaks this: after a save whose reload failed the table is that of before, and the role that is
\* opened and saved as it was has again what it had then.
SaveKeepsGrants ==
    \A c \in roleCalls : c.op = "save" /\ ~c.touched => grants[c.role] \in {NoRole, c.perms}
=============================================================================
