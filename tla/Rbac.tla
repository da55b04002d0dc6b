-------------------------------- MODULE Rbac --------------------------------
(***************************************************************************)
(* Roles, permissions and their members (web_rbac_api.go).                 *)
(*                                                                         *)
(* The system roles and their permissions are seeded again by every list   *)
(* of the roles and by every save of a role, in one transaction, together  *)
(* with the membership each user has by the role of its row in auth_users. *)
(* The handlers that change something first read the role and refuse a     *)
(* system role, then write by its id in a transaction of its own: in       *)
(* between the role may have been deleted, created again or changed, and   *)
(* only the foreign keys are checked then.                                 *)
(*                                                                         *)
(* The audit log, which only its own list reads, is left out; an entry     *)
(* that cannot be written is discarded.  Nothing in the program asks these *)
(* tables before it lets a request in.                                     *)
(***************************************************************************)
EXTENDS Naturals, FiniteSets

CONSTANTS SystemRoles,    \* role_super_admin, role_client_admin, ...
          CustomRoles,    \* ids of the roles administrators make
          Users,
          Kind,           \* the system role that auth_users.role gives a user
          Permissions,    \* pairs of module and action
          Preset,         \* the permissions seeded for each system role
          NoRole,
          Requests        \* handlers that may be in flight at once

ASSUME RbacAssumption ==
  /\ SystemRoles \cap CustomRoles = {} /\ NoRole \notin SystemRoles \cup CustomRoles
  /\ Kind \in [Users -> SystemRoles]
  /\ Preset \in [SystemRoles -> SUBSET Permissions]

VARIABLES role,      \* rbac_roles and rbac_role_permissions (enabled = true)
          member,    \* rbac_user_roles
          req        \* what each request in flight has read and will write

vars == <<role, member, req>>

Roles == SystemRoles \cup CustomRoles
Statuses == {"active", "disabled"}
Role == [there: BOOLEAN, system: BOOLEAN, status: Statuses,
         perms: SUBSET Permissions, parent: Roles \cup {NoRole}]
Absent == [there |-> FALSE, system |-> FALSE, status |-> "active", perms |-> {},
           parent |-> NoRole]
\* was: the status that was read.
Request == [op: {"idle", "save", "toggle", "delete", "permissions", "assign", "remove"},
            id: Roles \cup {NoRole}, was: Statuses]
Idle == [op |-> "idle", id |-> NoRole, was |-> "active"]

RbacTypeOK ==
  /\ role \in [Roles -> Role]
  /\ member \subseteq Users \X Roles
  /\ req \in [Requests -> Request]

Init ==
  /\ role = [x \in Roles |-> Absent]
  /\ member = {}
  /\ req = [r \in Requests |-> Idle]

-----------------------------------------------------------------------------
(***************************************************************************)
(* What several handlers do.                                               *)
(***************************************************************************)

\* A request has read role x, whose status is st, and goes on to write.
ReadRole(r, op, x, st) ==
  /\ req[r] = Idle
  /\ req' = [req EXCEPT ![r] = [op |-> op, id |-> x, was |-> st]]

\* Request r has run its last statement.
Written(r) == req' = [req EXCEPT ![r] = Idle]

\* Faulty: a status the column does not know.
SeedWithoutStatus ==
  [x \in Roles |-> IF x \in SystemRoles
                   THEN [there |-> TRUE, system |-> TRUE, status |-> "seeded",
                         perms |-> Preset[x], parent |-> NoRole]
                   ELSE role[x]]

\* seedRbacRolePermissions: what the role had goes, what its preset has comes.
SystemRole(x) == [there |-> TRUE, system |-> TRUE, status |-> "active",
                  perms |-> Preset[x], parent |-> NoRole]

\* seedDefaultRbacData: the system roles with their permissions ...
SeededRoles == [x \in Roles |-> IF x \in SystemRoles THEN SystemRole(x) ELSE role[x]]

\* ... and every user's own role.
SeededMembers == member \cup {<<u, Kind[u]>> : u \in Users}

\* Faulty: only the permissions go with their role, its members stay.
CascadePermissionsOnly(x) ==
  /\ role' = [y \in Roles |-> IF y = x THEN Absent
                              ELSE IF role[y].parent = x THEN [role[y] EXCEPT !.parent = NoRole]
                              ELSE role[y]]
  /\ UNCHANGED member

\* ON DELETE CASCADE for permissions and members, ON DELETE SET NULL for heirs and log.
Cascade(x) ==
  /\ role' = [y \in Roles |-> IF y = x THEN Absent
                              ELSE IF role[y].parent = x THEN [role[y] EXCEPT !.parent = NoRole]
                              ELSE role[y]]
  /\ member' = {m \in member : m[2] # x}

-----------------------------------------------------------------------------
\* handleRbacRolesList: nothing but the seed.
ListRoles ==
  /\ role' = SeededRoles
  /\ member' = SeededMembers
  /\ UNCHANGED req

\* Faulty: a save reads the role without seeding first.
SaveUnseeded(r, x) ==
  /\ ~role[x].system
  /\ ReadRole(r, "save", x, role[x].status)
  /\ UNCHANGED <<role, member>>

\* handleRbacRoleSave: seed, read, refuse a system role ...
SaveBegin(r, x) ==
  /\ ~SeededRoles[x].system
  /\ role' = SeededRoles
  /\ member' = SeededMembers
  /\ ReadRole(r, "save", x, SeededRoles[x].status)

\* ... then insert or overwrite.  The payload may make it a system role, which no
\* later request can change; a parent must exist.
SaveWrite(r, system, status, parent) ==
  LET x == req[r].id
  IN  /\ req[r].op = "save"
      /\ parent \notin {NoRole, x} => role[parent].there
      /\ role' = [role EXCEPT ![x] = [there |-> TRUE, system |-> system, status |-> status,
                                      perms |-> @.perms, parent |-> parent]]
      /\ Written(r)
      /\ UNCHANGED member

\* The five other requests read the role first; a system role is left alone, except
\* that anyone may be assigned to it or removed from it.
Begin(r, op, x) ==
  /\ role[x].there
  /\ op \in {"toggle", "delete", "permissions"} => ~role[x].system
  /\ ReadRole(r, op, x, role[x].status)
  /\ UNCHANGED <<role, member>>

\* handleRbacRoleToggle: the opposite of the status that was read, if the row is there.
ToggleWrite(r) ==
  LET x == req[r].id
      next == IF req[r].was = "disabled" THEN "active" ELSE "disabled"
  IN  /\ req[r].op = "toggle"
      /\ role' = IF role[x].there THEN [role EXCEPT ![x].status = next] ELSE role
      /\ Written(r)
      /\ UNCHANGED member

\* handleRbacRoleDelete.
DeleteWrite(r) ==
  /\ req[r].op = "delete"
  /\ Cascade(req[r].id)
  /\ Written(r)

\* handleRbacPermissionsSave: one permission set or cleared, or all replaced, in one
\* transaction.  The foreign key refuses a permission of a role that has gone.
PermissionsWrite(r, perms) ==
  /\ req[r].op = "permissions"
  /\ ~role[req[r].id].there => perms = {}
  /\ role' = [role EXCEPT ![req[r].id].perms = perms]
  /\ Written(r)
  /\ UNCHANGED member

\* handleRbacUserAssign: so does the foreign key of the members.
AssignWrite(r, u) ==
  /\ req[r].op = "assign"
  /\ role[req[r].id].there
  /\ member' = member \cup {<<u, req[r].id>>}
  /\ Written(r)
  /\ UNCHANGED role

\* handleRbacUserRemove.
RemoveWrite(r, u) ==
  /\ req[r].op = "remove"
  /\ member' = member \ {<<u, req[r].id>>}
  /\ Written(r)
  /\ UNCHANGED role

\* Nothing is written: a foreign key refuses, or the request ran out of time.
WriteFails(r) ==
  /\ req[r] # Idle
  /\ Written(r)
  /\ UNCHANGED <<role, member>>

Next ==
  \/ ListRoles
  \/ \E r \in Requests, x \in Roles :
       \/ SaveBegin(r, x)
       \/ \E op \in {"toggle", "delete", "permissions", "assign", "remove"} : Begin(r, op, x)
  \/ \E r \in Requests, sys \in BOOLEAN, st \in Statuses, p \in Roles \cup {NoRole} :
       SaveWrite(r, sys, st, p)
  \/ \E r \in Requests : ToggleWrite(r) \/ DeleteWrite(r) \/ WriteFails(r)
  \/ \E r \in Requests, ps \in SUBSET Permissions : PermissionsWrite(r, ps)
  \/ \E r \in Requests, u \in Users : AssignWrite(r, u) \/ RemoveWrite(r, u)

Spec == Init /\ [][Next]_vars

-----------------------------------------------------------------------------
(***************************************************************************)
(* Properties.                                                             *)
(***************************************************************************)

\* A system role that is there has its preset permissions, is active and marked as a
\* system role, whatever requests are in flight: no request can have read it as a role
\* it may change, although the row is read outside the transaction that writes.
SystemRolesKeepPresets ==
  \A x \in SystemRoles : role[x].there =>
    role[x].system /\ role[x].status = "active" /\ role[x].perms = Preset[x]

\* Of a role that is not there nothing is left, no permission, no member and no role that
\* inherits from it: a request that read the role before it was deleted, and writes after,
\* finds the foreign keys of three tables in its way.
DeletedRoleLeavesNothing ==
  \A x \in Roles : ~role[x].there =>
    /\ role[x].perms = {}
    /\ \A y \in Roles : role[y].parent # x
    /\ \A u \in Users : <<u, x>> \notin member

=============================================================================
