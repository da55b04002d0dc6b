----------------------------- MODULE RbacProofs -----------------------------
(***************************************************************************)
(* Proofs about Rbac, for any roles, users, permissions and requests.      *)
(*                                                                         *)
(* What makes the properties inductive is that a request in flight which   *)
(* may change a role has a custom one (CustomRead): a save seeds before it *)
(* reads, and what is there of a system role is always marked as one.      *)
(***************************************************************************)
EXTENDS Rbac, TLAPS

\* The roles that requests in flight have read are no system roles, save for those whose
\* members they change.
CustomRead ==
  \A r \in Requests : /\ req[r].op \in {"save", "toggle", "delete", "permissions"}
                           => req[r].id \in CustomRoles
                      /\ req[r].op \in {"assign", "remove"} => req[r].id \in Roles

\* The inductive invariant.
IInv == RbacTypeOK /\ SystemRolesKeepPresets /\ DeletedRoleLeavesNothing /\ CustomRead

-----------------------------------------------------------------------------
(***************************************************************************)
(* What the actions share.                                                 *)
(***************************************************************************)

\* The records that are written have their types, and no role is both.
LEMMA RecordTypes ==
  /\ Absent \in Role /\ Idle \in Request
  /\ \A x \in SystemRoles : SystemRole(x) \in Role
  /\ \A x \in CustomRoles : x \notin SystemRoles /\ x \in Roles
  /\ \A x \in SystemRoles : x \in Roles
  /\ NoRole \notin Roles
BY RbacAssumption DEF Absent, Role, Idle, Request, SystemRole, Roles, Statuses

\* A request that has written leaves the others as they were.
LEMMA WrittenKeeps ==
  ASSUME RbacTypeOK, CustomRead, NEW r \in Requests, Written(r)
  PROVE  req' \in [Requests -> Request] /\ CustomRead'
BY RecordTypes DEF RbacTypeOK, CustomRead, Written, Idle

\* A request that has read a role it may change has read a custom one.
LEMMA ReadKeeps ==
  ASSUME RbacTypeOK, CustomRead, NEW r \in Requests, NEW x \in Roles, NEW st \in Statuses,
         NEW op \in {"save", "toggle", "delete", "permissions", "assign", "remove"},
         op \in {"save", "toggle", "delete", "permissions"} => x \in CustomRoles,
         ReadRole(r, op, x, st)
  PROVE  req' \in [Requests -> Request] /\ CustomRead'
<1> DEFINE new == [op |-> op, id |-> x, was |-> st]
<1>1. new \in Request
  BY DEF Request
<1>2. req' = [req EXCEPT ![r] = new]
  BY DEF ReadRole
<1>3. new.op = op /\ new.id = x
  OBVIOUS
<1> HIDE DEF new
<1> QED
  BY <1>1, <1>2, <1>3 DEF RbacTypeOK, CustomRead

\* The seed keeps the types and makes the system roles what they should be.
LEMMA SeedKeeps ==
  ASSUME IInv, role' = SeededRoles, member' = SeededMembers
  PROVE  /\ role' \in [Roles -> Role] /\ member' \subseteq Users \X Roles
         /\ SystemRolesKeepPresets' /\ DeletedRoleLeavesNothing'
<1>1. /\ \A x \in SystemRoles :
           /\ role'[x].there /\ role'[x].system /\ role'[x].status = "active"
           /\ role'[x].perms = Preset[x] /\ role'[x].parent = NoRole
      /\ \A x \in Roles \ SystemRoles : role'[x] = role[x]
  <2>1. /\ \A x \in SystemRoles : role'[x] = SystemRole(x)
        /\ \A x \in Roles \ SystemRoles : role'[x] = role[x]
    BY RecordTypes DEF SeededRoles
  <2>2. \A x : /\ SystemRole(x).there /\ SystemRole(x).system
                /\ SystemRole(x).status = "active" /\ SystemRole(x).perms = Preset[x]
                /\ SystemRole(x).parent = NoRole
    BY DEF SystemRole
  <2> QED
    BY <2>1, <2>2
<1>2. role' \in [Roles -> Role]
  BY RecordTypes DEF IInv, RbacTypeOK, SeededRoles
<1>3. member' \subseteq Users \X Roles
  BY RecordTypes, RbacAssumption DEF IInv, RbacTypeOK, SeededMembers
<1>4. SystemRolesKeepPresets'
  BY <1>1 DEF SystemRolesKeepPresets
<1>5. DeletedRoleLeavesNothing'
  <2> SUFFICES ASSUME NEW x \in Roles, ~role'[x].there
               PROVE  /\ role'[x].perms = {}
                      /\ \A y \in Roles : role'[y].parent # x
                      /\ \A u \in Users : <<u, x>> \notin member'
    BY DEF DeletedRoleLeavesNothing
  <2>1. x \notin SystemRoles
    BY <1>1
  <2>2. role'[x] = role[x] /\ ~role[x].there
    BY <1>1, <2>1
  <2>3. role'[x].perms = {}
    BY <2>2 DEF IInv, DeletedRoleLeavesNothing
  <2>4. \A y \in Roles : role'[y].parent # x
    BY <1>1, <2>2, RecordTypes DEF IInv, DeletedRoleLeavesNothing
  <2>5. \A u \in Users : <<u, x>> \notin member'
    <3>1. \A u \in Users : Kind[u] # x
      BY <2>1, RbacAssumption
    <3>2. \A u \in Users : <<u, x>> \notin member
      BY <2>2 DEF IInv, DeletedRoleLeavesNothing
    <3> QED
      BY <3>1, <3>2 DEF SeededMembers
  <2> QED
    BY <2>3, <2>4, <2>5
<1> QED
  BY <1>2, <1>3, <1>4, <1>5

-----------------------------------------------------------------------------
(***************************************************************************)
(* Every action keeps the invariant.                                       *)
(***************************************************************************)

\* At the start there are no roles.
LEMMA InitIInv == Init => IInv
<1> SUFFICES ASSUME Init PROVE IInv
  OBVIOUS
<1>1. RbacTypeOK
  BY RecordTypes DEF Init, RbacTypeOK
<1>2. \A x \in Roles : ~role[x].there /\ role[x].perms = {} /\ role[x].parent = NoRole
  BY DEF Init, Absent
<1>3. SystemRolesKeepPresets /\ DeletedRoleLeavesNothing
  BY <1>2, RecordTypes DEF Init, SystemRolesKeepPresets, DeletedRoleLeavesNothing
<1>4. CustomRead
  BY DEF Init, CustomRead, Idle
<1> QED
  BY <1>1, <1>3, <1>4 DEF IInv

\* A list only seeds.
LEMMA ListRolesKeeps == ASSUME IInv, ListRoles PROVE IInv'
<1>1. CustomRead' /\ req' \in [Requests -> Request]
  BY DEF IInv, ListRoles, CustomRead, RbacTypeOK
<1> QED
  BY <1>1, SeedKeeps DEF ListRoles, IInv, RbacTypeOK

\* A save seeds, so it reads every system role as one, and refuses it.
LEMMA SaveBeginKeeps ==
  ASSUME IInv, NEW r \in Requests, NEW x \in Roles, SaveBegin(r, x) PROVE IInv'
<1>1. x \in CustomRoles
  <2>1. ~SeededRoles[x].system
    BY DEF SaveBegin
  <2>2. x \in SystemRoles => SeededRoles[x].system
    BY RecordTypes DEF SeededRoles, SystemRole
  <2> QED
    BY <2>1, <2>2 DEF Roles
<1>2. /\ role' \in [Roles -> Role] /\ member' \subseteq Users \X Roles
      /\ SystemRolesKeepPresets' /\ DeletedRoleLeavesNothing'
  BY SeedKeeps DEF SaveBegin
<1>3. SeededRoles[x].status \in Statuses
  BY <1>2 DEF SaveBegin, Role
<1>4. req' \in [Requests -> Request] /\ CustomRead'
  BY <1>1, <1>3, ReadKeeps DEF IInv, SaveBegin
<1> QED
  BY <1>2, <1>4 DEF IInv, RbacTypeOK

\* The others read a role that is there: a system role is marked as one and refused.
LEMMA BeginKeeps ==
  ASSUME IInv, NEW r \in Requests, NEW x \in Roles,
         NEW op \in {"toggle", "delete", "permissions", "assign", "remove"}, Begin(r, op, x)
  PROVE  IInv'
<1>1. op \in {"toggle", "delete", "permissions"} => x \in CustomRoles
  BY DEF IInv, SystemRolesKeepPresets, Begin, Roles
<1>2. role[x].status \in Statuses
  BY DEF IInv, RbacTypeOK, Role
<1>3. req' \in [Requests -> Request] /\ CustomRead'
  BY <1>1, <1>2, ReadKeeps DEF IInv, Begin
<1>4. UNCHANGED <<role, member>>
  BY DEF Begin
<1> QED
  BY <1>3, <1>4 DEF IInv, RbacTypeOK, SystemRolesKeepPresets, DeletedRoleLeavesNothing

\* A save writes a custom role, whose parent is there.
LEMMA SaveWriteKeeps ==
  ASSUME IInv, NEW r \in Requests, NEW system \in BOOLEAN, NEW status \in Statuses,
         NEW parent \in Roles \cup {NoRole}, SaveWrite(r, system, status, parent)
  PROVE  IInv'
<1> DEFINE x == req[r].id
           new == [there |-> TRUE, system |-> system, status |-> status,
                   perms |-> role[x].perms, parent |-> parent]
<1>1. /\ x \in CustomRoles /\ x \in Roles /\ x \notin SystemRoles
      /\ parent \notin {NoRole, x} => role[parent].there
      /\ UNCHANGED member
  BY RecordTypes DEF IInv, CustomRead, SaveWrite
<1>2. new \in Role /\ role' = [role EXCEPT ![x] = new]
  BY <1>1 DEF IInv, RbacTypeOK, SaveWrite, Role
<1>3. role'[x] = new /\ \A y \in Roles \ {x} : role'[y] = role[y]
  BY <1>1, <1>2 DEF IInv, RbacTypeOK
<1>4. RbacTypeOK' /\ CustomRead'
  BY <1>1, <1>2, WrittenKeeps DEF IInv, RbacTypeOK, SaveWrite
<1>5. SystemRolesKeepPresets'
  BY <1>1, <1>3, RecordTypes DEF IInv, SystemRolesKeepPresets
<1>6. DeletedRoleLeavesNothing'
  <2>1. new.there /\ new.parent = parent
    OBVIOUS
  <2>2. \A z \in Roles : ~role'[z].there => z # x /\ ~role[z].there
    BY <1>3, <2>1
  <2> QED
    BY <1>1, <1>3, <2>1, <2>2, RecordTypes DEF IInv, DeletedRoleLeavesNothing
<1> QED
  BY <1>4, <1>5, <1>6 DEF IInv

\* A toggle changes the status of a custom role that is there.
LEMMA ToggleWriteKeeps == ASSUME IInv, NEW r \in Requests, ToggleWrite(r) PROVE IInv'
<1> DEFINE x == req[r].id
<1>1. x \in CustomRoles /\ x \in Roles /\ x \notin SystemRoles /\ UNCHANGED member
  BY RecordTypes DEF IInv, CustomRead, ToggleWrite
<1>2. /\ role' \in [Roles -> Role]
      /\ \A y \in Roles \ {x} : role'[y] = role[y]
      /\ role'[x].there = role[x].there /\ role'[x].perms = role[x].perms
      /\ role'[x].parent = role[x].parent
  BY <1>1 DEF IInv, RbacTypeOK, ToggleWrite, Role, Statuses
<1>3. RbacTypeOK' /\ CustomRead'
  BY <1>1, <1>2, WrittenKeeps DEF IInv, RbacTypeOK, ToggleWrite
<1>4. SystemRolesKeepPresets'
  BY <1>1, <1>2, RecordTypes DEF IInv, SystemRolesKeepPresets
<1>5. DeletedRoleLeavesNothing'
  BY <1>1, <1>2 DEF IInv, DeletedRoleLeavesNothing
<1> QED
  BY <1>3, <1>4, <1>5 DEF IInv

\* A deletion takes the permissions, the members and the heirs' parent with it.
LEMMA DeleteWriteKeeps == ASSUME IInv, NEW r \in Requests, DeleteWrite(r) PROVE IInv'
<1> DEFINE x == req[r].id
<1>1. x \in CustomRoles /\ x \in Roles /\ x \notin SystemRoles
  BY RecordTypes DEF IInv, CustomRead, DeleteWrite
<1>2. /\ role'[x] = Absent
      /\ \A y \in Roles \ {x} :
           role'[y] = IF role[y].parent = x THEN [role[y] EXCEPT !.parent = NoRole] ELSE role[y]
      /\ member' = {m \in member : m[2] # x}
  BY <1>1 DEF DeleteWrite, Cascade
<1>3. role' \in [Roles -> Role]
  BY <1>1, RecordTypes DEF IInv, RbacTypeOK, DeleteWrite, Cascade, Role
<1>4. \A y \in Roles \ {x} : /\ role'[y].there = role[y].there
                             /\ role'[y].perms = role[y].perms
                             /\ role'[y].system = role[y].system
                             /\ role'[y].status = role[y].status
                             /\ role'[y].parent \in {role[y].parent, NoRole} \ {x}
  BY <1>1, <1>2, RecordTypes DEF IInv, RbacTypeOK, Role
<1>5. RbacTypeOK' /\ CustomRead'
  BY <1>2, <1>3, WrittenKeeps DEF IInv, RbacTypeOK, DeleteWrite
<1>6. SystemRolesKeepPresets'
  BY <1>1, <1>4, RecordTypes DEF IInv, SystemRolesKeepPresets
<1>7. DeletedRoleLeavesNothing'
  <2> SUFFICES ASSUME NEW z \in Roles, ~role'[z].there
               PROVE  /\ role'[z].perms = {}
                      /\ \A y \in Roles : role'[y].parent # z
                      /\ \A u \in Users : <<u, z>> \notin member'
    BY DEF DeletedRoleLeavesNothing
  <2>1. role'[x].perms = {} /\ role'[x].parent = NoRole
    BY <1>2 DEF Absent
  <2>2. CASE z = x
    BY <1>2, <1>4, <2>1, <2>2, RecordTypes
  <2>3. CASE z # x
    BY <1>2, <1>4, <2>1, <2>3, RecordTypes DEF IInv, DeletedRoleLeavesNothing
  <2> QED
    BY <2>2, <2>3
<1> QED
  BY <1>5, <1>6, <1>7 DEF IInv

\* Permissions are written for a custom role that is there, or cleared.
LEMMA PermissionsWriteKeeps ==
  ASSUME IInv, NEW r \in Requests, NEW perms \in SUBSET Permissions, PermissionsWrite(r, perms)
  PROVE  IInv'
<1> DEFINE x == req[r].id
<1>1. /\ x \in CustomRoles /\ x \in Roles /\ x \notin SystemRoles
      /\ ~role[x].there => perms = {}
      /\ UNCHANGED member
  BY RecordTypes DEF IInv, CustomRead, PermissionsWrite
<1>2. /\ role' \in [Roles -> Role]
      /\ \A y \in Roles \ {x} : role'[y] = role[y]
      /\ role'[x].there = role[x].there /\ role'[x].perms = perms
      /\ role'[x].parent = role[x].parent
  BY <1>1 DEF IInv, RbacTypeOK, PermissionsWrite, Role
<1>3. RbacTypeOK' /\ CustomRead'
  BY <1>1, <1>2, WrittenKeeps DEF IInv, RbacTypeOK, PermissionsWrite
<1>4. SystemRolesKeepPresets'
  BY <1>1, <1>2, RecordTypes DEF IInv, SystemRolesKeepPresets
<1>5. DeletedRoleLeavesNothing'
  BY <1>1, <1>2 DEF IInv, DeletedRoleLeavesNothing
<1> QED
  BY <1>3, <1>4, <1>5 DEF IInv

\* A member is added to a role that is there, or removed.
LEMMA MembersKeep ==
  ASSUME IInv, NEW r \in Requests, NEW u \in Users, AssignWrite(r, u) \/ RemoveWrite(r, u)
  PROVE  IInv'
<1>1. Written(r) /\ UNCHANGED role /\ req[r].id \in Roles
  BY DEF IInv, CustomRead, AssignWrite, RemoveWrite
<1>2. /\ member' \subseteq Users \X Roles
      /\ \A v \in Users, x \in Roles : <<v, x>> \in member' => <<v, x>> \in member \/ role[x].there
  BY <1>1 DEF IInv, RbacTypeOK, AssignWrite, RemoveWrite
<1>3. RbacTypeOK' /\ CustomRead'
  BY <1>1, <1>2, WrittenKeeps DEF IInv, RbacTypeOK
<1>4. SystemRolesKeepPresets'
  BY <1>1 DEF IInv, SystemRolesKeepPresets
<1>5. DeletedRoleLeavesNothing'
  BY <1>1, <1>2 DEF IInv, DeletedRoleLeavesNothing
<1> QED
  BY <1>3, <1>4, <1>5 DEF IInv

\* Nothing is written.
LEMMA WriteFailsKeeps == ASSUME IInv, NEW r \in Requests, WriteFails(r) PROVE IInv'
<1>1. UNCHANGED <<role, member>> /\ req' \in [Requests -> Request] /\ CustomRead'
  BY WrittenKeeps DEF IInv, WriteFails
<1> QED
  BY <1>1 DEF IInv, RbacTypeOK, SystemRolesKeepPresets, DeletedRoleLeavesNothing

\* Nothing happens.
LEMMA StutterKeeps == ASSUME IInv, UNCHANGED vars PROVE IInv'
BY DEF IInv, vars, RbacTypeOK, SystemRolesKeepPresets, DeletedRoleLeavesNothing, CustomRead

\* Every step keeps the invariant.
LEMMA NextIInv == IInv /\ [Next]_vars => IInv'
<1> SUFFICES ASSUME IInv, [Next]_vars PROVE IInv'
  OBVIOUS
<1>1. CASE ListRoles
  BY <1>1, ListRolesKeeps
<1>2. ASSUME NEW r \in Requests, NEW x \in Roles, SaveBegin(r, x) PROVE IInv'
  BY <1>2, SaveBeginKeeps
<1>3. ASSUME NEW r \in Requests, NEW x \in Roles,
             NEW op \in {"toggle", "delete", "permissions", "assign", "remove"}, Begin(r, op, x)
      PROVE  IInv'
  BY <1>3, BeginKeeps
<1>4. ASSUME NEW r \in Requests, NEW sys \in BOOLEAN, NEW st \in Statuses,
             NEW p \in Roles \cup {NoRole}, SaveWrite(r, sys, st, p)
      PROVE  IInv'
  BY <1>4, SaveWriteKeeps
<1>5. ASSUME NEW r \in Requests, ToggleWrite(r) \/ DeleteWrite(r) \/ WriteFails(r) PROVE IInv'
  BY <1>5, ToggleWriteKeeps, DeleteWriteKeeps, WriteFailsKeeps
<1>6. ASSUME NEW r \in Requests, NEW ps \in SUBSET Permissions, PermissionsWrite(r, ps)
      PROVE  IInv'
  BY <1>6, PermissionsWriteKeeps
<1>7. ASSUME NEW r \in Requests, NEW u \in Users, AssignWrite(r, u) \/ RemoveWrite(r, u)
      PROVE  IInv'
  BY <1>7, MembersKeep
<1>8. CASE UNCHANGED vars
  BY <1>8, StutterKeeps
<1> QED
  BY <1>1, <1>2, <1>3, <1>4, <1>5, <1>6, <1>7, <1>8 DEF Next

-----------------------------------------------------------------------------
(***************************************************************************)
(* Theorems.                                                               *)
(***************************************************************************)

\* The inductive invariant holds in every reachable state.
THEOREM InvariantHolds == Spec => []IInv
BY InitIInv, NextIInv, PTL DEF Spec

\* The tables always have their types.
THEOREM TypeCorrect == Spec => []RbacTypeOK
<1>1. IInv => RbacTypeOK
  BY DEF IInv
<1> QED
  BY <1>1, InvariantHolds, PTL

\* No request ever changes a system role, whatever it read before the seed.
THEOREM SystemRolesAreFixed == Spec => []SystemRolesKeepPresets
<1>1. IInv => SystemRolesKeepPresets
  BY DEF IInv
<1> QED
  BY <1>1, InvariantHolds, PTL

\* Nothing is left of a role that is not there.
THEOREM DeletionIsWhole == Spec => []DeletedRoleLeavesNothing
<1>1. IInv => DeletedRoleLeavesNothing
  BY DEF IInv
<1> QED
  BY <1>1, InvariantHolds, PTL
=============================================================================
