-------------------------------- MODULE Roles --------------------------------
(***************************************************************************)
(* Roles, the permissions they grant, and who holds them (internal/rbac).  *)
(*                                                                         *)
(* A call on the admin endpoints passes the guard, which reads the         *)
(* caller's permissions from the database in two statements, and then      *)
(* reads and writes in statements of their own: only UpdateRole and        *)
(* CreateRole are transactions.  UpdateRole writes the description first,  *)
(* always, and so holds the role's row until it commits; the permission    *)
(* rows of a role are replaced under that lock.  A call may stop anywhere. *)
(* Names and descriptions are left out, and with them the update that only *)
(* changes a description.                                                  *)
(***************************************************************************)
CONSTANTS
  Calls,     \* requests to the admin endpoints
  Users,
  Admin,     \* the user the seed makes superadmin
  Super,     \* the system role
  RoleIds,   \* the ids a created role can get, one each
  Bundles    \* the sets of permissions that callers send

ASSUME RolesAssumption == Admin \in Users /\ Super \notin RoleIds

VARIABLES
  status,    \* of each role id: "unused", then "live", then "gone"
  perms,     \* role_permissions
  holds,     \* user_roles
  call       \* the call each request is in

vars == <<status, perms, holds, call>>

AllRoles == RoleIds \cup {Super}
Permissions == UNION Bundles

\* role, to and set come from the request; seen are the permission rows that the
\* transaction has deleted, late the users who got the role since it was found unused.
Call ==
  [pc : {"idle", "asked", "allowed", "found", "unheld", "locked", "cleared"},
   op : {"create", "update", "delete", "grant", "revoke"},
   by : Users, role : AllRoles, to : Users, set : SUBSET Permissions,
   seen : SUBSET Permissions, late : SUBSET Users]

TypeOK ==
  /\ status \in [RoleIds -> {"unused", "live", "gone"}]
  /\ perms \in [RoleIds -> SUBSET Permissions]
  /\ holds \subseteq Users \X AllRoles
  /\ call \in [Calls -> Call]

Request(op, by, r, u, B) ==
  [pc |-> "asked", op |-> op, by |-> by, role |-> r, to |-> u, set |-> B, seen |-> {}, late |-> {}]

NoCall == [Request("grant", Admin, Super, Admin, {}) EXCEPT !.pc = "idle"]

\* The seed, without its two example roles.
Init ==
  /\ status = [r \in RoleIds |-> "unused"]
  /\ perms = [r \in RoleIds |-> {}]
  /\ holds = {<<Admin, Super>>}
  /\ call = [c \in Calls |-> NoCall]

\* What guard.Require asks for.
Needed(op) == IF op \in {"grant", "revoke"} THEN "users.manage_roles" ELSE "roles.manage"

\* PermissionKeysForUser: the union over the user's roles.
PermissionsFor(u) == UNION {perms[r] : r \in {s \in RoleIds : <<u, s>> \in holds}}

Exists(r) == r = Super \/ (r \in RoleIds /\ status[r] = "live")
Holders(r) == {u \in Users : <<u, r>> \in holds}
At(c, pc, op) == call[c].pc = pc /\ call[c].op = op
Goes(c, pc) == call' = [call EXCEPT ![c].pc = pc]
Done(c) == call' = [call EXCEPT ![c] = NoCall]

\* The lock of UpdateRole on the role's row, from its first statement to the commit.
Locked(r) == \E c \in Calls : call[c].pc \in {"locked", "cleared"} /\ call[c].role = r
-----------------------------------------------------------------------------
\* A request, up to the first read of the guard: a superadmin needs no second.
Ask(c, op, by, r, u, B) ==
  /\ call[c].pc = "idle"
  /\ call' = [call EXCEPT ![c] =
       [Request(op, by, r, u, B) EXCEPT !.pc = IF <<by, Super>> \in holds THEN "allowed" ELSE "asked"]]
  /\ UNCHANGED <<status, perms, holds>>

\* The second read of the guard: the stored permissions.
Permit(c) ==
  /\ call[c].pc = "asked" /\ Needed(call[c].op) \in PermissionsFor(call[c].by)
  /\ Goes(c, "allowed")
  /\ UNCHANGED <<status, perms, holds>>

\* CreateRole, in one transaction.
Create(c, r) ==
  /\ At(c, "allowed", "create") /\ status[r] = "unused"
  /\ status' = [status EXCEPT ![r] = "live"]
  /\ perms' = [perms EXCEPT ![r] = call[c].set]
  /\ Done(c)
  /\ UNCHANGED holds

\* GetRole's row.  A system role keeps its permissions and is never deleted.
Find(c) ==
  /\ call[c].pc = "allowed" /\ call[c].op # "create" /\ Exists(call[c].role)
  /\ call[c].op \in {"update", "delete"} => call[c].role # Super
  /\ Goes(c, "found")
  /\ UNCHANGED <<status, perms, holds>>

\* Mutant of Count: the role is deleted whoever holds it.
CountNobody(c) ==
  /\ At(c, "found", "delete")
  /\ Goes(c, "unheld")
  /\ UNCHANGED <<status, perms, holds>>

\* GetRole's count of the holders, a statement after the row.
Count(c) ==
  /\ At(c, "found", "delete") /\ Holders(call[c].role) = {}
  /\ Goes(c, "unheld")
  /\ UNCHANGED <<status, perms, holds>>

\* DELETE FROM roles: it waits for the row, and takes the permissions and the
\* assignments with it, also those made since the count.
Delete(c) ==
  LET r == call[c].role IN
  /\ At(c, "unheld", "delete") /\ ~Locked(r)
  /\ status' = [status EXCEPT ![r] = "gone"]
  /\ perms' = [perms EXCEPT ![r] = {}]
  /\ holds' = holds \ (Users \X {r})
  /\ Done(c)

\* Mutant of Lock: the transaction starts with the permission rows.
LockNothing(c) ==
  /\ At(c, "found", "update")
  /\ Goes(c, "locked")
  /\ UNCHANGED <<status, perms, holds>>

\* UpdateRoleDescription: it waits for the row.  If the role has gone, there is none.
Lock(c) ==
  /\ At(c, "found", "update") /\ ~Locked(call[c].role)
  /\ Goes(c, "locked")
  /\ UNCHANGED <<status, perms, holds>>

\* DeleteRolePermissions deletes the rows of its snapshot.
Clear(c) ==
  /\ call[c].pc = "locked"
  /\ call' = [call EXCEPT ![c].pc = "cleared", ![c].seen = perms[call[c].role]]
  /\ UNCHANGED <<status, perms, holds>>

\* The inserts and the commit.  The foreign key refuses them when the role has gone.
Write(c) ==
  LET r == call[c].role IN
  /\ call[c].pc = "cleared" /\ Exists(r)
  /\ perms' = [perms EXCEPT ![r] = (@ \ call[c].seen) \cup call[c].set]
  /\ Done(c)
  /\ UNCHANGED <<status, holds>>

\* Mutant of Grant: it waits for a deletion under way, and no foreign key looks for the role.
GrantUnchecked(c) ==
  /\ At(c, "found", "grant") /\ \A d \in Calls : ~At(d, "unheld", "delete")
  /\ holds' = holds \cup {<<call[c].to, call[c].role>>}
  /\ Done(c)
  /\ UNCHANGED <<status, perms>>

\* AssignRoleToUser.  The foreign key wants the role, and no lock of UpdateRole.
Grant(c) ==
  LET r == call[c].role IN
  /\ At(c, "found", "grant") /\ Exists(r)
  /\ holds' = holds \cup {<<call[c].to, r>>}
  /\ call' = [d \in Calls |->
                CASE d = c -> NoCall
                  [] d # c /\ At(d, "unheld", "delete") /\ call[d].role = r ->
                       [call[d] EXCEPT !.late = @ \cup {call[c].to}]
                  [] OTHER -> call[d]]
  /\ UNCHANGED <<status, perms>>

\* UnassignRoleFromUser.
Revoke(c) ==
  /\ At(c, "found", "revoke")
  /\ holds' = holds \ {<<call[c].to, call[c].role>>}
  /\ Done(c)
  /\ UNCHANGED <<status, perms>>

\* Refused, failed or lost: nothing is written, an open transaction is rolled back.
Stop(c) ==
  /\ call[c].pc # "idle"
  /\ Done(c)
  /\ UNCHANGED <<status, perms, holds>>

Next ==
  \E c \in Calls :
    \/ \E op \in {"grant", "revoke"}, by, u \in Users, r \in AllRoles : Ask(c, op, by, r, u, {})
    \/ \E by \in Users, B \in Bundles : Ask(c, "create", by, Super, by, B)
    \/ \E by \in Users, r \in AllRoles, B \in Bundles : Ask(c, "update", by, r, by, B)
    \/ \E by \in Users, r \in AllRoles : Ask(c, "delete", by, r, by, {})
    \/ \E r \in RoleIds : Create(c, r)
    \/ Permit(c) \/ Find(c) \/ Count(c) \/ Delete(c) \/ Lock(c) \/ Clear(c) \/ Write(c)
    \/ Grant(c) \/ Revoke(c) \/ Stop(c)

Spec == Init /\ [][Next]_vars
-----------------------------------------------------------------------------
\* UpdateRole replaces the permission set: of two updates at once, one set stands.
\* It is never a mixture, which would grant what no caller ever sent.
WholePermissionSets == \A r \in RoleIds : status[r] = "live" => perms[r] \in Bundles

\* DeleteRole refuses a role in use, and its cascade would take the assignments
\* silently: it can only take those made after the holders were counted.
DeletionTakesLateGrantsOnly ==
  \A c \in Calls : At(c, "unheld", "delete") => Holders(call[c].role) \subseteq call[c].late

\* A role that is gone leaves nothing behind, whatever calls still name it: the
\* guard would grant the permissions of an id that no role list shows.
GoneGrantsNothing ==
  \A r \in RoleIds : status[r] # "live" => perms[r] = {} /\ Holders(r) = {}
==============================================================================
