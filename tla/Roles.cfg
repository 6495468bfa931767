SPECIFICATION Spec
CONSTANTS
  Calls = {c1, c2}
  Users = {admin, u1}
  Admin = admin
  Super = superadmin
  RoleIds = {r1, r2}
  Bundles = {{"roles.manage"}, {"users.manage_roles"}}
SYMMETRY Symmetry
INVARIANTS WholePermissionSets DeletionTakesLateGrantsOnly GoneGrantsNothing
