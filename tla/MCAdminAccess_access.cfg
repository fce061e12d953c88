CONSTANTS
  Users = {u1, u2}
  Scripts = {x1, x2}
  Roles = {"owner"}
  OwnerRoles = {"owner"}
  Permissions = {"open", "approve"}
  RolePermissions <- MCRolePermissions
  NeedsStepUp = {"approve"}
  Asked = {"approve", "export"}
  Sessions = {s1, s2}
  Grants = {g1, g2}
  Tabs = {t1, t2}
  JarOf <- MCJarOf
  None = None
  SessionMinutes = 2
  StepUpMinutes = 1
  MaxTime = 2
  MaxBegun = 5
SYMMETRY MCSymmetry
SPECIFICATION Spec
INVARIANTS LogoutIsFinal EachConfirmed
CHECK_DEADLOCK FALSE
