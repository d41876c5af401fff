CONSTANTS
  Users = {u1, u2}
  Hashes = {h1, h2}
  Roles <- MCRoles
  Tasks = {t1, t2}
  NoUser = NoUser
  WithCommands = TRUE
SYMMETRY Symmetric
SPECIFICATION USpec
INVARIANTS
  UTypeOK
PROPERTIES
  OnlyOverlapsAreUndone
  OnlyItsFieldChanges
  LastAdminGoesInOverlap
