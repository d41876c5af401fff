CONSTANTS
  Users = {u1, u2}
  Hashes = {h1, h2}
  Roles <- MCRoles
  Tasks = {t1, t2}
  NoUser = NoUser
  WithCommands = FALSE
SYMMETRY Symmetric
SPECIFICATION USpec
PROPERTIES
  ResetKeepsAccess
