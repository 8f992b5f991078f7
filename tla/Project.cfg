SPECIFICATION Spec
CONSTANTS
  c1 = c1
  c2 = c2
  m1 = m1
  m2 = m2
  Files <- MCFiles
  Clients <- MCClients
  Admins <- MCAdmins
  Budgets <- MCBudgets
  MaxCrashes = 1
SYMMETRY MCSymmetry
INVARIANTS
  TypeOK
  EmbeddingsFollowWrites
PROPERTIES
  BackupFaithful
  RestoreExact
CHECK_DEADLOCK FALSE
