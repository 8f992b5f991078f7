SPECIFICATION Spec
CONSTANTS
  agent = agent
  flush = flush
  Users <- MCUsers
  Agents <- MCAgents
  PoolSize <- MCPoolSize
  Limit = 2
  MaxStats = 1
INVARIANTS
  TypeOK
  AuthAgrees
PROPERTIES
  Answered
CHECK_DEADLOCK FALSE
