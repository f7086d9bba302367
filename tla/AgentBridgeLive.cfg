SPECIFICATION BridgeLiveSpec
CONSTANTS
  a1 = a1 u1 = u1 o1 = o1 o2 = o2 o3 = o3 t1 = t1 t2 = t2
  Agent = {a1}
  Owner = {o1, o2, o3}
  Author = {u1}
  Command = {1}
  Turn = {t1, t2}
  NoAgent = NoAgent NoOwner = NoOwner NoTurn = NoTurn NoReply = NoReply
  NoCommand = NoCommand
  AgentOf <- MCAgentOf
  AuthorOf <- MCAuthorOf
  Lease = 2
  MaxAdmitted = 4
  MaxTries = 2
  Faulty = {o1}
  SingleConnection = TRUE
  CommitInOrder = TRUE
  LeaseEndSeen = FALSE
CHECK_DEADLOCK FALSE
PROPERTY EventuallyClosedOrStranded
