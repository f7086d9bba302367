SPECIFICATION BridgeSpec
CONSTANTS
  a1 = a1 u1 = u1 o1 = o1 o2 = o2 o3 = o3 t1 = t1 t2 = t2
  Agent = {a1}
  Owner = {o1, o2}
  Author = {u1}
  Command = {1}
  Turn = {t1, t2}
  NoAgent = NoAgent NoOwner = NoOwner NoTurn = NoTurn NoReply = NoReply
  NoCommand = NoCommand
  AgentOf <- MCAgentOf
  AuthorOf <- MCAuthorOf
  Lease = 1
  MaxAdmitted = 2
  MaxTries = 2
  Faulty = {o1, o2}
  SingleConnection = TRUE
  CommitInOrder = TRUE
  LeaseEndSeen = FALSE
INVARIANTS OutcomeReflectsTurn ForewarnedNeverCompletes
PROPERTY RecordedNeverRestarted
SYMMETRY MCSymmetry
CHECK_DEADLOCK FALSE
