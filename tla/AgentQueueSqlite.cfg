SPECIFICATION Spec
CONSTANTS
  a1 = a1 a2 = a2 o1 = o1 o2 = o2 u1 = u1 u2 = u2
  Agent = {a1, a2}
  Owner = {o1, o2}
  Author = {u1}
  Command = {1, 2}
  t1 = t1 t2 = t2
  Turn = {t1, t2}
  NoAgent = NoAgent NoOwner = NoOwner NoTurn = NoTurn NoReply = NoReply
  AgentOf <- OneAgent
  AuthorOf <- OneAuthor
  Lease = 2
  MaxAdmitted = 1
  SingleConnection = TRUE
  CommitInOrder = TRUE
  LeaseEndSeen = TRUE
INVARIANT CancelledNeverRuns
PROPERTIES ClosedStaysClosed LeaseAndTurnKept ImplementsSerialChannel
SYMMETRY MCSymmetry
CHECK_DEADLOCK FALSE
