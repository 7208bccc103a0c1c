SPECIFICATION GatewaySpec
CONSTANTS
  Conns <- MCConns
  Key <- MCKey
  Messages <- MCMessages
  To <- MCTo
  ChanCapacity = 2
  AuditedCalls = {c1, c2, c3, c4}
  AuditChanCapacity = 2
  BatchSize = 2
  DbFaults = TRUE
INVARIANTS OneWriter DeliveredExactly NoLeak EntriesInOrder FlushComplete
PROPERTIES MessagesFlow GoneIsRemoved EntrySettles GatewayExits
CHECK_DEADLOCK FALSE
