---------------------------- MODULE WebSocketHub ----------------------------
(***************************************************************************)
(* The hub that pushes notifications to connected browsers                  *)
(* (handlers/websocket.go): Broadcast puts a message into a bounded channel *)
(* without blocking, the goroutine run writes each message to the           *)
(* connections of its manager and of all admins, and a goroutine per        *)
(* connection (HandleWebSocket) registers it, reads from it until that      *)
(* fails, and removes it.  A connection admits one writer at a time.  The   *)
(* clients are external: they present a valid token and may go away at any  *)
(* moment.                                                                  *)
(***************************************************************************)
EXTENDS Naturals, SequencesExt

CONSTANTS
  Conns,          \* connections, each made at most once
  Key,            \* Key[c]: the hub key of connection c, a manager or "admin"
  Messages,       \* broadcasts, each made at most once
  To,             \* To[b]: the ManagerID of message b
  ChanCapacity    \* capacity of the broadcast channel

ASSUME WebSocketHubAssumption ==
  /\ Messages \cap Conns = {}
  /\ ChanCapacity \in Nat \ {0}

VARIABLES
  handler,      \* where the goroutine of each connection is
  connections,  \* the registered connections
  closed,       \* the connections that Close has been called on
  peerGone,     \* the connections whose client is gone
  broadcast,    \* the channel
  taken,        \* the messages run has taken, in order; the last one is at work
  targets,      \* targets[c]: how many times it has still to write it to c
  writing,      \* the connection it is writing to, if any
  announced,    \* the messages Broadcast was called with
  received,     \* history: which messages were written to each connection, in order, by
                \* their place in taken
  since         \* history: how many messages had been taken when it was registered

hubVars  == <<broadcast, taken, targets, writing>>
connVars == <<handler, connections, closed, peerGone>>
vars == <<hubVars, connVars, announced, received, since>>

Init ==
  /\ handler = [c \in Conns |-> "none"]
  /\ connections = {} /\ closed = {} /\ peerGone = {}
  /\ broadcast = <<>> /\ taken = <<>> /\ writing = {}
  /\ targets = [c \in Conns |-> 0]
  /\ announced = {}
  /\ received = [c \in Conns |-> <<>>]
  /\ since = [c \in Conns |-> 0]

At(c, from, to) ==
  /\ handler[c] = from
  /\ handler' = [handler EXCEPT ![c] = to]

-----------------------------------------------------------------------------
(* Broadcast: a full channel drops the message. *)
Broadcast(b) ==
  /\ b \notin announced
  /\ announced' = announced \cup {b}
  /\ broadcast' = IF Len(broadcast) < ChanCapacity THEN Append(broadcast, b) ELSE broadcast
  /\ UNCHANGED <<taken, targets, writing, connVars, received, since>>

-----------------------------------------------------------------------------
(* HandleWebSocket *)

(* The token is valid and the connection is upgraded; the welcome message is *)
(* being written from here on.                                               *)
Upgrade(c) ==
  /\ At(c, "none", "welcome")
  /\ UNCHANGED <<hubVars, connections, closed, peerGone, announced, received, since>>

(* Mutation of Welcomed: the connection is registered before its welcome.    *)
WelcomedLate(c) ==
  /\ handler[c] = "welcome"
  /\ c \notin connections
  /\ connections' = connections \cup {c}
  /\ UNCHANGED <<hubVars, handler, closed, peerGone, announced, received, since>>

(* The welcome message has been written, or that has failed. *)
Welcomed(c) ==
  /\ At(c, "welcome", "adding")
  /\ UNCHANGED <<hubVars, connections, closed, peerGone, announced, received, since>>

AddConn(c) ==
  /\ At(c, "adding", "reading")
  /\ connections' = connections \cup {c}
  /\ since' = [since EXCEPT ![c] = Len(taken)]
  /\ UNCHANGED <<hubVars, closed, peerGone, announced, received>>

(* Mutation of ReadFails: only a Close of the gateway itself is noticed. *)
ReadFailsClosed(c) ==
  /\ At(c, "reading", "leaving")
  /\ c \in closed
  /\ UNCHANGED <<hubVars, connections, closed, peerGone, announced, received, since>>

(* ReadMessage fails: the client is gone or the connection was closed. *)
ReadFails(c) ==
  /\ At(c, "reading", "leaving")
  /\ c \in closed \cup peerGone
  /\ UNCHANGED <<hubVars, connections, closed, peerGone, announced, received, since>>

(* Mutation of Leave: the connection is closed but not removed. *)
LeaveRegistered(c) ==
  /\ At(c, "leaving", "ended")
  /\ closed' = closed \cup {c}
  /\ UNCHANGED <<hubVars, connections, peerGone, announced, received, since>>

(* The deferred removeConn and Close. *)
Leave(c) ==
  /\ At(c, "leaving", "ended")
  /\ connections' = connections \ {c}
  /\ closed' = closed \cup {c}
  /\ UNCHANGED <<hubVars, peerGone, announced, received, since>>

(* The client goes away; its last reads may still be under way. *)
Disconnect(c) ==
  /\ handler[c] \notin {"none", "ended"}
  /\ c \notin peerGone
  /\ peerGone' = peerGone \cup {c}
  /\ UNCHANGED <<hubVars, handler, connections, closed, announced, received, since>>

-----------------------------------------------------------------------------
(* The goroutine run *)

Idle == writing = {} /\ \A c \in Conns : targets[c] = 0

One(b) == IF b THEN 1 ELSE 0

(* How often c is in the list of targets of a message to m. *)
Addressed(c, m) == One(Key[c] = m) + One(m # "admin" /\ Key[c] = "admin")

(* A message is taken and the connections that are registered now are listed. *)
Take ==
  /\ Idle
  /\ broadcast # <<>>
  /\ taken' = Append(taken, Head(broadcast))
  /\ broadcast' = Tail(broadcast)
  /\ targets' = [c \in Conns |-> IF c \in connections
                                 THEN Addressed(c, To[Head(broadcast)]) ELSE 0]
  /\ UNCHANGED <<writing, connVars, announced, received, since>>

BeginWrite(c) ==
  /\ writing = {}
  /\ targets[c] > 0
  /\ writing' = {c}
  /\ targets' = [targets EXCEPT ![c] = @ - 1]
  /\ UNCHANGED <<broadcast, taken, connVars, announced, received, since>>

(* The message is in the hands of the operating system. *)
Written(c) ==
  /\ c \in writing \ closed
  /\ received' = [received EXCEPT ![c] = Append(@, Len(taken))]
  /\ writing' = {}
  /\ UNCHANGED <<broadcast, taken, targets, connVars, announced, since>>

(* Mutation of WriteFails: a dead connection ends the write loop for the     *)
(* message.                                                                  *)
WriteFailsBreak(c) ==
  /\ c \in writing
  /\ c \in closed \cup peerGone
  /\ connections' = connections \ {c}
  /\ closed' = closed \cup {c}
  /\ writing' = {}
  /\ targets' = [d \in Conns |-> 0]
  /\ UNCHANGED <<broadcast, taken, handler, peerGone, announced, received, since>>

(* Mutation of WriteFails: run returns. *)
WriteFailsReturns(c) ==
  /\ c \in writing
  /\ c \in closed \cup peerGone
  /\ c \in connections \/ c \notin closed
  /\ connections' = connections \ {c}
  /\ closed' = closed \cup {c}
  /\ UNCHANGED <<broadcast, taken, targets, writing, handler, peerGone, announced, received, since>>

(* The write fails: the connection is removed and closed (in one step: only  *)
(* its own goroutine could come in between), and the others go on.           *)
WriteFails(c) ==
  /\ c \in writing
  /\ c \in closed \cup peerGone
  /\ connections' = connections \ {c}
  /\ closed' = closed \cup {c}
  /\ writing' = {}
  /\ UNCHANGED <<broadcast, taken, targets, handler, peerGone, announced, received, since>>

-----------------------------------------------------------------------------
Run == Take \/ \E c \in Conns : BeginWrite(c) \/ Written(c) \/ WriteFails(c)

Handle(c) == Welcomed(c) \/ AddConn(c) \/ ReadFails(c) \/ Leave(c)

Next ==
  \/ Run
  \/ \E b \in Messages : Broadcast(b)
  \/ \E c \in Conns : Upgrade(c) \/ Handle(c) \/ Disconnect(c)

(* The goroutines are scheduled.  A write that cannot proceed fails in the   *)
(* end: the code sets no deadline, TCP gives up.                             *)
Fairness == WF_vars(Run) /\ \A c \in Conns : WF_vars(Handle(c))

Spec == Init /\ [][Next]_vars /\ Fairness

-----------------------------------------------------------------------------
(* Properties *)

(* The comment in HandleWebSocket: the welcome goes out "BEFORE adding to hub *)
(* to avoid concurrent writes".  run never writes to a connection that is     *)
(* still being written to by its own goroutine.                               *)
OneWriter == \A c \in writing : handler[c] # "welcome"

(* What a connection is due: the messages taken since it was registered that  *)
(* are addressed to it.                                                       *)
Due(c) == {k \in since[c] + 1 .. Len(taken) : Addressed(c, To[taken[k]]) > 0}

Pending(c) == IF targets[c] > 0 \/ c \in writing THEN {Len(taken)} ELSE {}

(* A connection that is registered has got, in order and once each, exactly  *)
(* the messages for its key taken since then, but for the one it is about to  *)
(* get: no failure of another connection and no churn costs or repeats one.  *)
(* Admins get all of them.  A connection that was removed has got a first    *)
(* part of them.                                                             *)
DeliveredExactly ==
  \A c \in Conns :
    LET got == ToSet(received[c])
    IN  /\ c \in connections => got = Due(c) \ Pending(c)
        /\ \A i, j \in DOMAIN received[c] : i < j => received[c][i] < received[c][j]
        /\ got \subseteq Due(c)
        /\ \A k \in Due(c) \ got : \A j \in got : j < k

(* A connection whose goroutine has ended is no longer registered, and never *)
(* will be, whoever removed it first.                                        *)
NoLeak == \A c \in Conns : handler[c] = "ended" => c \notin connections /\ c \in closed

(* A message in the channel is written to the connections, whatever becomes  *)
(* of any of them.                                                           *)
MessagesFlow ==
  \A b \in Messages : b \in ToSet(broadcast) ~> b \in ToSet(taken) /\ Idle

(* The goroutine of a client that is gone ends, and the connection with it.  *)
GoneIsRemoved == \A c \in Conns : c \in peerGone ~> handler[c] = "ended"
==============================================================================
