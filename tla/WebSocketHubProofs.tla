------------------------- MODULE WebSocketHubProofs -------------------------
(***************************************************************************)
(* Proofs about WebSocketHub, for any connections, keys, messages and       *)
(* capacity: no connection has two writers, none stays registered when its  *)
(* goroutine has ended, and each gets exactly what it is due.               *)
(* At the end, what carries these theorems over to Gateway.                 *)
(***************************************************************************)
EXTENDS Gateway, TLAPS

(* The part of the type invariant the proofs need. *)
Typed ==
  /\ handler \in [Conns -> {"none", "welcome", "adding", "reading", "leaving", "ended"}]
  /\ targets \in [Conns -> 0 .. 1]
  /\ writing \subseteq Conns

Registering == {"none", "welcome", "adding"}

(* A connection is registered only between AddConn and Leave. *)
Registered == \A c \in connections : c \in Conns /\ handler[c] \in {"reading", "leaving"}

(* run works only on connections that have been registered. *)
Targeted ==
  \A c \in Conns : targets[c] > 0 \/ c \in writing => handler[c] \notin Registering

(* A goroutine that has ended has closed its connection. *)
EndedClosed == \A c \in Conns : handler[c] = "ended" => c \in closed

IInv == Typed /\ Registered /\ Targeted /\ EndedClosed

LEMMA AddressedType ==
  ASSUME NEW c, NEW m
  PROVE  Addressed(c, m) \in 0 .. 1
<1>1. CASE Key[c] = m /\ m # "admin" /\ Key[c] = "admin"
  BY <1>1
<1>2. CASE ~(Key[c] = m /\ m # "admin" /\ Key[c] = "admin")
  BY <1>2 DEF Addressed, One
<1> QED BY <1>1, <1>2

LEMMA InitInv == Init => IInv
  BY DEF Init, IInv, Typed, Registered, Targeted, EndedClosed, Registering

(* The goroutine of a connection moves on and nothing else changes but the   *)
(* registry and the closed connections.                                      *)
LEMMA HandlerStep ==
  ASSUME IInv, NEW c \in Conns,
         Upgrade(c) \/ Welcomed(c) \/ AddConn(c) \/ ReadFails(c) \/ Leave(c)
  PROVE  IInv'
<1> USE DEF IInv, Typed, At, hubVars
<1>1. Typed'
  BY DEF Upgrade, Welcomed, AddConn, ReadFails, Leave
<1>2. Registered'
  BY DEF Upgrade, Welcomed, AddConn, ReadFails, Leave, Registered
<1>3. Targeted'
  BY DEF Upgrade, Welcomed, AddConn, ReadFails, Leave, Targeted, Registering
<1>4. EndedClosed'
  BY DEF Upgrade, Welcomed, AddConn, ReadFails, Leave, EndedClosed
<1> QED BY <1>1, <1>2, <1>3, <1>4

LEMMA TakeStep == ASSUME IInv, Take PROVE IInv'
<1> USE DEF IInv, Typed, Take, connVars
<1>1. Typed'
  <2>1. targets' = [c \in Conns |-> IF c \in connections
                                    THEN Addressed(c, To[Head(broadcast)]) ELSE 0]
    OBVIOUS
  <2>2. targets' \in [Conns -> 0 .. 1]
    BY <2>1, AddressedType
  <2> QED BY <2>2
<1>2. Targeted'
  BY DEF Targeted, Registered, Registering
<1> QED BY <1>1, <1>2 DEF Registered, EndedClosed

LEMMA WriteStep ==
  ASSUME IInv, NEW c \in Conns, BeginWrite(c) \/ Written(c) \/ WriteFails(c)
  PROVE  IInv'
<1> USE DEF IInv, Typed, connVars
<1>1. Typed'
  BY DEF BeginWrite, Written, WriteFails
<1>2. Registered'
  BY DEF BeginWrite, Written, WriteFails, Registered
<1>3. Targeted'
  BY DEF BeginWrite, Written, WriteFails, Targeted
<1>4. EndedClosed'
  BY DEF BeginWrite, Written, WriteFails, EndedClosed
<1> QED BY <1>1, <1>2, <1>3, <1>4

LEMMA NextInv == IInv /\ [Next]_vars => IInv'
<1> SUFFICES ASSUME IInv, [Next]_vars PROVE IInv'
  OBVIOUS
<1> USE DEF IInv, Typed, Registered, Targeted, EndedClosed
<1>1. ASSUME NEW b \in Messages, Broadcast(b) PROVE IInv'
  BY <1>1 DEF Broadcast, connVars
<1>2. ASSUME NEW c \in Conns, Disconnect(c) PROVE IInv'
  BY <1>2 DEF Disconnect, hubVars
<1>3. CASE UNCHANGED vars
  BY <1>3 DEF vars, hubVars, connVars
<1> QED
  BY <1>1, <1>2, <1>3, HandlerStep, TakeStep, WriteStep DEF Next, Run, Handle

(* The inductive invariant: registration, the targets of run and the state    *)
(* of each goroutine agree.                                                   *)
THEOREM Invariance == Spec => []IInv
<1>1. Init => IInv
  BY InitInv
<1>2. IInv /\ [Next]_vars => IInv'
  BY NextInv
<1> QED BY <1>1, <1>2, PTL DEF Spec

(* The goroutine run never writes to a connection whose welcome is still      *)
(* being written.                                                             *)
THEOREM SingleWriter == Spec => []OneWriter
<1>1. IInv => OneWriter
  BY DEF IInv, Typed, Targeted, OneWriter, Registering
<1> QED BY <1>1, Invariance, PTL

(* A connection whose goroutine has ended is closed and not registered.       *)
THEOREM NoLeaks == Spec => []NoLeak
<1>1. IInv => NoLeak
  BY DEF IInv, Typed, Registered, EndedClosed, NoLeak
<1> QED BY <1>1, Invariance, PTL

-----------------------------------------------------------------------------
(* What is delivered. *)

Got(c) == ToSet(received[c])

HistoryType ==
  /\ broadcast \in Seq(Messages) /\ taken \in Seq(Messages)
  /\ received \in [Conns -> Seq(Nat)]
  /\ since \in [Conns -> Nat]
  /\ \A c \in Conns : since[c] <= Len(taken)

(* A connection that has been removed by either side has been closed, so     *)
(* that nothing is written to it any more.                                   *)
RemovedClosed == \A c \in Conns \ connections : handler[c] \notin Registering => c \in closed

(* A message at work for a connection is addressed to it, is counted once,   *)
(* and has not been written to it yet.                                       *)
PendingDue ==
  /\ \A c, d \in writing : c = d
  /\ \A c \in Conns :
       /\ c \in writing => targets[c] = 0
       /\ Pending(c) \subseteq Due(c) \ Got(c)

NothingBefore == \A c \in Conns : handler[c] \in Registering => received[c] = <<>>

DeliveryInv ==
  IInv /\ HistoryType /\ RemovedClosed /\ PendingDue /\ NothingBefore /\ DeliveredExactly

(* Delivered, said of one connection. *)
DeliveredTo(c) ==
  /\ c \in connections => Got(c) = Due(c) \ Pending(c)
  /\ \A i, j \in DOMAIN received[c] : i < j => received[c][i] < received[c][j]
  /\ Got(c) \subseteq Due(c)
  /\ \A k \in Due(c) \ Got(c) : \A j \in Got(c) : j < k

LEMMA PerConnection == DeliveredExactly <=> \A c \in Conns : DeliveredTo(c)
  BY DEF DeliveredExactly, DeliveredTo, Got

(* Steps that change neither the messages nor who is due them.                *)
LEMMA DeliveryKept ==
  ASSUME DeliveryInv, IInv', connections' \subseteq connections,
         UNCHANGED <<taken, targets, writing, received, since>>,
         broadcast' \in Seq(Messages), RemovedClosed',
         \A c \in Conns : handler'[c] \in Registering => handler[c] \in Registering
  PROVE  DeliveryInv'
<1>1. \A c \in Conns : Due(c)' = Due(c) /\ Got(c)' = Got(c) /\ Pending(c)' = Pending(c)
  BY DEF Due, Got, Pending
<1>2. ASSUME NEW c \in Conns PROVE DeliveredTo(c)'
  <2>1. DeliveredTo(c)
    BY PerConnection DEF DeliveryInv
  <2> QED
    BY <1>1, <2>1 DEF DeliveredTo
<1>3. DeliveredExactly'
  BY <1>2 DEF DeliveredExactly, DeliveredTo, Got
<1>4. HistoryType' /\ PendingDue' /\ NothingBefore'
  BY <1>1 DEF DeliveryInv, HistoryType, PendingDue, NothingBefore
<1> QED
  BY <1>3, <1>4 DEF DeliveryInv

LEMMA HandlerDelivery ==
  ASSUME DeliveryInv, NEW c \in Conns,
         Upgrade(c) \/ Welcomed(c) \/ ReadFails(c) \/ Leave(c)
  PROVE  DeliveryInv'
<1> USE DEF DeliveryInv, IInv, Typed, At, hubVars
<1>1. IInv'
  BY HandlerStep
<1>2. /\ connections' \subseteq connections
      /\ UNCHANGED <<taken, targets, writing, received, since, broadcast>>
      /\ \A d \in Conns : handler'[d] \in Registering => handler[d] \in Registering
  BY DEF Upgrade, Welcomed, ReadFails, Leave, Registering
<1>3. RemovedClosed'
  BY DEF Upgrade, Welcomed, ReadFails, Leave, Registering, RemovedClosed, EndedClosed
<1> QED
  BY <1>1, <1>2, <1>3, DeliveryKept DEF HistoryType

(* A connection that is registered now is due nothing yet. *)
LEMMA AddConnDelivery ==
  ASSUME DeliveryInv, NEW c \in Conns, AddConn(c)
  PROVE  DeliveryInv'
<1> USE DEF DeliveryInv, IInv, Typed
<1>1. IInv' /\ Targeted
  BY HandlerStep
<1>2. /\ UNCHANGED <<taken, targets, writing, received, broadcast, closed>>
      /\ connections' = connections \cup {c} /\ handler[c] = "adding"
      /\ handler' = [handler EXCEPT ![c] = "reading"]
      /\ since' = [since EXCEPT ![c] = Len(taken)] /\ Len(taken) \in Nat
  BY DEF AddConn, At, hubVars, HistoryType
<1>3. HistoryType' /\ RemovedClosed' /\ NothingBefore'
  BY <1>2 DEF HistoryType, RemovedClosed, NothingBefore, Registering
<1>4. \A d \in Conns : Got(d)' = Got(d) /\ Pending(d)' = Pending(d)
  BY <1>2 DEF Got, Pending
<1>5. received[c] = <<>> /\ Got(c) = {} /\ Pending(c) = {}
  BY <1>2 DEF NothingBefore, Targeted, Registering, Got, Pending, ToSet
<1>6. Due(c)' = {}
  BY <1>2 DEF Due, HistoryType
<1>7. ASSUME NEW d \in Conns, d # c PROVE Due(d)' = Due(d)
  BY <1>2, <1>7 DEF Due, HistoryType
<1>8. ASSUME NEW d \in Conns PROVE DeliveredTo(d)'
  <2>1. CASE d = c
    BY <1>2, <1>4, <1>5, <1>6, <2>1 DEF DeliveredTo
  <2>2. CASE d # c
    <3>1. DeliveredTo(d) /\ (d \in connections' <=> d \in connections)
      BY <1>2, <2>2, PerConnection
    <3> QED
      BY <1>2, <1>4, <1>7, <2>2, <3>1 DEF DeliveredTo
  <2> QED
    BY <2>1, <2>2
<1>9. DeliveredExactly'
  BY <1>8 DEF DeliveredExactly, DeliveredTo, Got
<1>10. PendingDue'
  BY <1>2, <1>4, <1>5, <1>7 DEF PendingDue
<1> QED
  BY <1>1, <1>3, <1>9, <1>10

(* A message is taken: it is due to the registered connections of its key.   *)
LEMMA TakeDelivery == ASSUME DeliveryInv, Take PROVE DeliveryInv'
<1> USE DEF DeliveryInv, IInv, Typed, HistoryType
<1> DEFINE m == Head(broadcast)
           n == Len(taken)
<1>1. IInv'
  BY TakeStep
<1>2. /\ UNCHANGED <<writing, handler, connections, closed, received, since>>
      /\ broadcast # <<>> /\ taken' = Append(taken, m) /\ broadcast' = Tail(broadcast)
      /\ targets' = [c \in Conns |-> IF c \in connections THEN Addressed(c, To[m]) ELSE 0]
      /\ writing = {} /\ \A c \in Conns : targets[c] = 0
  BY DEF Take, connVars, Idle
<1>3. m \in Messages /\ broadcast' \in Seq(Messages)
  BY <1>2
<1>4. /\ taken' \in Seq(Messages) /\ n \in Nat /\ Len(taken') = n + 1
      /\ taken'[n + 1] = m /\ \A k \in 1 .. n : taken'[k] = taken[k]
  BY <1>2, <1>3
<1> HIDE DEF m, n
<1>5. \A c \in Conns : Got(c)' = Got(c)
  BY <1>2 DEF Got
<1>6. ASSUME NEW c \in Conns
      PROVE  /\ Due(c)' = Due(c) \cup (IF Addressed(c, To[m]) > 0 THEN {n + 1} ELSE {})
             /\ \A k \in Due(c) : k \in 1 .. n
             /\ Pending(c) = {} /\ Pending(c)' = IF targets'[c] > 0 THEN {n + 1} ELSE {}
  <2>1. since[c] \in Nat /\ since[c] <= n /\ since'[c] = since[c]
    BY <1>2 DEF n
  <2>2. \A k \in Due(c) : k \in 1 .. n
    BY <2>1 DEF Due, n
  <2>3. Due(c)' = {k \in since[c] + 1 .. n + 1 : Addressed(c, To[taken'[k]]) > 0}
    BY <1>4, <2>1 DEF Due, Addressed
  <2>4. ASSUME NEW k
        PROVE  k \in Due(c)' <=> k \in Due(c) \/ (k = n + 1 /\ Addressed(c, To[m]) > 0)
    <3>1. CASE k = n + 1
      BY <1>4, <2>1, <2>2, <2>3, <3>1
    <3>2. CASE k # n + 1
      <4>1. k \in since[c] + 1 .. n + 1 <=> k \in since[c] + 1 .. n
        BY <1>4, <2>1, <3>2
      <4>2. k \in since[c] + 1 .. n => taken'[k] = taken[k]
        BY <1>4, <2>1
      <4> QED
        BY <2>3, <3>2, <4>1, <4>2 DEF Due, n
    <3> QED
      BY <3>1, <3>2
  <2>5. Pending(c) = {} /\ Pending(c)' = IF targets'[c] > 0 THEN {n + 1} ELSE {}
    BY <1>2, <1>4 DEF Pending
  <2> QED
    BY <2>2, <2>4, <2>5
<1>7. ASSUME NEW c \in Conns PROVE DeliveredTo(c)' /\ Pending(c)' \subseteq Due(c)' \ Got(c)'
  <2>1. DeliveredTo(c) /\ n + 1 \notin Due(c) /\ Got(c) \subseteq Due(c)
    BY <1>4, <1>6, PerConnection DEF DeliveredTo
  <2>2. c \in connections => (targets'[c] > 0 <=> Addressed(c, To[m]) > 0)
    BY <1>2
  <2>3. c \notin connections => Pending(c)' = {}
    BY <1>2, <1>6
  <2>4. Pending(c)' \subseteq Due(c)' \ Got(c)'
    BY <1>5, <1>6, <2>1, <2>2, <2>3
  <2>5. c \in connections' => Got(c)' = Due(c)' \ Pending(c)'
    <3>1. c \in connections => Got(c) = Due(c)
      BY <1>6, <2>1 DEF DeliveredTo
    <3>2. c \in connections => Due(c)' = Due(c) \cup Pending(c)'
      BY <1>6, <2>2
    <3>3. Due(c) \cap Pending(c)' = {}
      BY <1>6, <2>1
    <3> QED
      BY <1>2, <1>5, <3>1, <3>2, <3>3
  <2>6. ASSUME NEW k \in Due(c)' \ Got(c)', NEW j \in Got(c)' PROVE j < k
    <3>1. j \in Got(c) /\ j \in 1 .. n
      BY <1>5, <1>6, <2>1, <2>6
    <3>2. k = n + 1 \/ k \in Due(c) \ Got(c)
      BY <1>5, <1>6, <2>6
    <3> QED
      BY <1>4, <2>1, <3>1, <3>2 DEF DeliveredTo
  <2> QED
    BY <1>2, <1>5, <1>6, <2>1, <2>4, <2>5, <2>6 DEF DeliveredTo
<1>8. DeliveredExactly'
  BY <1>7 DEF DeliveredExactly, DeliveredTo, Got
<1>9. PendingDue'
  BY <1>2, <1>7 DEF PendingDue
<1>10. HistoryType' /\ RemovedClosed' /\ NothingBefore'
  BY <1>2, <1>3, <1>4 DEF RemovedClosed, NothingBefore, n
<1> QED
  BY <1>1, <1>8, <1>9, <1>10

(* The targets become a write, one after the other. *)
LEMMA BeginDelivery ==
  ASSUME DeliveryInv, NEW c \in Conns, BeginWrite(c)
  PROVE  DeliveryInv'
<1> USE DEF DeliveryInv, IInv, Typed
<1>1. IInv'
  BY WriteStep
<1>2. /\ UNCHANGED <<broadcast, taken, handler, connections, closed, received, since>>
      /\ writing = {} /\ writing' = {c} /\ targets[c] > 0
      /\ targets' = [targets EXCEPT ![c] = @ - 1] /\ targets[c] = 1
  BY DEF BeginWrite, connVars
<1>3. \A d \in Conns : Due(d)' = Due(d) /\ Got(d)' = Got(d) /\ Pending(d)' = Pending(d)
  BY <1>2 DEF Due, Got, Pending
<1>4. ASSUME NEW d \in Conns PROVE DeliveredTo(d)'
  <2>1. DeliveredTo(d)
    BY PerConnection
  <2> QED
    BY <1>2, <1>3, <2>1 DEF DeliveredTo
<1>5. DeliveredExactly'
  BY <1>4 DEF DeliveredExactly, DeliveredTo, Got
<1>6. PendingDue'
  BY <1>2, <1>3 DEF PendingDue
<1> QED
  BY <1>1, <1>2, <1>5, <1>6 DEF HistoryType, RemovedClosed, NothingBefore

LEMMA WrittenDelivery ==
  ASSUME DeliveryInv, NEW c \in Conns, Written(c)
  PROVE  DeliveryInv'
<1> USE DEF DeliveryInv, IInv, Typed, HistoryType
<1> DEFINE n == Len(taken)
           s == received[c]
<1>1. IInv'
  BY WriteStep
<1>2. /\ UNCHANGED <<broadcast, taken, targets, handler, connections, closed, since>>
      /\ c \in writing /\ c \notin closed /\ writing' = {}
      /\ received' = [received EXCEPT ![c] = Append(s, n)]
  BY DEF Written, connVars
<1>3. c \in connections /\ targets[c] = 0 /\ Pending(c) = {n} /\ handler[c] \notin Registering
  BY <1>2 DEF Targeted, RemovedClosed, PendingDue, Pending
<1>4. Got(c) = Due(c) \ {n} /\ n \in Due(c) /\ DeliveredTo(c)
  BY <1>3, PerConnection DEF DeliveredTo, PendingDue
<1>5. s \in Seq(Nat) /\ n \in Nat /\ \A k \in Due(c) : k \in Nat /\ k <= n
  BY DEF Due
<1>6. /\ Append(s, n) \in Seq(Nat) /\ Len(s) \in Nat
      /\ DOMAIN s = 1 .. Len(s) /\ DOMAIN Append(s, n) = 1 .. Len(s) + 1
      /\ Append(s, n)[Len(s) + 1] = n /\ \A i \in 1 .. Len(s) : Append(s, n)[i] = s[i]
  <2> HIDE DEF s, n
  <2> QED
    BY <1>5
<1>7. received'[c] = Append(s, n) /\ \A d \in Conns : d # c => received'[d] = received[d]
  BY <1>2
<1>8. \A d \in Conns : Due(d)' = Due(d)
  BY <1>2 DEF Due
<1>9. Got(c)' = Due(c) /\ Pending(c)' = {}
  <2>1. ASSUME NEW x PROVE x \in Got(c)' <=> x \in Got(c) \/ x = n
    <3>1. Got(c) = {s[i] : i \in DOMAIN s}
      BY DEF Got, ToSet
    <3>2. Got(c)' = {Append(s, n)[i] : i \in DOMAIN Append(s, n)}
      BY <1>7 DEF Got, ToSet
    <3> HIDE DEF s, n
    <3>3. x \in Got(c)' <=> \E i \in 1 .. Len(s) + 1 : x = Append(s, n)[i]
      BY <1>6, <3>2
    <3>4. \A i : i \in 1 .. Len(s) + 1 <=> i \in 1 .. Len(s) \/ i = Len(s) + 1
      BY <1>6
    <3> QED
      BY <1>6, <3>1, <3>3, <3>4
  <2>2. Pending(c)' = {}
    BY <1>2, <1>3 DEF Pending
  <2> QED
    BY <1>4, <2>1, <2>2
<1>10. ASSUME NEW i \in DOMAIN received'[c], NEW j \in DOMAIN received'[c], i < j
       PROVE  received'[c][i] < received'[c][j]
  <2>1. i \in 1 .. Len(s) /\ s[i] \in Got(c)
    BY <1>6, <1>7, <1>10 DEF Got, ToSet
  <2>2. s[i] \in Nat /\ s[i] < n
    BY <1>4, <1>5, <2>1
  <2>3. CASE j = Len(s) + 1
    BY <1>6, <1>7, <2>1, <2>2, <2>3
  <2>4. CASE j \in 1 .. Len(s)
    BY <1>4, <1>6, <1>7, <1>10, <2>1, <2>4 DEF DeliveredTo
  <2> QED
    BY <1>6, <1>7, <2>3, <2>4
<1>11. DeliveredTo(c)'
  BY <1>8, <1>9, <1>10 DEF DeliveredTo
<1>12. ASSUME NEW d \in Conns, d # c
       PROVE  Got(d)' = Got(d) /\ Pending(d)' = Pending(d) /\ DeliveredTo(d)'
  <2>1. Got(d)' = Got(d) /\ received'[d] = received[d]
    BY <1>7, <1>12 DEF Got
  <2>2. Pending(d)' = Pending(d)
    BY <1>2, <1>12 DEF Pending, PendingDue
  <2>3. DeliveredTo(d)
    BY PerConnection
  <2> QED
    BY <1>2, <1>8, <2>1, <2>2, <2>3 DEF DeliveredTo
<1>13. DeliveredExactly'
  BY <1>11, <1>12 DEF DeliveredExactly, DeliveredTo, Got
<1>14. PendingDue'
  BY <1>2, <1>8, <1>9, <1>12 DEF PendingDue
<1>15. HistoryType' /\ RemovedClosed' /\ NothingBefore'
  BY <1>2, <1>3, <1>6 DEF RemovedClosed, NothingBefore
<1> QED
  BY <1>1, <1>13, <1>14, <1>15

(* A connection whose write fails keeps a first part of what it was due.     *)
LEMMA FailedDelivery ==
  ASSUME DeliveryInv, NEW c \in Conns, WriteFails(c)
  PROVE  DeliveryInv'
<1> USE DEF DeliveryInv, IInv, Typed, HistoryType
<1>1. IInv'
  BY WriteStep
<1>2. /\ UNCHANGED <<broadcast, taken, targets, handler, received, since>>
      /\ c \in writing /\ writing' = {} /\ closed' = closed \cup {c}
      /\ connections' = connections \ {c}
  BY DEF WriteFails
<1>3. \A d \in Conns : Due(d)' = Due(d) /\ Got(d)' = Got(d)
  BY <1>2 DEF Due, Got
<1>4. \A d \in Conns : d # c => Pending(d)' = Pending(d)
  BY <1>2 DEF Pending, PendingDue
<1>5. Pending(c)' = {}
  BY <1>2 DEF Pending, PendingDue
<1>6. ASSUME NEW d \in Conns PROVE DeliveredTo(d)'
  <2>1. DeliveredTo(d)
    BY PerConnection
  <2> QED
    BY <1>2, <1>3, <1>4, <2>1 DEF DeliveredTo
<1>7. DeliveredExactly'
  BY <1>6 DEF DeliveredExactly, DeliveredTo, Got
<1>8. PendingDue'
  BY <1>2, <1>3, <1>4, <1>5 DEF PendingDue
<1> QED
  BY <1>1, <1>2, <1>7, <1>8 DEF RemovedClosed, NothingBefore

LEMMA DeliveryInitInv == Init => DeliveryInv
<1> SUFFICES ASSUME Init PROVE DeliveryInv
  OBVIOUS
<1> USE DEF Init
<1>1. IInv
  BY InitInv
<1>2. \A c \in Conns : received[c] = <<>> /\ Got(c) = {} /\ Due(c) = {} /\ Pending(c) = {}
  BY DEF Got, ToSet, Due, Pending
<1>3. DeliveredExactly
  BY <1>2 DEF DeliveredExactly, Got
<1>4. HistoryType /\ RemovedClosed /\ PendingDue /\ NothingBefore
  BY <1>2 DEF HistoryType, RemovedClosed, PendingDue, NothingBefore, Registering
<1> QED
  BY <1>1, <1>3, <1>4 DEF DeliveryInv

LEMMA DeliveryNextInv == DeliveryInv /\ [Next]_vars => DeliveryInv'
<1> SUFFICES ASSUME DeliveryInv, [Next]_vars PROVE DeliveryInv'
  OBVIOUS
<1>0. IInv'
  BY NextInv DEF DeliveryInv
<1>1. ASSUME NEW b \in Messages, Broadcast(b) PROVE DeliveryInv'
  <2>1. broadcast' \in Seq(Messages)
    BY <1>1 DEF Broadcast, DeliveryInv, HistoryType
  <2> QED
    BY <1>0, <1>1, <2>1, DeliveryKept DEF Broadcast, connVars, RemovedClosed, DeliveryInv
<1>2. ASSUME NEW c \in Conns, Disconnect(c) PROVE DeliveryInv'
  BY <1>0, <1>2, DeliveryKept
     DEF Disconnect, hubVars, RemovedClosed, DeliveryInv, HistoryType
<1>3. CASE UNCHANGED vars
  BY <1>0, <1>3, DeliveryKept
     DEF vars, hubVars, connVars, RemovedClosed, DeliveryInv, HistoryType
<1> QED
  BY <1>1, <1>2, <1>3, HandlerDelivery, AddConnDelivery, TakeDelivery, BeginDelivery,
     WrittenDelivery, FailedDelivery DEF Next, Run, Handle

(* Every registered connection has been written, in order and once each,      *)
(* exactly the messages for its key taken since it was registered, but for    *)
(* the one at work, and a removed one a first part of them (run, Broadcast).   *)
THEOREM Delivered == Spec => []DeliveredExactly
<1>1. DeliveryInv => DeliveredExactly
  BY DEF DeliveryInv
<1> QED
  BY <1>1, DeliveryInitInv, DeliveryNextInv, PTL DEF Spec

(* Gateway does what its two sides do, and nothing else: the theorems of     *)
(* WebSocketHub and of AuditLog hold of it.                                  *)
THEOREM GatewayIsItsSides == GatewaySpec => Spec /\ AuditSpec
<1>1. GatewayInit => Init /\ AuditInit
  BY DEF GatewayInit
<1>2. [GatewayNext]_allVars => [Next]_vars /\ [AuditNext]_auditVars
  BY DEF GatewayNext, allVars
<1> QED
  BY <1>1, <1>2, PTL DEF GatewaySpec, Spec, AuditSpec
=============================================================================
