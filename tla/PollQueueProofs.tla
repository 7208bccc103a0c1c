--------------------------- MODULE PollQueueProofs ---------------------------
(***************************************************************************)
(* Proofs about PollQueue, for every set of messages and pods and every    *)
(* value of MaxConcurrency and MaxReceiveCount: type correctness, the      *)
(* safety invariants, and the refinement of AtLeastOnce.  The second part  *)
(* is about EmailDelivery, which takes over the steps of PollQueue, and    *)
(* with them its inductive invariant.                                      *)
(***************************************************************************)
EXTENDS EmailDelivery, FiniteSetTheorems, TLAPS

(* The three places a delivery can be in a pod are disjoint, finite, and     *)
(* the two counters agree with them and with the deferred calls.             *)
Slots(p) ==
  /\ IsFiniteSet(handling[p]) /\ IsFiniteSet(deleting[p])
  /\ batch[p] \cap handling[p] = {}
  /\ batch[p] \cap deleting[p] = {}
  /\ handling[p] \cap deleting[p] = {}
  /\ sem[p] = Busy(p) + (IF pc[p] = "start" THEN 1 ELSE 0)
  /\ inFlight[p] = Busy(p) + released[p]

(* A batch exists only while it is dispatched, and a consumer that returned  *)
(* holds nothing.                                                            *)
Control(p) ==
  /\ pc[p] \notin {"dispatch", "start"} => batch[p] = {}
  /\ pc[p] = "stopped" =>
       handling[p] = {} /\ deleting[p] = {} /\ returned[p] = 0 /\ released[p] = 0

(* Receipts in hand have been issued; they have no outcome before the        *)
(* handler returns, and a success once the delete is due.                    *)
Receipted(p) ==
  /\ \A d \in Held(p) : d.rcpt <= receives[d.msg]
  /\ \A d \in batch[p] \cup handling[p] : d.rcpt \notin succeeded[d.msg] \cup failed[d.msg]
  /\ \A d \in deleting[p] : d.rcpt \in succeeded[d.msg]

Exclusive == \A p, q \in Pods : p # q => Held(p) \cap Held(q) = {}

(* The inductive invariant. *)
IInv ==
  /\ TypeOK
  /\ \A p \in Pods : Slots(p) /\ Control(p) /\ Receipted(p)
  /\ Exclusive
  /\ OneOutcome
  /\ NoSilentLoss

-----------------------------------------------------------------------------
(* The invariant holds initially and implies the properties. *)

LEMMA InitInv == Init => IInv
<1> SUFFICES ASSUME Init PROVE IInv
  OBVIOUS
<1> USE PollQueueAssumption DEF Init
<1>1. TypeOK
  BY DEF TypeOK, Polling, Statuses, Receipts
<1>2. \A p \in Pods : Slots(p) /\ Control(p) /\ Receipted(p)
  BY FS_EmptySet DEF Slots, Control, Receipted, Held, Busy
<1>3. Exclusive /\ OneOutcome /\ NoSilentLoss
  BY DEF Exclusive, Held, OneOutcome, NoSilentLoss
<1> QED
  BY <1>1, <1>2, <1>3 DEF IInv

(* The summands of the two counters are numbers, and without a count there   *)
(* is no goroutine.                                                          *)
LEMMA Counts ==
  ASSUME IInv, NEW p \in Pods
  PROVE  /\ Cardinality(handling[p]) \in Nat /\ Cardinality(deleting[p]) \in Nat
         /\ returned[p] \in Nat /\ released[p] \in Nat /\ Busy(p) \in Nat
         /\ sem[p] \in Nat /\ inFlight[p] \in Nat
         /\ inFlight[p] = 0 =>
              handling[p] = {} /\ deleting[p] = {} /\ returned[p] = 0 /\ released[p] = 0
<1>1. /\ IsFiniteSet(handling[p]) /\ IsFiniteSet(deleting[p])
      /\ returned[p] \in Nat /\ released[p] \in Nat
      /\ sem[p] \in Nat /\ inFlight[p] \in Nat
      /\ inFlight[p] = Busy(p) + released[p]
  BY PollQueueAssumption DEF IInv, Slots, TypeOK
<1>2. Cardinality(handling[p]) \in Nat /\ Cardinality(deleting[p]) \in Nat
  BY <1>1, FS_CardinalityType
<1>3. /\ Cardinality(handling[p]) = 0 => handling[p] = {}
      /\ Cardinality(deleting[p]) = 0 => deleting[p] = {}
  BY <1>1, FS_EmptySet
<1> QED
  BY <1>1, <1>2, <1>3 DEF Busy

(* Steps that leave the deliveries in hand, the counters and the outcomes    *)
(* alone.                                                                    *)
LEMMA QuietStep ==
  ASSUME IInv, UNCHANGED <<workVars, resultVars, receives>>,
         visible' \in [Messages -> BOOLEAN],
         ctxDone' \in [Pods -> BOOLEAN],
         status' \in [Messages -> Statuses],
         \A m \in Messages : status'[m] = "deleted" => status[m] = "deleted",
         pc' \in [Pods -> Polling \cup {"off", "noqueue", "stopped", "down"}],
         \A p \in Pods : pc'[p] = "start" <=> pc[p] = "start",
         \A p \in Pods : pc'[p] \notin {"dispatch", "start"} =>
            pc[p] \notin {"dispatch", "start"} \/ batch[p] = {},
         \A p \in Pods : pc'[p] = "stopped" =>
            pc[p] = "stopped" \/ (pc[p] = "drain" /\ inFlight[p] = 0)
  PROVE  IInv'
<1> USE PollQueueAssumption DEF IInv, workVars, resultVars
<1>1. TypeOK'
  BY DEF TypeOK
<1>2. ASSUME NEW p \in Pods PROVE Slots(p)'
  BY DEF Slots, Busy
<1>3. ASSUME NEW p \in Pods PROVE Receipted(p)'
  BY DEF Receipted, Held
<1>4. ASSUME NEW p \in Pods PROVE Control(p)'
  <2>1. pc'[p] \notin {"dispatch", "start"} => batch'[p] = {}
    BY DEF Control
  <2>2. inFlight[p] = 0 =>
          handling[p] = {} /\ deleting[p] = {} /\ returned[p] = 0 /\ released[p] = 0
    BY Counts
  <2> QED
    BY <2>1, <2>2 DEF Control
<1>5. Exclusive'
  BY DEF Exclusive, Held
<1>6. OneOutcome' /\ NoSilentLoss'
  BY DEF OneOutcome, NoSilentLoss
<1> QED
  BY <1>1, <1>2, <1>3, <1>4, <1>5, <1>6

(* A receipt number and a message determine the delivery. *)
LEMMA SameDelivery ==
  ASSUME NEW d \in Deliveries, NEW e \in Deliveries, d.msg = e.msg, d.rcpt = e.rcpt
  PROVE  d = e
  BY DEF Deliveries

(* What the service does when it hands out messages. *)
LEMMA HandOutFacts ==
  ASSUME IInv, NEW S \in SUBSET Messages, HandOut(S)
  PROVE  /\ receives' \in [Messages -> 0 .. MaxReceiveCount]
         /\ visible' \in [Messages -> BOOLEAN]
         /\ status' = status
         /\ \A m \in Messages : receives[m] \in Nat /\ receives[m] <= receives'[m]
         /\ \A m \in Messages : status[m] = "deleted" => receives'[m] = receives[m]
         /\ \A m \in S : receives'[m] = receives[m] + 1 /\ receives[m] < MaxReceiveCount
  BY PollQueueAssumption DEF IInv, TypeOK, HandOut, Receivable

LEMMA DieStep == ASSUME IInv, NEW p \in Pods, Die(p) PROVE IInv'
<1> USE PollQueueAssumption DEF IInv, Die, queueVars, resultVars
<1>1. TypeOK'
  BY DEF TypeOK
<1>2. ASSUME NEW q \in Pods PROVE Slots(q)' /\ Control(q)' /\ Receipted(q)'
  BY FS_EmptySet DEF Slots, Control, Receipted, Held, TypeOK, Busy
<1>3. Exclusive'
  BY DEF Exclusive, Held, TypeOK
<1>4. OneOutcome' /\ NoSilentLoss'
  BY DEF OneOutcome, NoSilentLoss
<1> QED
  BY <1>1, <1>2, <1>3, <1>4

LEMMA ReceiveStep ==
  ASSUME IInv, NEW p \in Pods, NEW S \in SUBSET Messages, Receive(p, S)
  PROVE  IInv'
<1> USE PollQueueAssumption, HandOutFacts DEF IInv, Receive, resultVars
<1> DEFINE new == {[msg |-> m, rcpt |-> receives[m] + 1] : m \in S}
<1>1. /\ new \in SUBSET Deliveries
      /\ \A e \in new : e.rcpt = receives[e.msg] + 1 /\ e.rcpt <= receives'[e.msg]
  BY DEF Deliveries, Receipts, TypeOK
<1>2. batch' = [batch EXCEPT ![p] = new] /\ batch[p] = {}
  BY DEF Control
<1>3. ASSUME NEW q \in Pods, NEW e \in Held(q)
      PROVE  e \in Deliveries /\ e.rcpt <= receives[e.msg] /\ e \notin new
  BY <1>1 DEF Held, TypeOK, Receipted, Deliveries, Receipts
<1>4. \A e \in new : e.rcpt \notin succeeded[e.msg] \cup failed[e.msg]
  BY <1>1 DEF OneOutcome, Deliveries, Receipts, TypeOK
<1> HIDE DEF new
<1>5. TypeOK'
  BY <1>1, <1>2 DEF TypeOK, Polling
<1>6. ASSUME NEW q \in Pods PROVE Slots(q)'
  BY <1>2, <1>3 DEF Slots, Busy, Held, TypeOK
<1>7. ASSUME NEW q \in Pods PROVE Control(q)'
  BY <1>2 DEF Control, TypeOK
<1>8. ASSUME NEW q \in Pods PROVE Receipted(q)'
  <2>1. ASSUME NEW e \in Held(q)' PROVE e.rcpt <= receives'[e.msg]
    <3>1. e \in Held(q) \/ (q = p /\ e \in new)
      BY <1>2, <2>1 DEF Held, TypeOK
    <3>2. CASE e \in Held(q)
      BY <3>2, <1>3 DEF Deliveries, Receipts, TypeOK
    <3> QED
      BY <3>1, <3>2, <1>1
  <2>2. \A e \in (batch[q] \cup handling[q])' :
           e.rcpt \notin (succeeded[e.msg] \cup failed[e.msg])'
    BY <1>2, <1>4 DEF Receipted, TypeOK
  <2>3. \A e \in deleting'[q] : e.rcpt \in succeeded'[e.msg]
    BY DEF Receipted
  <2> QED
    BY <2>1, <2>2, <2>3 DEF Receipted
<1>9. Exclusive'
  <2>1. \A q \in Pods : q # p => Held(q)' = Held(q)
    BY <1>2 DEF Held, TypeOK
  <2>2. Held(p)' \subseteq Held(p) \cup new
    BY <1>2 DEF Held, TypeOK
  <2> QED
    BY <2>1, <2>2, <1>3 DEF Exclusive
<1>10. OneOutcome' /\ NoSilentLoss'
  BY DEF OneOutcome, NoSilentLoss, TypeOK
<1> QED
  BY <1>5, <1>6, <1>7, <1>8, <1>9, <1>10

LEMMA ReceiveErrorStep ==
  ASSUME IInv, NEW p \in Pods, NEW S \in SUBSET Messages, ReceiveError(p, S)
  PROVE  IInv'
<1> USE PollQueueAssumption, HandOutFacts DEF IInv, ReceiveError, resultVars, workVars
<1>1. TypeOK'
  BY DEF TypeOK, Polling
<1>2. ASSUME NEW q \in Pods PROVE Slots(q)' /\ Control(q)'
  BY DEF Slots, Busy, Control, TypeOK
<1>3. ASSUME NEW q \in Pods PROVE Receipted(q)'
  BY DEF Receipted, Held, TypeOK, Deliveries, Receipts
<1>4. Exclusive'
  BY DEF Exclusive, Held
<1>5. OneOutcome' /\ NoSilentLoss'
  BY DEF OneOutcome, NoSilentLoss, TypeOK
<1> QED
  BY <1>1, <1>2, <1>3, <1>4, <1>5

(* Counting a set that gains or loses one element. *)
LEMMA CountAdd ==
  ASSUME NEW S, NEW T, NEW d, IsFiniteSet(S), d \notin S, T = S \cup {d}
  PROVE  IsFiniteSet(T) /\ Cardinality(T) = Cardinality(S) + 1 /\ Cardinality(S) \in Nat
  BY FS_AddElement, FS_CardinalityType

LEMMA CountRemove ==
  ASSUME NEW S, NEW T, NEW d, IsFiniteSet(S), d \in S, T = S \ {d}
  PROVE  IsFiniteSet(T) /\ Cardinality(T) = Cardinality(S) - 1 /\ Cardinality(S) \in Nat
  BY FS_RemoveElement, FS_CardinalityType

LEMMA AcquireStep == ASSUME IInv, NEW p \in Pods, Acquire(p) PROVE IInv'
<1> USE PollQueueAssumption DEF IInv, Acquire, queueVars, resultVars
<1>1. TypeOK'
  BY DEF TypeOK, Polling
<1>2. ASSUME NEW q \in Pods PROVE Slots(q)'
  <2>1. Busy(q)' = Busy(q) /\ Busy(q) \in Nat
    BY Counts DEF Busy
  <2> QED
    BY <2>1 DEF Slots, TypeOK
<1>3. ASSUME NEW q \in Pods PROVE Held(q)' = Held(q) /\ Control(q)' /\ Receipted(q)'
  BY DEF Control, Receipted, Held, TypeOK
<1>4. Exclusive'
  BY <1>3 DEF Exclusive
<1>5. OneOutcome' /\ NoSilentLoss'
  BY DEF OneOutcome, NoSilentLoss
<1> QED
  BY <1>1, <1>2, <1>3, <1>4, <1>5

LEMMA DispatchStep ==
  ASSUME IInv, NEW p \in Pods, NEW d \in Deliveries, Dispatch(p, d)
  PROVE  IInv'
<1> USE PollQueueAssumption DEF IInv, Dispatch, queueVars, resultVars
<1>1. TypeOK'
  BY DEF TypeOK, Polling
<1>2. ASSUME NEW q \in Pods PROVE Slots(q)'
  <2>1. CASE q # p
    BY <2>1 DEF Slots, TypeOK, Busy
  <2>2. CASE q = p
    <3>1. d \notin handling[p] /\ IsFiniteSet(handling[p]) /\ IsFiniteSet(deleting[p])
      BY DEF Slots
    <3>2. /\ batch'[p] = batch[p] \ {d} /\ handling'[p] = handling[p] \cup {d}
          /\ deleting'[p] = deleting[p] /\ UNCHANGED <<sem, returned, released>>
          /\ inFlight'[p] = inFlight[p] + 1
          /\ pc[p] = "start" /\ pc'[p] = "dispatch"
      BY DEF TypeOK
    <3>3. /\ IsFiniteSet(handling'[p])
          /\ Cardinality(handling'[p]) = Cardinality(handling[p]) + 1
      BY <3>1, <3>2, CountAdd
    <3>4. Busy(p)' = Busy(p) + 1 /\ Busy(p) \in Nat /\ released[p] \in Nat
      BY <3>2, <3>3, Counts DEF Busy
    <3>5. sem'[p] = Busy(p)' /\ inFlight'[p] = Busy(p)' + released'[p]
      BY <3>2, <3>4 DEF Slots
    <3>6. /\ batch'[p] \cap handling'[p] = {}
          /\ batch'[p] \cap deleting'[p] = {}
          /\ handling'[p] \cap deleting'[p] = {}
      BY <3>2 DEF Slots
    <3> QED
      BY <2>2, <3>1, <3>2, <3>3, <3>4, <3>5, <3>6 DEF Slots
  <2> QED
    BY <2>1, <2>2
<1>3. ASSUME NEW q \in Pods PROVE Held(q)' = Held(q) /\ Control(q)' /\ Receipted(q)'
  BY DEF Control, Receipted, Held, TypeOK
<1>4. Exclusive'
  BY <1>3 DEF Exclusive
<1>5. OneOutcome' /\ NoSilentLoss'
  BY DEF OneOutcome, NoSilentLoss
<1> QED
  BY <1>1, <1>2, <1>3, <1>4, <1>5

(* The two deferred calls. *)
LEMMA DeferredStep == ASSUME IInv, NEW p \in Pods, Deferred(p) PROVE IInv'
<1> USE PollQueueAssumption DEF IInv, Deferred, FreeSlot, Done, queueVars, resultVars
<1>1. /\ returned[p] \in Nat /\ released[p] \in Nat
      /\ Cardinality(handling[p]) \in Nat /\ Cardinality(deleting[p]) \in Nat
      /\ sem[p] \in Nat /\ inFlight[p] \in Nat
      /\ sem[p] = Busy(p) + (IF pc[p] = "start" THEN 1 ELSE 0)
      /\ inFlight[p] = Busy(p) + released[p]
  BY Counts DEF Slots
<1>2. FreeSlot(p) => sem[p] - 1 \in 0 .. MaxConcurrency
  BY <1>1 DEF Busy, TypeOK
<1>3. Done(p) => inFlight[p] - 1 \in Nat
  BY <1>1 DEF Busy
<1>4. TypeOK'
  BY <1>1, <1>2, <1>3 DEF TypeOK
<1>5. ASSUME NEW q \in Pods PROVE Slots(q)'
  <2>1. CASE q # p
    BY <2>1 DEF Slots, TypeOK, Busy
  <2>2. CASE q = p /\ FreeSlot(p)
    <3>1. /\ returned'[p] = returned[p] - 1 /\ released'[p] = released[p] + 1
          /\ sem'[p] = sem[p] - 1 /\ UNCHANGED <<inFlight, handling, deleting, batch, pc>>
      BY <2>2 DEF TypeOK
    <3>2. Busy(p)' = Busy(p) - 1
      BY <1>1, <3>1 DEF Busy
    <3> QED
      BY <1>1, <2>2, <3>1, <3>2, Counts DEF Slots
  <2>3. CASE q = p /\ Done(p)
    <3>1. /\ released'[p] = released[p] - 1 /\ inFlight'[p] = inFlight[p] - 1
          /\ UNCHANGED <<sem, returned, handling, deleting, batch, pc>>
      BY <2>3 DEF TypeOK
    <3>2. Busy(p)' = Busy(p) /\ Busy(p) \in Nat
      BY <3>1, Counts DEF Busy
    <3> QED
      BY <1>1, <2>3, <3>1, <3>2 DEF Slots
  <2> QED
    BY <2>1, <2>2, <2>3
<1>6. ASSUME NEW q \in Pods PROVE Held(q)' = Held(q) /\ Control(q)' /\ Receipted(q)'
  BY <1>1 DEF Control, Receipted, Held, TypeOK
<1>7. Exclusive'
  BY <1>6 DEF Exclusive
<1>8. OneOutcome' /\ NoSilentLoss'
  BY DEF OneOutcome, NoSilentLoss
<1> QED
  BY <1>4, <1>5, <1>6, <1>7, <1>8

(* The outcome of d does not concern any other delivery in hand. *)
LEMMA OutcomeLocal ==
  ASSUME IInv, NEW p \in Pods, NEW d \in handling[p],
         NEW q \in Pods, NEW e \in Held(q), e.msg = d.msg, e.rcpt = d.rcpt
  PROVE  q = p /\ e = d /\ e \notin batch[p] /\ e \notin deleting[p]
<1>1. e \in Deliveries /\ d \in Deliveries
  BY DEF IInv, TypeOK, Held
<1>2. e = d
  BY <1>1, SameDelivery
<1> QED
  BY <1>2 DEF IInv, Exclusive, Slots, Held

LEMMA HandlerOkStep ==
  ASSUME IInv, NEW p \in Pods, NEW d \in Deliveries, HandlerOk(p, d)
  PROVE  IInv'
<1> USE PollQueueAssumption DEF IInv, HandlerOk, queueVars
<1>1. TypeOK'
  BY DEF TypeOK, Deliveries
<1>2. d.msg \in Messages /\ d.rcpt \in Receipts
  BY DEF Deliveries
<1>3. /\ handling'[p] = handling[p] \ {d} /\ deleting'[p] = deleting[p] \cup {d}
      /\ \A q \in Pods \ {p} : handling'[q] = handling[q] /\ deleting'[q] = deleting[q]
      /\ \A m \in Messages : succeeded'[m] =
            IF m = d.msg THEN succeeded[m] \cup {d.rcpt} ELSE succeeded[m]
  BY <1>2 DEF TypeOK
<1>4. ASSUME NEW q \in Pods PROVE Slots(q)'
  <2>1. CASE q # p
    BY <2>1, <1>3 DEF Slots, Busy
  <2>2. CASE q = p
    <3>1. d \notin deleting[p] /\ IsFiniteSet(deleting[p]) /\ IsFiniteSet(handling[p])
      BY DEF Slots
    <3>2. /\ IsFiniteSet(deleting'[p]) /\ Cardinality(deleting[p]) \in Nat
          /\ Cardinality(deleting'[p]) = Cardinality(deleting[p]) + 1
      BY <1>3, <3>1, CountAdd
    <3>3. /\ IsFiniteSet(handling'[p]) /\ Cardinality(handling[p]) \in Nat
          /\ Cardinality(handling'[p]) = Cardinality(handling[p]) - 1
      BY <1>3, <3>1, CountRemove
    <3>4. Busy(p)' = Busy(p)
      BY <3>2, <3>3, Counts DEF Busy
    <3>5. /\ batch'[p] \cap handling'[p] = {}
          /\ batch'[p] \cap deleting'[p] = {}
          /\ handling'[p] \cap deleting'[p] = {}
      BY <1>3 DEF Slots
    <3> QED
      BY <2>2, <3>2, <3>3, <3>4, <3>5 DEF Slots
  <2> QED
    BY <2>1, <2>2
<1>5. ASSUME NEW q \in Pods PROVE Held(q)' = Held(q) /\ Control(q)'
  BY <1>3 DEF Control, Held
<1>6. ASSUME NEW q \in Pods PROVE Receipted(q)'
  <2>1. \A e \in Held(q)' : e.rcpt <= receives'[e.msg]
    BY <1>5 DEF Receipted
  <2>2. ASSUME NEW e \in batch'[q] \cup handling'[q]
        PROVE  e.rcpt \notin succeeded'[e.msg] \cup failed'[e.msg]
    <3>1. e \in batch[q] \cup handling[q] /\ e \in Held(q) /\ e.msg \in Messages
      BY <1>3 DEF Held, TypeOK, Deliveries
    <3>2. ~(e.msg = d.msg /\ e.rcpt = d.rcpt)
      BY <3>1, <1>3, OutcomeLocal
    <3> QED
      BY <3>1, <3>2, <1>3 DEF Receipted
  <2>3. \A e \in deleting'[q] : e.rcpt \in succeeded'[e.msg]
    BY <1>2, <1>3 DEF Receipted, TypeOK, Deliveries
  <2> QED
    BY <2>1, <2>2, <2>3 DEF Receipted
<1>7. Exclusive'
  BY <1>5 DEF Exclusive
<1>8. OneOutcome'
  <2>1. d.rcpt <= receives[d.msg] /\ d.rcpt \notin failed[d.msg]
    BY DEF Receipted, Held
  <2> QED
    BY <1>2, <1>3, <2>1 DEF OneOutcome, TypeOK, Receipts
<1>9. NoSilentLoss'
  BY <1>3 DEF NoSilentLoss
<1> QED
  BY <1>1, <1>4, <1>5, <1>6, <1>7, <1>8, <1>9

LEMMA HandlerErrorStep ==
  ASSUME IInv, NEW p \in Pods, NEW d \in Deliveries, HandlerError(p, d)
  PROVE  IInv'
<1> USE PollQueueAssumption DEF IInv, HandlerError, Return, queueVars
<1>1. returned[p] \in Nat /\ Cardinality(deleting[p]) \in Nat
  BY Counts
<1>2. d.msg \in Messages /\ d.rcpt \in Receipts
  BY DEF Deliveries
<1>3. /\ handling'[p] = handling[p] \ {d}
      /\ returned'[p] = returned[p] + 1
      /\ \A q \in Pods \ {p} : handling'[q] = handling[q] /\ returned'[q] = returned[q]
      /\ \A m \in Messages : failed'[m] =
            IF m = d.msg THEN failed[m] \cup {d.rcpt} ELSE failed[m]
  BY <1>2 DEF TypeOK
<1>4. TypeOK'
  BY <1>1, <1>2 DEF TypeOK
<1>5. ASSUME NEW q \in Pods PROVE Slots(q)'
  <2>1. CASE q # p
    BY <2>1, <1>3 DEF Slots, Busy
  <2>2. CASE q = p
    <3>1. IsFiniteSet(deleting[p]) /\ IsFiniteSet(handling[p])
      BY DEF Slots
    <3>2. /\ IsFiniteSet(handling'[p]) /\ Cardinality(handling[p]) \in Nat
          /\ Cardinality(handling'[p]) = Cardinality(handling[p]) - 1
      BY <1>3, <3>1, CountRemove
    <3>4. Busy(p)' = Busy(p)
      BY <1>1, <1>3, <3>2 DEF Busy
    <3>5. /\ batch'[p] \cap handling'[p] = {}
          /\ batch'[p] \cap deleting'[p] = {}
          /\ handling'[p] \cap deleting'[p] = {}
      BY <1>3 DEF Slots
    <3> QED
      BY <2>2, <1>1, <1>3, <3>1, <3>2, <3>4, <3>5 DEF Slots
  <2> QED
    BY <2>1, <2>2
<1>6. ASSUME NEW q \in Pods
      PROVE  Held(q)' \subseteq Held(q) /\ Control(q)'
  BY <1>3 DEF Control, Held
<1>7. ASSUME NEW q \in Pods PROVE Receipted(q)'
  <2>1. \A e \in Held(q)' : e.rcpt <= receives'[e.msg]
    BY <1>6 DEF Receipted
  <2>2. ASSUME NEW e \in batch'[q] \cup handling'[q]
        PROVE  e.rcpt \notin succeeded'[e.msg] \cup failed'[e.msg]
    <3>1. e \in batch[q] \cup handling[q] /\ e \in Held(q) /\ e.msg \in Messages
      BY <1>3 DEF Held, TypeOK, Deliveries
    <3>2. ~(e.msg = d.msg /\ e.rcpt = d.rcpt)
      BY <3>1, <1>3, OutcomeLocal
    <3> QED
      BY <3>1, <3>2, <1>3 DEF Receipted
  <2>3. \A e \in deleting'[q] : e.rcpt \in succeeded'[e.msg]
    BY DEF Receipted
  <2> QED
    BY <2>1, <2>2, <2>3 DEF Receipted
<1>8. Exclusive'
  BY <1>6 DEF Exclusive
<1>9. OneOutcome'
  <2>1. d.rcpt <= receives[d.msg] /\ d.rcpt \notin succeeded[d.msg]
    BY DEF Receipted, Held
  <2> QED
    BY <1>2, <1>3, <2>1 DEF OneOutcome, TypeOK, Receipts
<1>10. NoSilentLoss'
  BY DEF NoSilentLoss
<1> QED
  BY <1>4, <1>5, <1>6, <1>7, <1>8, <1>9, <1>10

(* A delete, whatever its result: only a served one with the latest receipt  *)
(* changes the queue.                                                        *)
LEMMA DeleteStep ==
  ASSUME IInv, NEW p \in Pods, NEW d \in Deliveries,
         DeleteServed(p, d) \/ DeleteFails(p, d)
  PROVE  IInv'
<1> USE PollQueueAssumption DEF IInv, DeleteServed, DeleteFails, Return, queueVars, resultVars
<1>1. d \in deleting[p] /\ returned[p] \in Nat /\ Cardinality(handling[p]) \in Nat
  BY Counts
<1>2. d.msg \in Messages /\ d.rcpt \in Receipts
  BY DEF Deliveries
<1>3. /\ UNCHANGED <<receives, succeeded, failed, batch, handling, pc>>
      /\ deleting'[p] = deleting[p] \ {d}
      /\ returned'[p] = returned[p] + 1
      /\ \A q \in Pods \ {p} : deleting'[q] = deleting[q] /\ returned'[q] = returned[q]
  BY DEF TypeOK
<1>4. \A m \in Messages : status'[m] = "deleted" =>
         status[m] = "deleted" \/ (m = d.msg /\ d.rcpt = receives[m])
  BY <1>2 DEF TypeOK
<1>5. TypeOK'
  BY <1>1, <1>2 DEF TypeOK, Statuses
<1>6. ASSUME NEW q \in Pods PROVE Slots(q)'
  <2>1. CASE q # p
    BY <2>1, <1>3 DEF Slots, Busy
  <2>2. CASE q = p
    <3>1. IsFiniteSet(deleting[p]) /\ IsFiniteSet(handling[p])
      BY DEF Slots
    <3>2. /\ IsFiniteSet(deleting'[p]) /\ Cardinality(deleting[p]) \in Nat
          /\ Cardinality(deleting'[p]) = Cardinality(deleting[p]) - 1
      BY <1>1, <1>3, <3>1, CountRemove
    <3>4. Busy(p)' = Busy(p)
      BY <1>1, <1>3, <3>2 DEF Busy
    <3>5. /\ batch'[p] \cap handling'[p] = {}
          /\ batch'[p] \cap deleting'[p] = {}
          /\ handling'[p] \cap deleting'[p] = {}
      BY <1>3 DEF Slots
    <3> QED
      BY <2>2, <1>1, <1>3, <3>1, <3>2, <3>4, <3>5 DEF Slots
  <2> QED
    BY <2>1, <2>2
<1>7. ASSUME NEW q \in Pods
      PROVE  Held(q)' \subseteq Held(q) /\ Control(q)' /\ Receipted(q)'
  BY <1>3 DEF Control, Held, Receipted
<1>8. Exclusive'
  BY <1>7 DEF Exclusive
<1>9. OneOutcome'
  BY <1>3 DEF OneOutcome
<1>10. NoSilentLoss'
  BY <1>1, <1>3, <1>4 DEF NoSilentLoss, Receipted
<1> QED
  BY <1>5, <1>6, <1>7, <1>8, <1>9, <1>10

LEMMA NextInv == IInv /\ [Next]_vars => IInv'
<1> SUFFICES ASSUME IInv, [Next]_vars PROVE IInv'
  OBVIOUS
<1>1. ASSUME NEW p \in Pods, NEW m \in Messages, Enqueue(p, m) PROVE IInv'
  BY <1>1, QuietStep DEF Enqueue, IInv, TypeOK, Statuses
<1>2. ASSUME NEW m \in Messages, Service(m) PROVE IInv'
  BY <1>2, QuietStep DEF Service, VisibilityTimeout, DeadLetter, IInv, TypeOK, Statuses
<1>3. ASSUME NEW p \in Pods, Start(p) \/ Terminate(p) PROVE IInv'
  BY <1>3, QuietStep DEF Start, Terminate, queueVars, IInv, TypeOK, Polling
<1>4. ASSUME NEW p \in Pods, Die(p) PROVE IInv'
  BY <1>4, DieStep
<1>5. ASSUME NEW p \in Pods, Loop(p) PROVE IInv'
  <2>1. CASE CheckContext(p) \/ Backoff(p) \/ BatchDone(p) \/ Drained(p)
    BY <2>1, QuietStep
       DEF CheckContext, Backoff, BatchDone, Drained, queueVars, IInv, TypeOK, Polling
  <2>2. ASSUME NEW S \in SUBSET Messages, Receive(p, S) \/ ReceiveError(p, S) PROVE IInv'
    BY <2>2, ReceiveStep, ReceiveErrorStep
  <2>3. ASSUME NEW d \in Deliveries, Dispatch(p, d) PROVE IInv'
    BY <2>3, DispatchStep
  <2>4. CASE Acquire(p)
    BY <2>4, AcquireStep
  <2> QED
    BY <1>5, <2>1, <2>2, <2>3, <2>4 DEF Loop
<1>6. ASSUME NEW p \in Pods, Handler(p) PROVE IInv'
  BY <1>6, HandlerOkStep, HandlerErrorStep DEF Handler
<1>7. ASSUME NEW p \in Pods, Delete(p) PROVE IInv'
  BY <1>7, DeleteStep DEF Delete
<1>8. CASE UNCHANGED vars
  BY <1>8, QuietStep DEF vars, queueVars, IInv, TypeOK
<1>9. ASSUME NEW p \in Pods, Deferred(p) PROVE IInv'
  BY <1>9, DeferredStep
<1> QED
  BY <1>1, <1>2, <1>3, <1>4, <1>5, <1>6, <1>7, <1>8, <1>9 DEF Next, Frame

-----------------------------------------------------------------------------
(* The theorems. *)

(* The inductive invariant holds of every reachable state: pods killed at    *)
(* any step, two pods at once, expiring visibility timeouts, failing calls.  *)
THEOREM Invariance == Spec => []IInv
<1>1. Init => IInv
  BY InitInv
<1>2. IInv /\ [Next]_vars => IInv'
  BY NextInv
<1> QED
  BY <1>1, <1>2, PTL DEF Spec

(* Every variable of the queue and of PollQueue keeps its type. *)
THEOREM TypeCorrect == Spec => []TypeOK
<1>1. IInv => TypeOK
  BY DEF IInv
<1> QED
  BY <1>1, Invariance, PTL

(* Every goroutine of PollQueue holds one slot of the semaphore until its    *)
(* deferred <-sem, at most maxConcurrency slots are taken, and the WaitGroup *)
(* counts the goroutines until their deferred Done.                          *)
THEOREM SlotsCorrect == Spec => []SlotsAccounted
<1>1. IInv => SlotsAccounted
  BY PollQueueAssumption DEF IInv, SlotsAccounted, Slots, TypeOK
<1> QED
  BY <1>1, Invariance, PTL

(* When PollQueue has returned on a cancelled context, no message it         *)
(* received is left undispatched, in a handler or in a delete, and every     *)
(* goroutine has run its deferred calls.                                     *)
THEOREM DrainCorrect == Spec => []DrainComplete
<1>1. IInv => DrainComplete
  BY DEF IInv, DrainComplete, Control, Held
<1> QED
  BY <1>1, Invariance, PTL

(* A message is deleted from the queue only after the handler succeeded for  *)
(* the latest of its deliveries, also when an overtaken delivery of it, with *)
(* a stale receipt, is deleted by another pod.                               *)
THEOREM NoLoss == Spec => []NoSilentLoss
<1>1. IInv => NoSilentLoss
  BY DEF IInv
<1> QED
  BY <1>1, Invariance, PTL

(* No delivery is worked on by two pods or given to the handler again after  *)
(* it has an outcome, and every delivery has at most one outcome.            *)
THEOREM HandledOnce == Spec => [](DeliveryHandledOnce /\ OneOutcome)
<1>1. IInv => DeliveryHandledOnce
  BY DEF IInv, DeliveryHandledOnce, Receipted, Exclusive, Held
<1>2. IInv => OneOutcome
  BY DEF IInv
<1> QED
  BY <1>1, <1>2, Invariance, PTL

-----------------------------------------------------------------------------
(* The refinement of AtLeastOnce. *)

LEMMA InitRefines == Init => Promise!Init
  BY DEF Init, Promise!Init, promised

LEMMA StepRefines == IInv /\ [Next]_vars => [Promise!Next]_(Promise!vars)
<1> SUFFICES ASSUME IInv, [Next]_vars PROVE [Promise!Next]_(Promise!vars)
  OBVIOUS
<1> USE PollQueueAssumption DEF Promise!vars, Promise!Next
<1>t. TypeOK
  BY DEF IInv
<1>q. ASSUME UNCHANGED <<status, receives, succeeded>> PROVE UNCHANGED Promise!vars
  BY <1>q DEF promised
<1>1. ASSUME NEW p \in Pods, NEW m \in Messages, Enqueue(p, m) PROVE Promise!Submit(m)
  <2>1. PICK s \in {"queued", "dropped"} : status' = [status EXCEPT ![m] = s]
    BY <1>1 DEF Enqueue
  <2> DEFINE t == IF s = "queued" THEN "pending" ELSE "dropped"
  <2>2. promised' = [promised EXCEPT ![m] = t]
    BY <2>1, <1>t DEF promised, TypeOK
  <2>3. promised[m] = "unsent" /\ UNCHANGED <<receives, succeeded>>
    BY <1>1 DEF Enqueue, promised, resultVars
  <2> QED
    BY <2>2, <2>3 DEF Promise!Submit
<1>2. ASSUME NEW m \in Messages, DeadLetter(m) PROVE Promise!GiveUp(m)
  <2>1. promised' = [promised EXCEPT ![m] = "dead"] /\ promised[m] = "pending"
    BY <1>2, <1>t DEF promised, DeadLetter, TypeOK
  <2> QED
    BY <1>2, <2>1 DEF Promise!GiveUp, DeadLetter, resultVars
<1>3. ASSUME NEW p \in Pods, NEW S \in SUBSET Messages, Receive(p, S) \/ ReceiveError(p, S)
      PROVE  Promise!Try(S)
  <2>1. HandOut(S) /\ UNCHANGED succeeded
    BY <1>3 DEF Receive, ReceiveError, resultVars
  <2>2. promised' = promised /\ \A m \in S : promised[m] = "pending"
    BY <2>1 DEF promised, HandOut, Receivable
  <2> QED
    BY <2>1, <2>2 DEF Promise!Try, HandOut, Receivable
<1>4. ASSUME NEW p \in Pods, NEW d \in Deliveries, HandlerOk(p, d)
      PROVE  Promise!Win(d.msg, d.rcpt)
  <2>1. d.msg \in Messages /\ d.rcpt \in Receipts
    BY DEF Deliveries
  <2>2. d.rcpt \in (1 .. receives[d.msg]) \ succeeded[d.msg]
    BY <1>4, <2>1, <1>t DEF IInv, Receipted, Held, HandlerOk, Receipts, TypeOK
  <2>3. promised' = promised
    BY <1>4 DEF HandlerOk, queueVars, promised
  <2> QED
    BY <1>4, <2>2, <2>3 DEF Promise!Win, HandlerOk, queueVars
<1>5. ASSUME NEW p \in Pods, NEW d \in Deliveries, DeleteServed(p, d)
      PROVE  Promise!Complete(d.msg) \/ UNCHANGED Promise!vars
  <2>1. d.msg \in Messages /\ d.rcpt \in succeeded[d.msg]
    BY <1>5 DEF Deliveries, DeleteServed, IInv, Receipted
  <2>2. UNCHANGED <<receives, succeeded>>
    BY <1>5 DEF DeleteServed, resultVars
  <2>3. CASE status[d.msg] = "queued" /\ d.rcpt = receives[d.msg]
    <3>1. promised' = [promised EXCEPT ![d.msg] = "done"] /\ promised[d.msg] = "pending"
      BY <1>5, <2>1, <2>3, <1>t DEF promised, DeleteServed, TypeOK
    <3> QED
      BY <2>1, <2>2, <2>3, <3>1 DEF Promise!Complete
  <2> QED
    BY <1>5, <2>2, <2>3, <1>q DEF DeleteServed
<1>6. CASE \E p \in Pods : Start(p) \/ Terminate(p) \/ Die(p)
  BY <1>6, <1>q DEF Start, Terminate, Die, queueVars, resultVars
<1>7. ASSUME NEW p \in Pods, Loop(p) PROVE [Promise!Next]_(Promise!vars)
  <2>1. CASE CheckContext(p) \/ Backoff(p) \/ BatchDone(p) \/ Drained(p)
    BY <2>1, <1>q DEF CheckContext, Backoff, BatchDone, Drained, queueVars, resultVars
  <2>2. CASE Acquire(p) \/ \E d \in Deliveries : Dispatch(p, d)
    BY <2>2, <1>q DEF Acquire, Dispatch, queueVars, resultVars
  <2> QED
    BY <1>7, <2>1, <2>2, <1>3 DEF Loop
<1>8. ASSUME NEW p \in Pods, NEW d \in Deliveries, HandlerError(p, d) \/ DeleteFails(p, d)
      PROVE  UNCHANGED Promise!vars
  BY <1>8, <1>q DEF HandlerError, DeleteFails, queueVars, resultVars
<1>9. ASSUME NEW m \in Messages, VisibilityTimeout(m) PROVE UNCHANGED Promise!vars
  BY <1>9, <1>q DEF VisibilityTimeout, resultVars
<1>10. ASSUME NEW d \in Deliveries PROVE d.msg \in Messages /\ d.rcpt \in 1 .. MaxReceiveCount
  BY DEF Deliveries, Receipts
<1>11. CASE UNCHANGED vars
  BY <1>11, <1>q DEF vars, queueVars, resultVars
<1>12. CASE \E p \in Pods : Handler(p)
  BY <1>12, <1>4, <1>8, <1>10 DEF Handler
<1>13. CASE \E p \in Pods : Delete(p)
  BY <1>13, <1>5, <1>8, <1>10 DEF Delete
<1>14. CASE \E m \in Messages : Service(m)
  BY <1>14, <1>2, <1>9 DEF Service
<1>15. CASE \E p \in Pods : Deferred(p)
  BY <1>15, <1>q DEF Deferred, FreeSlot, Done, queueVars, resultVars
<1> QED
  BY <1>1, <1>6, <1>7, <1>11, <1>12, <1>13, <1>14, <1>15 DEF Next, Frame

(* The queue, its producers and its consumers implement the promise of       *)
(* AtLeastOnce: at most MaxReceiveCount tries, and a message leaves the      *)
(* queue only completed by its latest try or out of tries.                   *)
THEOREM Refinement == Spec => ImplementsAtLeastOnce
<1>1. Init => Promise!Init
  BY InitRefines
<1>2. IInv /\ [Next]_vars => [Promise!Next]_(Promise!vars)
  BY StepRefines
<1> QED
  BY <1>1, <1>2, Invariance, PTL DEF Spec, ImplementsAtLeastOnce, Promise!Spec

-----------------------------------------------------------------------------
(* EmailDelivery: the handler is replaced by the post to the AI service.     *)

EmailType ==
  /\ posted \subseteq Deliveries /\ inbox \subseteq posted
  /\ reply \in [Deliveries -> {"none", "sent", "notSent", "error"}]
  /\ mailed \in [Messages -> SUBSET Receipts]
  /\ astray \subseteq Deliveries

(* A request is served once, its answer says what became of the mail, and    *)
(* the handler takes it at its word.                                         *)
Served ==
  \A d \in Deliveries :
    /\ d \in inbox \/ d \notin posted => reply[d] = "none"
    /\ reply[d] = "sent" => d.rcpt \in mailed[d.msg]
    /\ d.rcpt \in succeeded[d.msg] => reply[d] \in {"sent", "notSent"}

(* Only deliveries that were made are posted and mailed. *)
Issued ==
  /\ \A d \in posted : d.rcpt <= receives[d.msg]
  /\ \A m \in Messages : mailed[m] \subseteq 1 .. receives[m]

(* Delivery i of m needs no more explanation for what follows it. *)
Ended(m, i) == i \in failed[m] \/ [msg |-> m, rcpt |-> i] \in astray

(* A message is delivered again only when all its deliveries so far have     *)
(* failed or gone astray.                                                    *)
TriedOf(m) ==
  /\ \A i \in 1 .. receives[m] : i < receives[m] => Ended(m, i)
  /\ \/ receives[m] = 0
     \/ Ended(m, receives[m])
     \/ ~visible[m] /\ (status[m] = "deleted" \/ (status[m] = "queued" /\ LatestHeld(m)))
  /\ status[m] = "unsent" => receives[m] = 0
  /\ status[m] = "dlq" => \A i \in Receipts : Ended(m, i)

Tried == \A m \in Messages : TriedOf(m)

EmailInv == IInv /\ EmailType /\ Served /\ Issued /\ Tried

(* Every step of EmailDelivery is a step of PollQueue or leaves it alone. *)
LEMMA EmailStepIsQueueStep == [EmailNext]_allVars => [Next]_vars
<1> SUFFICES ASSUME [EmailNext]_allVars PROVE [Next]_vars
  OBVIOUS
<1>1. CASE Frame
  BY <1>1 DEF Next
<1>2. ASSUME NEW p \in Pods, NEW m \in Messages, NotifyManagerEmail(p, m) PROVE [Next]_vars
  BY <1>2 DEF NotifyManagerEmail, Next
<1>3. ASSUME NEW p \in Pods, NEW d \in Deliveries, Answered(p, d) \/ ClientError(p, d)
      PROVE  [Next]_vars
  BY <1>3 DEF Answered, ClientError, Next, Handler
<1>4. ASSUME NEW p \in Pods, NEW d \in Deliveries, Post(p, d) PROVE [Next]_vars
  BY <1>4 DEF Post
<1>5. CASE UNCHANGED allVars
  BY <1>5 DEF allVars
<1>6. ASSUME NEW d \in Deliveries, SendEmail(d) PROVE [Next]_vars
  BY <1>6 DEF SendEmail
<1> QED
  BY <1>1, <1>2, <1>3, <1>4, <1>5, <1>6 DEF EmailNext

(* Frame leaves the outcomes alone, and receipts are only ever added. *)
LEMMA FrameFacts ==
  ASSUME IInv, Frame
  PROVE  /\ UNCHANGED resultVars
         /\ \A m \in Messages : receives[m] <= receives'[m]
<1> USE DEF IInv, TypeOK
<1>1. \A m \in Messages : receives[m] \in Nat /\ receives[m] <= receives[m]
  OBVIOUS
<1>2. ASSUME NEW p \in Pods, Start(p) \/ Terminate(p) \/ Die(p) \/ Delete(p)
      PROVE  UNCHANGED <<resultVars, receives>>
  BY <1>2 DEF Start, Terminate, Die, Delete, DeleteServed, DeleteFails, queueVars
<1>3. ASSUME NEW p \in Pods, NEW S \in SUBSET Messages, Receive(p, S) \/ ReceiveError(p, S)
      PROVE  UNCHANGED resultVars /\ \A m \in Messages : receives[m] <= receives'[m]
  BY <1>3, HandOutFacts DEF Receive, ReceiveError
<1>4. ASSUME NEW p \in Pods,
             CheckContext(p) \/ Backoff(p) \/ BatchDone(p) \/ Drained(p)
               \/ \E d \in Deliveries : Dispatch(p, d)
      PROVE  UNCHANGED <<resultVars, receives>>
  BY <1>4 DEF CheckContext, Backoff, BatchDone, Drained, Dispatch, queueVars
<1>5. ASSUME NEW m \in Messages, Service(m) PROVE UNCHANGED <<resultVars, receives>>
  BY <1>5 DEF Service, VisibilityTimeout, DeadLetter
<1>6. ASSUME NEW p \in Pods, Acquire(p) \/ Deferred(p) PROVE UNCHANGED <<resultVars, receives>>
  BY <1>6 DEF Acquire, Deferred, FreeSlot, Done, queueVars
<1> QED
  BY <1>1, <1>2, <1>3, <1>4, <1>5, <1>6 DEF Frame, Loop

LEMMA ServedStep ==
  ASSUME EmailInv, [EmailNext]_allVars
  PROVE  EmailType' /\ Served' /\ Issued'
<1> USE DEF EmailInv, IInv, TypeOK, EmailType, Served, Issued
<1>0. \A m \in Messages : receives[m] \in Nat
  OBVIOUS
<1>1. CASE /\ Frame /\ astray' = astray \cup Strayed
           /\ UNCHANGED <<skipped, posted, inbox, reply, mailed>>
  <2>1. \A m \in Messages : receives[m] \in Nat /\ receives'[m] \in Nat /\ receives[m] <= receives'[m]
    BY <1>1, FrameFacts, NextInv DEF Next
  <2>2. succeeded' = succeeded
    BY <1>1, FrameFacts DEF resultVars
  <2>3. Issued'
    <3>1. ASSUME NEW d \in posted' PROVE d.rcpt <= receives'[d.msg]
      <4>1. d \in posted /\ d.msg \in Messages /\ d.rcpt \in Nat
        BY <1>1, <3>1 DEF Deliveries, Receipts
      <4> QED
        BY <2>1, <4>1
    <3>2. ASSUME NEW m \in Messages PROVE mailed'[m] \subseteq 1 .. receives'[m]
      <4>1. mailed'[m] \subseteq 1 .. receives[m]
        BY <1>1, <3>2
      <4> QED
        BY <2>1, <4>1
    <3> QED
      BY <3>1, <3>2
  <2> QED
    BY <1>1, <2>2, <2>3 DEF Strayed
<1>2. ASSUME NEW p \in Pods, NEW m \in Messages, NotifyManagerEmail(p, m)
      PROVE  EmailType' /\ Served' /\ Issued'
  BY <1>2 DEF NotifyManagerEmail, Enqueue, emailVars, vars, queueVars, resultVars
<1>3. ASSUME NEW p \in Pods, NEW d \in Deliveries, Post(p, d)
      PROVE  EmailType' /\ Served' /\ Issued'
  <2>1. d.rcpt <= receives[d.msg]
    BY <1>3 DEF Post, Receipted, Held
  <2> QED
    BY <1>3, <2>1 DEF Post, vars, queueVars, resultVars
<1>4. ASSUME NEW p \in Pods, NEW d \in Deliveries, Answered(p, d) \/ ClientError(p, d)
      PROVE  EmailType' /\ Served' /\ Issued'
  <2>1. UNCHANGED emailVars /\ UNCHANGED receives
    BY <1>4 DEF Answered, ClientError, HandlerOk, HandlerError, queueVars
  <2>2. ASSUME NEW e \in Deliveries, e.rcpt \in succeeded'[e.msg]
        PROVE  reply[e] \in {"sent", "notSent"}
    <3>1. CASE succeeded' = succeeded
      BY <2>2, <3>1
    <3>2. CASE HandlerOk(p, d) /\ reply[d] \in Accepted
      <4>1. e.rcpt \in succeeded[e.msg] \/ (e.msg = d.msg /\ e.rcpt = d.rcpt)
        BY <2>2, <3>2 DEF HandlerOk, Deliveries
      <4> QED
        BY <3>2, <4>1, SameDelivery DEF Accepted
    <3> QED
      BY <1>4, <3>1, <3>2 DEF Answered, ClientError, HandlerError
  <2> QED
    BY <2>1, <2>2 DEF emailVars
<1>5. ASSUME NEW d \in Deliveries, SendEmail(d)
      PROVE  EmailType' /\ Served' /\ Issued'
  <2>0. d.msg \in Messages /\ d.rcpt \in Receipts /\ d.rcpt <= receives[d.msg] /\ d.rcpt \in Nat
    BY <1>5 DEF SendEmail, Deliveries, Receipts
  <2>1. PICK o \in Outcomes :
          /\ reply' = [reply EXCEPT ![d] = o.answer]
          /\ mailed' = IF o.mail THEN [mailed EXCEPT ![d.msg] = @ \cup {d.rcpt}] ELSE mailed
    BY <1>5 DEF SendEmail
  <2>2. /\ UNCHANGED <<posted, succeeded, receives, astray>> /\ inbox' = inbox \ {d} /\ d \in inbox
    BY <1>5 DEF SendEmail, vars, queueVars, resultVars
  <2>3. /\ o.answer \in {"sent", "notSent", "error"} /\ (o.answer = "sent" => o.mail)
    BY DEF Outcomes
  <2>4. \A m \in Messages : /\ mailed[m] \subseteq mailed'[m]
                            /\ mailed'[m] \subseteq mailed[m] \cup {d.rcpt}
                            /\ m # d.msg => mailed'[m] = mailed[m]
    BY <2>0, <2>1
  <2>5. EmailType'
    BY <2>0, <2>1, <2>2, <2>3
  <2>6. Issued'
    <3>1. \A e \in posted' : e.rcpt <= receives'[e.msg]
      BY <2>2
    <3>2. \A m \in Messages : mailed'[m] \subseteq 1 .. receives'[m]
      BY <2>0, <2>2, <2>4 DEF Receipts
    <3> QED
      BY <3>1, <3>2
  <2>7. Served'
    <3> SUFFICES ASSUME NEW e \in Deliveries
                 PROVE  /\ e \in inbox' \/ e \notin posted' => reply'[e] = "none"
                        /\ reply'[e] = "sent" => e.rcpt \in mailed'[e.msg]
                        /\ e.rcpt \in succeeded'[e.msg] => reply'[e] \in {"sent", "notSent"}
      OBVIOUS
    <3>1. CASE e = d
      BY <2>0, <2>1, <2>2, <2>3, <3>1
    <3>2. CASE e # d
      <4>1. reply'[e] = reply[e]
        BY <2>1, <3>2
      <4> QED
        BY <2>2, <2>4, <3>2, <4>1 DEF Deliveries
    <3> QED BY <3>1, <3>2
  <2> QED BY <2>5, <2>6, <2>7
<1>6. CASE UNCHANGED allVars
  BY <1>6 DEF allVars, emailVars, vars, queueVars, resultVars
<1> QED
  BY <1>1, <1>2, <1>3, <1>4, <1>5, <1>6 DEF EmailNext

(* Deliveries that stay where they are, and outcomes that are only added.    *)
LEMMA TriedKept ==
  ASSUME NEW m \in Messages, TriedOf(m),
         receives'[m] = receives[m], visible'[m] = visible[m], status'[m] = status[m],
         failed[m] \subseteq failed'[m], astray \subseteq astray',
         LatestHeld(m) => LatestHeld(m)' \/ Ended(m, receives[m])'
  PROVE  TriedOf(m)'
  BY DEF TriedOf, Ended

(* What is in the hands of a pod does not change. *)
LEMMA HeldKept ==
  ASSUME NEW m \in Messages, receives'[m] = receives[m],
         \A p \in Pods : Held(p) \subseteq Held(p)', LatestHeld(m)
  PROVE  LatestHeld(m)'
  BY DEF LatestHeld

(* The steps of the consumers and of the queue service. *)
LEMMA TriedFrame ==
  ASSUME EmailInv, Frame, astray' = astray \cup Strayed, NEW m \in Messages, TriedOf(m)
  PROVE  TriedOf(m)'
<1> USE PollQueueAssumption DEF EmailInv, IInv, TypeOK
<1> DEFINE d == [msg |-> m, rcpt |-> receives[m]]
<1>0. receives[m] \in Nat /\ (LatestHeld(m) => d \in Deliveries)
  BY DEF LatestHeld, Held
<1>1. ASSUME UNCHANGED <<queueVars, resultVars>>, \A p \in Pods : Held(p) \subseteq Held(p)'
      PROVE  TriedOf(m)'
  BY <1>1, TriedKept, HeldKept DEF queueVars, resultVars
<1>2. ASSUME NEW p \in Pods,
             \/ Start(p) \/ Terminate(p) \/ CheckContext(p) \/ Backoff(p)
             \/ Acquire(p) \/ BatchDone(p) \/ Drained(p) \/ Deferred(p)
      PROVE  TriedOf(m)'
  BY <1>1, <1>2 DEF Start, Terminate, CheckContext, Backoff, Acquire, BatchDone, Drained,
                    Deferred, FreeSlot, Done, workVars, Held
<1>3. ASSUME NEW p \in Pods, Die(p)
      PROVE  TriedOf(m)'
  <2>1. UNCHANGED <<queueVars, resultVars>> /\ \A q \in Pods \ {p} : Held(q)' = Held(q)
    BY <1>3 DEF Die, Held
  <2>2. CASE d \in Held(p)
    <3>1. d \in Strayed
      BY <1>3, <2>2, <1>0 DEF Strayed, Die, LatestHeld
    <3> QED
      BY <2>1, <3>1, TriedKept DEF queueVars, resultVars, Ended
  <2>3. CASE d \notin Held(p)
    <3>1. LatestHeld(m) => LatestHeld(m)'
      BY <2>1, <2>3 DEF LatestHeld, queueVars
    <3> QED
      BY <2>1, <3>1, TriedKept DEF queueVars, resultVars
  <2> QED
    BY <2>2, <2>3
<1>4. ASSUME NEW p \in Pods, NEW e \in Deliveries, Dispatch(p, e)
      PROVE  TriedOf(m)'
  <2>1. \A q \in Pods : Held(q) \subseteq Held(q)'
    BY <1>4 DEF Dispatch, Held
  <2> QED
    BY <1>1, <1>4, <2>1 DEF Dispatch
<1>5. ASSUME NEW p \in Pods, NEW S \in SUBSET Messages, Receive(p, S) \/ ReceiveError(p, S)
      PROVE  TriedOf(m)'
  <2>0. /\ UNCHANGED <<resultVars, status>>
        /\ receives'[m] = IF m \in S THEN receives[m] + 1 ELSE receives[m]
        /\ visible'[m] = (visible[m] /\ m \notin S)
        /\ m \in S => Receivable(m)
    BY <1>5 DEF Receive, ReceiveError, HandOut
  <2>1. CASE m \notin S
    <3>1. \A q \in Pods : Held(q) \subseteq Held(q)'
      BY <1>5 DEF Receive, ReceiveError, Held, Control, workVars
    <3> QED
      BY <2>0, <2>1, <3>1, TriedKept, HeldKept DEF resultVars
  <2>2. CASE m \in S
    <3>0. status[m] = "queued" /\ visible[m] /\ receives[m] < MaxReceiveCount
      BY <2>0, <2>2 DEF Receivable
    <3>1. /\ receives[m] = 0 \/ Ended(m, receives[m])
          /\ status[m] = "queued" /\ receives'[m] = receives[m] + 1
          /\ receives'[m] \in Receipts /\ ~visible'[m] /\ UNCHANGED <<status, failed>>
      <4>1. receives[m] = 0 \/ Ended(m, receives[m])
        BY <3>0 DEF TriedOf
      <4>2. receives'[m] = receives[m] + 1 /\ receives'[m] \in Receipts
        BY <1>0, <2>0, <2>2, <3>0 DEF Receipts
      <4>3. ~visible'[m] /\ UNCHANGED <<status, failed>>
        BY <2>0, <2>2 DEF resultVars
      <4> QED
        BY <3>0, <4>1, <4>2, <4>3
    <3>2. \A i \in 1 .. receives'[m] : i < receives'[m] => Ended(m, i)'
      <4> SUFFICES ASSUME NEW i \in 1 .. receives'[m], i < receives'[m]
                   PROVE  Ended(m, i)
        BY <3>1 DEF Ended
      <4>1. i \in 1 .. receives[m] /\ (i < receives[m] \/ i = receives[m])
        BY <1>0, <3>1
      <4> QED
        BY <1>0, <3>1, <4>1 DEF TriedOf
    <3>3. LatestHeld(m)' \/ Ended(m, receives[m])'
      <4> SUFFICES ASSUME ~LatestHeld(m)'
                   PROVE  Ended(m, receives[m])'
        OBVIOUS
      <4> DEFINE e == [msg |-> m, rcpt |-> receives'[m]]
      <4>1. e \in Deliveries /\ receives'[m] > receives[m]
        BY <1>0, <3>1 DEF Deliveries
      <4>2. e \in Strayed
        BY <4>1 DEF Strayed
      <4> QED
        BY <4>2 DEF Ended
    <3> QED
      BY <3>1, <3>2, <3>3 DEF TriedOf
  <2> QED
    BY <2>1, <2>2
<1>6. ASSUME NEW p \in Pods, NEW e \in Deliveries, DeleteServed(p, e) \/ DeleteFails(p, e)
      PROVE  TriedOf(m)'
  <2>1. /\ UNCHANGED <<visible, receives, resultVars>>
        /\ e \in deleting[p] \ deleting'[p]
        /\ status'[m] = status[m]
             \/ (m = e.msg /\ status[m] = "queued" /\ e.rcpt = receives[m] /\ status'[m] = "deleted")
        /\ \A q \in Pods : Held(q) \ {e} \subseteq Held(q)'
    BY <1>6 DEF DeleteServed, DeleteFails, queueVars, Held, Deliveries
  <2>2. CASE status'[m] # status[m]
    BY <2>1, <2>2 DEF TriedOf, Ended, resultVars
  <2>3. CASE status'[m] = status[m] /\ m = e.msg /\ e.rcpt = receives[m]
    <3>1. e = d
      BY <2>3 DEF Deliveries
    <3>2. status'[m] # "deleted" => Ended(m, receives[m])'
      BY <2>1, <2>3, <3>1 DEF Strayed, Ended
    <3>3. CASE status[m] = "deleted"
      BY <2>1, <2>3, <3>3 DEF TriedOf, Ended, resultVars
    <3> QED
      BY <2>1, <2>3, <3>2, <3>3, TriedKept DEF resultVars
  <2>4. CASE status'[m] = status[m] /\ ~(m = e.msg /\ e.rcpt = receives[m])
    <3>1. LatestHeld(m) => LatestHeld(m)'
      BY <2>1, <2>4 DEF LatestHeld
    <3> QED
      BY <2>1, <2>4, <3>1, TriedKept DEF resultVars
  <2> QED
    BY <2>2, <2>3, <2>4
<1>8. ASSUME NEW n \in Messages, VisibilityTimeout(n)
      PROVE  TriedOf(m)'
  <2>1. CASE n # m
    BY <1>8, <2>1, TriedKept, HeldKept DEF VisibilityTimeout, resultVars, workVars, Held
  <2>2. CASE n = m
    <3>1. /\ UNCHANGED <<status, receives, resultVars>>
          /\ status[m] = "queued" /\ ~visible[m] /\ visible'[m]
      BY <1>8, <2>2 DEF VisibilityTimeout
    <3>2. LatestHeld(m) => d \in Strayed
      BY <1>0, <3>1 DEF Strayed
    <3>3. receives[m] = 0 \/ Ended(m, receives[m])'
      BY <3>1, <3>2 DEF TriedOf, Ended, resultVars
    <3> QED
      BY <3>1, <3>3 DEF TriedOf, Ended, resultVars
  <2> QED
    BY <2>1, <2>2
<1>9. ASSUME NEW n \in Messages, DeadLetter(n)
      PROVE  TriedOf(m)'
  <2>1. CASE n # m
    BY <1>9, <2>1, TriedKept, HeldKept DEF DeadLetter, resultVars, workVars, Held
  <2>2. CASE n = m
    <3>1. /\ visible[m] /\ receives[m] = MaxReceiveCount /\ status'[m] = "dlq"
          /\ UNCHANGED <<resultVars, receives, visible>>
      BY <1>9, <2>2 DEF DeadLetter
    <3>2. \A i \in Receipts : Ended(m, i)
      BY <3>1 DEF TriedOf, Receipts
    <3>3. \A i : Ended(m, i) => Ended(m, i)'
      BY <3>1 DEF Ended, resultVars
    <3>4. \A i \in 1 .. receives'[m] : i \in Receipts
      BY <3>1 DEF Receipts
    <3>5. receives'[m] = 0 \/ Ended(m, receives[m])'
      BY <3>1, <3>2, <3>3 DEF Receipts
    <3> QED
      BY <3>1, <3>2, <3>3, <3>4, <3>5 DEF TriedOf
  <2> QED
    BY <2>1, <2>2
<1> QED
  BY <1>2, <1>3, <1>4, <1>5, <1>6, <1>8, <1>9 DEF Frame, Loop, Delete, Service

(* The other steps: a request is enqueued once, and a handler that returned  *)
(* an error leaves a failed delivery behind.                                 *)
LEMMA TriedStep == ASSUME EmailInv, [EmailNext]_allVars PROVE Tried'
<1> USE PollQueueAssumption DEF EmailInv, IInv, TypeOK
<1> SUFFICES ASSUME NEW m \in Messages PROVE TriedOf(m)'
  BY DEF Tried
<1>1. TriedOf(m)
  BY DEF Tried
<1>2. CASE Frame /\ astray' = astray \cup Strayed
  BY <1>1, <1>2, TriedFrame
<1>3. CASE UNCHANGED <<vars, astray>>
  BY <1>1, <1>3, TriedKept, HeldKept DEF vars, queueVars, resultVars, workVars, Held
<1>4. ASSUME NEW p \in Pods, NEW n \in Messages, Enqueue(p, n), UNCHANGED astray
      PROVE  TriedOf(m)'
  <2>1. CASE n # m
    BY <1>1, <1>4, <2>1, TriedKept, HeldKept DEF Enqueue, resultVars, workVars, Held
  <2>2. CASE n = m
    BY <1>1, <1>4, <2>2 DEF Enqueue, resultVars, TriedOf, Ended
  <2> QED
    BY <2>1, <2>2
<1>5. ASSUME NEW p \in Pods, NEW d \in Deliveries, HandlerOk(p, d), UNCHANGED astray
      PROVE  TriedOf(m)'
  <2>1. \A q \in Pods : Held(q) \subseteq Held(q)'
    BY <1>5 DEF HandlerOk, Held
  <2> QED
    BY <1>1, <1>5, <2>1, TriedKept, HeldKept DEF HandlerOk, queueVars
<1>6. ASSUME NEW p \in Pods, NEW d \in Deliveries, HandlerError(p, d), UNCHANGED astray
      PROVE  TriedOf(m)'
  <2>1. /\ UNCHANGED queueVars
        /\ \A q \in Pods : Held(q) \ {d} \subseteq Held(q)'
        /\ failed[m] \subseteq failed'[m] /\ d.rcpt \in failed'[d.msg]
        /\ failed'[m] \subseteq Receipts
    BY <1>6 DEF HandlerError, Held, Deliveries
  <2>2. CASE m = d.msg /\ d.rcpt = receives[m]
    BY <1>1, <1>6, <2>1, <2>2, TriedKept DEF queueVars, Ended
  <2>3. CASE ~(m = d.msg /\ d.rcpt = receives[m])
    <3>1. LatestHeld(m) => LatestHeld(m)'
      BY <2>1, <2>3 DEF LatestHeld, queueVars
    <3> QED
      BY <1>1, <1>6, <2>1, <3>1, TriedKept DEF queueVars
  <2> QED
    BY <2>2, <2>3
<1>7. EmailNext \/ UNCHANGED allVars
  OBVIOUS
<1> QED
  BY <1>2, <1>3, <1>4, <1>5, <1>6, <1>7
     DEF EmailNext, NotifyManagerEmail, Post, Answered, ClientError, SendEmail, allVars, emailVars

LEMMA EmailInitInv == EmailInit => EmailInv
<1> SUFFICES ASSUME EmailInit PROVE EmailInv
  OBVIOUS
<1>1. IInv
  BY InitInv DEF EmailInit
<1>2. EmailType /\ Served /\ Issued
  BY DEF EmailInit, Init, EmailType, Served, Issued, Deliveries
<1>3. Tried
  BY DEF EmailInit, Init, Tried, TriedOf
<1> QED
  BY <1>1, <1>2, <1>3 DEF EmailInv

(* The inductive invariant of the email queue holds of every reachable       *)
(* state: with either service dying at any step, with late answers, and      *)
(* whatever the mail server does.                                            *)
THEOREM EmailInvariance == EmailSpec => []EmailInv
<1>1. EmailInv /\ [EmailNext]_allVars => EmailInv'
  BY ServedStep, TriedStep, EmailStepIsQueueStep, NextInv DEF EmailInv
<1> QED
  BY <1>1, EmailInitInv, PTL DEF EmailSpec

(* An email that left the queue was mailed, or the AI service answered that  *)
(* it did not send it (sendEmail's 200 with sent = false).                   *)
THEOREM LostIfNotSent == EmailSpec => []LostOnlyIfNotSent
<1>1. ASSUME EmailInv PROVE LostOnlyIfNotSent
  <2> SUFFICES ASSUME NEW m \in Messages, status[m] = "deleted",
                      \A i \in succeeded[m] : reply[[msg |-> m, rcpt |-> i]] # "notSent"
               PROVE  mailed[m] # {}
    BY DEF LostOnlyIfNotSent
  <2> DEFINE d == [msg |-> m, rcpt |-> receives[m]]
  <2>1. receives[m] \in succeeded[m] /\ receives[m] \in Receipts
    BY <1>1 DEF EmailInv, IInv, NoSilentLoss, TypeOK
  <2>2. d \in Deliveries
    BY <2>1 DEF Deliveries
  <2>3. reply[d] = "sent"
    BY <1>1, <2>1, <2>2 DEF EmailInv, Served
  <2> QED
    BY <1>1, <2>2, <2>3 DEF EmailInv, Served
<1> QED
  BY <1>1, EmailInvariance, PTL

(* A manager gets the mail of one change again only after a delivery that    *)
(* failed or went astray, with any visibility timeout, failing calls, and    *)
(* pods that stop or die.                                                    *)
THEOREM SecondMail == EmailSpec => []SecondMailExplained
<1>1. ASSUME EmailInv PROVE SecondMailExplained
  <2> SUFFICES ASSUME NEW m \in Messages, NEW i \in mailed[m], NEW j \in mailed[m], i < j
               PROVE  Ended(m, i)
    BY DEF SecondMailExplained, Ended
  <2>1. mailed[m] \subseteq 1 .. receives[m] /\ receives[m] \in Nat /\ TriedOf(m)
    BY <1>1 DEF EmailInv, IInv, TypeOK, Issued, Tried
  <2>2. i \in 1 .. receives[m] /\ i < receives[m]
    BY <2>1
  <2> QED
    BY <2>1, <2>2 DEF TriedOf
<1> QED
  BY <1>1, EmailInvariance, PTL

(* A dead letter of the email queue failed in its handler or went astray at  *)
(* each of its deliveries: no try is withheld from a message.                *)
THEOREM DeadLetterTried == EmailSpec => []DeadLetterExplained
<1>1. EmailInv => DeadLetterExplained
  BY DEF EmailInv, Tried, TriedOf, Ended, DeadLetterExplained
<1> QED
  BY <1>1, EmailInvariance, PTL

(* EmailDelivery is a PollQueue whose handler is spelled out: its steps are  *)
(* steps of the queue, or leave the queue alone.                             *)
THEOREM EmailIsPollQueue == EmailSpec => Init /\ [][Next]_vars
<1>1. EmailInit => Init
  BY DEF EmailInit
<1> QED
  BY <1>1, EmailStepIsQueueStep, PTL DEF EmailSpec

(* So the mail of a change has the promise of AtLeastOnce, whatever the AI   *)
(* service and the mail server answer.                                       *)
THEOREM EmailRefinement == EmailSpec => ImplementsAtLeastOnce
<1>1. EmailInit => Promise!Init
  BY InitRefines DEF EmailInit
<1>2. EmailInv /\ [EmailNext]_allVars => [Promise!Next]_(Promise!vars)
  <2> SUFFICES ASSUME EmailInv, [EmailNext]_allVars PROVE [Promise!Next]_(Promise!vars)
    OBVIOUS
  <2>1. IInv
    BY DEF EmailInv
  <2>2. [Next]_vars
    BY EmailStepIsQueueStep
  <2> QED
    BY <2>1, <2>2, StepRefines
<1> QED
  BY <1>1, <1>2, EmailInvariance, PTL DEF EmailSpec, ImplementsAtLeastOnce, Promise!Spec
==============================================================================
