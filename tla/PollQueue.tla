------------------------------ MODULE PollQueue ------------------------------
(***************************************************************************)
(* One SQS queue of the gateway with its dead-letter queue, the producers  *)
(* that send to it (handlers/sqs.go) and the PollQueue loop that every     *)
(* gateway pod runs on it (handlers/sqs_consumers.go).  Two pods overlap   *)
(* during a rolling update, and a pod may be killed at any step, so the    *)
(* loop is a process per pod.                                              *)
(*                                                                         *)
(* The queue service is external: a received message is invisible until    *)
(* its visibility timeout runs out, which may happen while a pod still     *)
(* works on it; each receive issues a new receipt, and a delete is         *)
(* effective only with the latest one; a message that has been received    *)
(* MaxReceiveCount times and becomes visible again goes to the dead-letter *)
(* queue.  Any call to the service may fail.                               *)
(***************************************************************************)
EXTENDS Naturals, FiniteSets

CONSTANTS
  Messages,          \* the messages that may be sent
  Pods,              \* gateway processes, each lives at most once
  MaxConcurrency,    \* argument maxConcurrency of PollQueue
  MaxReceiveCount    \* RedrivePolicy.maxReceiveCount

ASSUME PollQueueAssumption ==
  /\ MaxConcurrency \in Nat \ {0}
  /\ MaxReceiveCount \in Nat \ {0}

VARIABLES
  \* the queue service
  status,     \* where each message is
  visible,    \* may the message be received?
  receives,   \* ApproximateReceiveCount, which also names the latest receipt
  \* what the handlers did: the receipts whose handler call returned nil, or an error
  succeeded, failed,
  \* PollQueue, per pod
  pc,         \* control point of the polling goroutine
  ctxDone,    \* ctx has been cancelled
  batch,      \* out.Messages not yet dispatched
  handling,   \* deliveries whose goroutine is inside handler(messageBody)
  deleting,   \* deliveries whose goroutine is about to call DeleteMessage
  returned,   \* goroutines that returned, before their deferred <-sem
  released,   \* goroutines after <-sem, before their deferred inFlight.Done
  sem,        \* tokens in the semaphore channel
  inFlight    \* counter of the WaitGroup

queueVars  == <<status, visible, receives>>
resultVars == <<succeeded, failed>>
workVars   == <<batch, handling, deleting, returned, released, sem, inFlight>>
vars == <<queueVars, resultVars, pc, ctxDone, workVars>>

Receipts   == 1 .. MaxReceiveCount
Deliveries == [msg : Messages, rcpt : Receipts]

Polling  == {"loop", "receive", "dispatch", "start", "backoff", "drain"}
Statuses == {"unsent", "queued", "deleted", "dlq", "dropped"}

Held(p) == batch[p] \cup handling[p] \cup deleting[p]

(* The goroutines of pod p that have not freed their slot. *)
Busy(p) == Cardinality(handling[p]) + Cardinality(deleting[p]) + returned[p]

TypeOK ==
  /\ status    \in [Messages -> Statuses]
  /\ visible   \in [Messages -> BOOLEAN]
  /\ receives  \in [Messages -> 0 .. MaxReceiveCount]
  /\ succeeded \in [Messages -> SUBSET Receipts]
  /\ failed    \in [Messages -> SUBSET Receipts]
  /\ pc        \in [Pods -> Polling \cup {"off", "noqueue", "stopped", "down"}]
  /\ ctxDone   \in [Pods -> BOOLEAN]
  /\ batch     \in [Pods -> SUBSET Deliveries]
  /\ handling  \in [Pods -> SUBSET Deliveries]
  /\ deleting  \in [Pods -> SUBSET Deliveries]
  /\ returned  \in [Pods -> Nat]
  /\ released  \in [Pods -> Nat]
  /\ sem       \in [Pods -> 0 .. MaxConcurrency]
  /\ inFlight  \in [Pods -> Nat]

Init ==
  /\ status    = [m \in Messages |-> "unsent"]
  /\ visible   = [m \in Messages |-> FALSE]
  /\ receives  = [m \in Messages |-> 0]
  /\ succeeded = [m \in Messages |-> {}]
  /\ failed    = [m \in Messages |-> {}]
  /\ pc        = [p \in Pods |-> "off"]
  /\ ctxDone   = [p \in Pods |-> FALSE]
  /\ batch     = [p \in Pods |-> {}]
  /\ handling  = [p \in Pods |-> {}]
  /\ deleting  = [p \in Pods |-> {}]
  /\ returned  = [p \in Pods |-> 0]
  /\ released  = [p \in Pods |-> 0]
  /\ sem       = [p \in Pods |-> 0]
  /\ inFlight  = [p \in Pods |-> 0]

-----------------------------------------------------------------------------
(* Producers *)

(* EnqueueEmail / EnqueueSNSPublish called in pod p: when initSQS failed or  *)
(* SendMessage fails, the error is logged and the message is gone.           *)
Enqueue(p, m) ==
  /\ pc[p] \notin {"off", "down"}
  /\ status[m] = "unsent"
  /\ \/ /\ pc[p] # "noqueue"
        /\ status'  = [status EXCEPT ![m] = "queued"]
        /\ visible' = [visible EXCEPT ![m] = TRUE]
     \/ /\ status' = [status EXCEPT ![m] = "dropped"]
        /\ UNCHANGED visible
  /\ UNCHANGED <<receives, resultVars, pc, ctxDone, workVars>>

-----------------------------------------------------------------------------
(* The queue service *)

(* The receipt in the hands of a live pod is the latest one of m. *)
LatestHeld(m) == \E p \in Pods : [msg |-> m, rcpt |-> receives[m]] \in Held(p)

(* The visibility timeout of a received message runs out: it began with the  *)
(* receive, so that waiting for a slot, the handler and the delete share it. *)
VisibilityTimeout(m) ==
  /\ status[m] = "queued"
  /\ ~visible[m]
  /\ visible' = [visible EXCEPT ![m] = TRUE]
  /\ UNCHANGED <<status, receives, resultVars, pc, ctxDone, workVars>>

(* Mutation of DeadLetter: one try too few. *)
DeadLetterEarly(m) ==
  /\ status[m] = "queued"
  /\ visible[m]
  /\ receives[m] = MaxReceiveCount - 1
  /\ status' = [status EXCEPT ![m] = "dlq"]
  /\ UNCHANGED <<visible, receives, resultVars, pc, ctxDone, workVars>>

(* The redrive policy. *)
DeadLetter(m) ==
  /\ status[m] = "queued"
  /\ visible[m]
  /\ receives[m] = MaxReceiveCount
  /\ status' = [status EXCEPT ![m] = "dlq"]
  /\ UNCHANGED <<visible, receives, resultVars, pc, ctxDone, workVars>>

Receivable(m) ==
  status[m] = "queued" /\ visible[m] /\ receives[m] < MaxReceiveCount

(* The service's side of a receive that returns the messages of S. *)
HandOut(S) ==
  /\ \A m \in S : Receivable(m)
  /\ Cardinality(S) <= MaxConcurrency
  /\ receives' = [m \in Messages |-> IF m \in S THEN receives[m] + 1 ELSE receives[m]]
  /\ visible'  = [m \in Messages |-> visible[m] /\ m \notin S]
  /\ UNCHANGED status

-----------------------------------------------------------------------------
(* A pod: start, termination signal, death *)

(* StartSQSConsumers: when initSQS fails no consumer is started, and the pod *)
(* serves requests without one until it is replaced.                         *)
Start(p) ==
  /\ pc[p] = "off"
  /\ \E c \in {"loop", "noqueue"} : pc' = [pc EXCEPT ![p] = c]
  /\ UNCHANGED <<queueVars, resultVars, ctxDone, workVars>>

(* SIGTERM: main cancels the context of the consumers and waits for them. *)
Terminate(p) ==
  /\ pc[p] \notin {"off", "down"}
  /\ ~ctxDone[p]
  /\ ctxDone' = [ctxDone EXCEPT ![p] = TRUE]
  /\ UNCHANGED <<queueVars, resultVars, pc, workVars>>

(* The process dies: a crash, the end of the grace period, or its exit. *)
Die(p) ==
  /\ pc[p] \notin {"off", "down"}
  /\ pc'       = [pc EXCEPT ![p] = "down"]
  /\ batch'    = [batch EXCEPT ![p] = {}]
  /\ handling' = [handling EXCEPT ![p] = {}]
  /\ deleting' = [deleting EXCEPT ![p] = {}]
  /\ returned' = [returned EXCEPT ![p] = 0]
  /\ released' = [released EXCEPT ![p] = 0]
  /\ sem'      = [sem EXCEPT ![p] = 0]
  /\ inFlight' = [inFlight EXCEPT ![p] = 0]
  /\ UNCHANGED <<queueVars, resultVars, ctxDone>>

-----------------------------------------------------------------------------
(* The polling goroutine of pod p *)

(* Mutation of CheckContext: the context is not looked at. *)
CheckNothing(p) ==
  /\ pc[p] = "loop"
  /\ pc' = [pc EXCEPT ![p] = "receive"]
  /\ UNCHANGED <<queueVars, resultVars, ctxDone, workVars>>

(* The select at the head of the loop. *)
CheckContext(p) ==
  /\ pc[p] = "loop"
  /\ pc' = [pc EXCEPT ![p] = IF ctxDone[p] THEN "drain" ELSE "receive"]
  /\ UNCHANGED <<queueVars, resultVars, ctxDone, workVars>>

(* ReceiveMessage returns the messages of S, none when the long poll timed out. *)
Receive(p, S) ==
  /\ pc[p] = "receive"
  /\ HandOut(S)
  /\ batch' = [batch EXCEPT ![p] = {[msg |-> m, rcpt |-> receives[m] + 1] : m \in S}]
  /\ pc' = [pc EXCEPT ![p] = "dispatch"]
  /\ UNCHANGED <<resultVars, ctxDone, handling, deleting, returned, released, sem, inFlight>>

(* ReceiveMessage returns an error, because the context was cancelled or the *)
(* call failed; the service may have handed out messages whose reply is lost. *)
ReceiveError(p, S) ==
  /\ pc[p] = "receive"
  /\ HandOut(S)
  /\ pc' = [pc EXCEPT ![p] = IF ctxDone[p] THEN "drain" ELSE "backoff"]
  /\ UNCHANGED <<resultVars, ctxDone, workVars>>

(* Mutation of Backoff: its select has lost the case of the timer. *)
BackoffForever(p) ==
  /\ pc[p] = "backoff"
  /\ ctxDone[p]
  /\ pc' = [pc EXCEPT ![p] = "drain"]
  /\ UNCHANGED <<queueVars, resultVars, ctxDone, workVars>>

(* The five-second pause after an error, cut short by the context. *)
Backoff(p) ==
  /\ pc[p] = "backoff"
  /\ pc' = [pc EXCEPT ![p] = IF ctxDone[p] THEN "drain" ELSE "loop"]
  /\ UNCHANGED <<queueVars, resultVars, ctxDone, workVars>>

(* One iteration of the loop over out.Messages: acquire a slot, which blocks *)
(* while all are taken and does not look at the context ...                  *)
Acquire(p) ==
  /\ pc[p] = "dispatch"
  /\ batch[p] # {}
  /\ sem[p] < MaxConcurrency
  /\ sem' = [sem EXCEPT ![p] = @ + 1]
  /\ pc'  = [pc EXCEPT ![p] = "start"]
  /\ UNCHANGED <<queueVars, resultVars, ctxDone, batch, handling, deleting, returned, released, inFlight>>

(* ... count the goroutine and start it. *)
Dispatch(p, d) ==
  /\ pc[p] = "start"
  /\ d \in batch[p]
  /\ inFlight' = [inFlight EXCEPT ![p] = @ + 1]
  /\ batch'    = [batch EXCEPT ![p] = @ \ {d}]
  /\ handling' = [handling EXCEPT ![p] = @ \cup {d}]
  /\ pc'       = [pc EXCEPT ![p] = "dispatch"]
  /\ UNCHANGED <<queueVars, resultVars, ctxDone, deleting, returned, released, sem>>

BatchDone(p) ==
  /\ pc[p] = "dispatch"
  /\ batch[p] = {}
  /\ pc' = [pc EXCEPT ![p] = "loop"]
  /\ UNCHANGED <<queueVars, resultVars, ctxDone, workVars>>

(* Mutation of Drained: PollQueue returns without waiting. *)
DrainedAtOnce(p) ==
  /\ pc[p] = "drain"
  /\ pc' = [pc EXCEPT ![p] = "stopped"]
  /\ UNCHANGED <<queueVars, resultVars, ctxDone, workVars>>

(* inFlight.Wait returns, and PollQueue with it. *)
Drained(p) ==
  /\ pc[p] = "drain"
  /\ inFlight[p] = 0
  /\ pc' = [pc EXCEPT ![p] = "stopped"]
  /\ UNCHANGED <<queueVars, resultVars, ctxDone, workVars>>

-----------------------------------------------------------------------------
(* A handler goroutine of pod p, for delivery d *)

(* The function returns; its deferred calls are the two actions below. *)
Return(p) == returned' = [returned EXCEPT ![p] = @ + 1]

(* Mutation of HandlerOk: the delete is forgotten. *)
HandlerOkKeeps(p, d) ==
  /\ d \in handling[p]
  /\ succeeded' = [succeeded EXCEPT ![d.msg] = @ \cup {d.rcpt}]
  /\ handling'  = [handling EXCEPT ![p] = @ \ {d}]
  /\ Return(p)
  /\ UNCHANGED <<queueVars, failed, pc, ctxDone, batch, deleting, released, sem, inFlight>>

(* handler returned nil: the message is deleted next. *)
HandlerOk(p, d) ==
  /\ d \in handling[p]
  /\ succeeded' = [succeeded EXCEPT ![d.msg] = @ \cup {d.rcpt}]
  /\ handling'  = [handling EXCEPT ![p] = @ \ {d}]
  /\ deleting'  = [deleting EXCEPT ![p] = @ \cup {d}]
  /\ UNCHANGED <<queueVars, failed, pc, ctxDone, batch, returned, released, sem, inFlight>>

(* handler returned an error: the message is left to its visibility timeout. *)
HandlerError(p, d) ==
  /\ d \in handling[p]
  /\ failed'   = [failed EXCEPT ![d.msg] = @ \cup {d.rcpt}]
  /\ handling' = [handling EXCEPT ![p] = @ \ {d}]
  /\ Return(p)
  /\ UNCHANGED <<queueVars, succeeded, pc, ctxDone, batch, deleting, released, sem, inFlight>>

(* DeleteMessage is served: a receipt that is not the latest has no effect. *)
DeleteServed(p, d) ==
  /\ d \in deleting[p]
  /\ ~ctxDone[p]
  /\ status' = IF status[d.msg] = "queued" /\ d.rcpt = receives[d.msg]
               THEN [status EXCEPT ![d.msg] = "deleted"] ELSE status
  /\ deleting' = [deleting EXCEPT ![p] = @ \ {d}]
  /\ Return(p)
  /\ UNCHANGED <<visible, receives, resultVars, pc, ctxDone, batch, handling, released, sem, inFlight>>

(* Mutation of DeleteFails: the handler is called once more. *)
DeleteFailsRetries(p, d) ==
  /\ d \in deleting[p]
  /\ deleting' = [deleting EXCEPT ![p] = @ \ {d}]
  /\ handling' = [handling EXCEPT ![p] = @ \cup {d}]
  /\ UNCHANGED <<queueVars, resultVars, pc, ctxDone, batch, returned, released, sem, inFlight>>

(* DeleteMessage fails, always once its context is cancelled; only logged. *)
DeleteFails(p, d) ==
  /\ d \in deleting[p]
  /\ deleting' = [deleting EXCEPT ![p] = @ \ {d}]
  /\ Return(p)
  /\ UNCHANGED <<queueVars, resultVars, pc, ctxDone, batch, handling, released, sem, inFlight>>

(* Mutation of FreeSlot: the slot is not given back. *)
FreeSlotLeaks(p) ==
  /\ returned[p] > 0
  /\ returned' = [returned EXCEPT ![p] = @ - 1]
  /\ released' = [released EXCEPT ![p] = @ + 1]
  /\ UNCHANGED <<queueVars, resultVars, pc, ctxDone, batch, handling, deleting, sem, inFlight>>

(* The deferred calls run in reverse order: the slot is freed, which dispatch *)
(* may take at once ...                                                      *)
FreeSlot(p) ==
  /\ returned[p] > 0
  /\ returned' = [returned EXCEPT ![p] = @ - 1]
  /\ released' = [released EXCEPT ![p] = @ + 1]
  /\ sem'      = [sem EXCEPT ![p] = @ - 1]
  /\ UNCHANGED <<queueVars, resultVars, pc, ctxDone, batch, handling, deleting, inFlight>>

(* ... and then the goroutine is counted out of the WaitGroup. *)
Done(p) ==
  /\ released[p] > 0
  /\ released' = [released EXCEPT ![p] = @ - 1]
  /\ inFlight' = [inFlight EXCEPT ![p] = @ - 1]
  /\ UNCHANGED <<queueVars, resultVars, pc, ctxDone, batch, handling, deleting, returned, sem>>

-----------------------------------------------------------------------------
Loop(p) ==
  \/ CheckContext(p)
  \/ \E S \in SUBSET Messages : Receive(p, S) \/ ReceiveError(p, S)
  \/ Backoff(p)
  \/ Acquire(p)
  \/ \E d \in Deliveries : Dispatch(p, d)
  \/ BatchDone(p)
  \/ Drained(p)

Handler(p) == \E d \in Deliveries : HandlerOk(p, d) \/ HandlerError(p, d)
Delete(p)  == \E d \in Deliveries : DeleteServed(p, d) \/ DeleteFails(p, d)
Deferred(p) == FreeSlot(p) \/ Done(p)
Service(m) == VisibilityTimeout(m) \/ DeadLetter(m)

(* Everything but the producers and the outcome of the handlers, which a     *)
(* module that models one of the three queues in detail replaces.            *)
Frame ==
  \/ \E p \in Pods : Start(p) \/ Terminate(p) \/ Die(p) \/ Loop(p) \/ Delete(p) \/ Deferred(p)
  \/ \E m \in Messages : Service(m)

Next ==
  \/ Frame
  \/ \E p \in Pods : Handler(p) \/ \E m \in Messages : Enqueue(p, m)

(* Fairness.  Goroutines are scheduled; every handler returns: the clients   *)
(* of the email and the analysis handler give up after 15 and 30 seconds,    *)
(* and for the SNS handler, whose call carries context.Background() and no   *)
(* timeout (sns.go:139), this rests on the AWS client giving up by itself;   *)
(* the service ends visibility timeouts, applies the redrive policy and does *)
(* not withhold a receivable message forever from a pod that keeps asking.   *)
(* Nothing is assumed of producers, signals or crashes.                      *)
Fairness ==
  /\ \A p \in Pods : /\ WF_vars(Loop(p)) /\ WF_vars(Handler(p)) /\ WF_vars(Delete(p))
                     /\ WF_vars(FreeSlot(p)) /\ WF_vars(Done(p))
  /\ \A m \in Messages :
       /\ WF_vars(Service(m))
       /\ SF_vars(\E p \in Pods, S \in SUBSET Messages : m \in S /\ Receive(p, S))

Spec == Init /\ [][Next]_vars /\ Fairness

-----------------------------------------------------------------------------
(* Properties *)

(* Every goroutine in a handler, in a delete or before its deferred <-sem    *)
(* holds one slot of the semaphore, and the loop one more between acquiring  *)
(* it and starting the goroutine: no path loses a slot or gives one back     *)
(* twice, and at most MaxConcurrency handlers run at once.  The WaitGroup    *)
(* counts these goroutines and those that freed their slot already, so that  *)
(* it may be above MaxConcurrency but never misses one.                      *)
SlotsAccounted ==
  \A p \in Pods :
    /\ sem[p] = Busy(p) + (IF pc[p] = "start" THEN 1 ELSE 0)
    /\ sem[p] <= MaxConcurrency
    /\ inFlight[p] = Busy(p) + released[p]

(* PollQueue returns only after every message it received has been handled   *)
(* to the end: nothing is left in the batch, in a handler or in a delete,    *)
(* and no goroutine is still in its deferred calls.                          *)
DrainComplete ==
  \A p \in Pods : pc[p] = "stopped" => Held(p) = {} /\ returned[p] + released[p] = 0

(* A message disappears from the queue only after the handler succeeded for  *)
(* the latest of its deliveries.                                             *)
NoSilentLoss ==
  \A m \in Messages : status[m] = "deleted" => receives[m] \in succeeded[m]

(* Two pods never work on the same delivery, and the handler is never called *)
(* a second time for a delivery that already has an outcome: redelivery is   *)
(* the only source of repeated handler calls.                                *)
DeliveryHandledOnce ==
  \A p \in Pods : \A d \in batch[p] \cup handling[p] :
    /\ d.rcpt \notin succeeded[d.msg] \cup failed[d.msg]
    /\ \A q \in Pods \ {p} : d \notin Held(q)

(* The outcome of the handler for a delivery is final, and each delivery has *)
(* one: a message is handled at most MaxReceiveCount times.                  *)
OneOutcome ==
  \A m \in Messages :
    /\ succeeded[m] \cap failed[m] = {}
    /\ succeeded[m] \cup failed[m] \subseteq 1 .. receives[m]

(* What the comment on PollQueue says: a message moves to the dead-letter    *)
(* queue "after maxReceiveCount (3) failures" of its handler.                *)
DeadLetterAfterFailures ==
  \A m \in Messages : status[m] = "dlq" => failed[m] = Receipts

(* A graceful shutdown ends: once the context is cancelled the consumer gets *)
(* out of the poll, the backoff and the dispatch of its batch and returns.   *)
ShutdownEnds == \A p \in Pods : ctxDone[p] ~> pc[p] \in {"noqueue", "stopped", "down"}

(* Every accepted message is deleted or dead-lettered, as long as some pod   *)
(* keeps consuming; crashes and shutdowns of other pods do not matter.       *)
Serving(p) == pc[p] \in Polling /\ ~ctxDone[p]
AcceptedSettles ==
  (\E p \in Pods : <>[]Serving(p)) =>
    \A m \in Messages : status[m] = "queued" ~> status[m] \in {"deleted", "dlq"}

(* The queue with its consumers implements the at-least-once promise. *)
promised ==
  [m \in Messages |-> IF status[m] = "queued"  THEN "pending"
                      ELSE IF status[m] = "deleted" THEN "done"
                      ELSE IF status[m] = "dlq" THEN "dead" ELSE status[m]]
Promise == INSTANCE AtLeastOnce WITH state <- promised, tries <- receives, wins <- succeeded
ImplementsAtLeastOnce == Promise!Spec
==============================================================================
