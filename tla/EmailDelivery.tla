---------------------------- MODULE EmailDelivery ----------------------------
(***************************************************************************)
(* The email queue end to end.  A tracked change reaches NotifyManagerEmail *)
(* (handlers/auto_analyze.go), which enqueues it if the manager's rule is   *)
(* enabled; PollQueue hands each delivery to processEmailMessage            *)
(* (handlers/sqs_consumers.go), which posts it to the AI service with a     *)
(* 15-second timeout; send_email there (main.py, email_notifier.py) talks   *)
(* to the mail server synchronously on the event loop, so that requests are *)
(* served one after the other, the abandoned ones included.                 *)
(*                                                                          *)
(* The handler of PollQueue is replaced by these steps; everything else of  *)
(* PollQueue is taken over.  A message is one change.                       *)
(***************************************************************************)
EXTENDS PollQueue

VARIABLES
  skipped,   \* changes for which no email was enqueued, by rule
  posted,    \* deliveries whose HTTP request has been sent
  inbox,     \* requests the AI service has not served yet
  reply,     \* what it answered to each delivery
  mailed,    \* the receipts of each message for which the mail server took a mail
  astray     \* history: deliveries that went wrong without an error of their handler

emailVars == <<skipped, posted, inbox, reply, mailed, astray>>
allVars   == <<vars, emailVars>>

EmailInit ==
  /\ Init
  /\ skipped = {}
  /\ posted = {}
  /\ inbox = {}
  /\ reply = [d \in Deliveries |-> "none"]
  /\ mailed = [m \in Messages |-> {}]
  /\ astray = {}

(* The rule of the manager for this type of change is looked up: absent,     *)
(* disabled or unreadable, no email is enqueued.                             *)
NotifyManagerEmail(p, m) ==
  /\ m \notin skipped
  /\ \/ Enqueue(p, m) /\ UNCHANGED emailVars
     \/ /\ pc[p] \notin {"off", "down"}
        /\ status[m] = "unsent"
        /\ skipped' = skipped \cup {m}
        /\ UNCHANGED <<vars, posted, inbox, reply, mailed, astray>>

(* processEmailMessage posts the request. *)
Post(p, d) ==
  /\ d \in handling[p] \ posted
  /\ posted' = posted \cup {d}
  /\ inbox' = inbox \cup {d}
  /\ UNCHANGED <<vars, skipped, reply, mailed, astray>>

(* send_email.  A mail that could not be sent (mail server not configured,   *)
(* unreachable or refusing, manager not found) is answered 200 with          *)
(* sent = false.  A failing database lookup is a 500, and a service that     *)
(* dies breaks the connection, before or after the mail went out.            *)
Outcomes == {[answer |-> "sent",    mail |-> TRUE],
             [answer |-> "notSent", mail |-> FALSE],
             [answer |-> "error",   mail |-> FALSE],
             [answer |-> "error",   mail |-> TRUE]}

SendEmail(d) ==
  /\ d \in inbox
  /\ inbox' = inbox \ {d}
  /\ \E o \in Outcomes :
       /\ reply' = [reply EXCEPT ![d] = o.answer]
       /\ mailed' = IF o.mail THEN [mailed EXCEPT ![d.msg] = @ \cup {d.rcpt}] ELSE mailed
  /\ UNCHANGED <<vars, skipped, posted, astray>>

(* Mutation of Accepted: the status code is not looked at. *)
AcceptedAny == {"sent", "notSent", "error"}

(* The answers that make processEmailMessage return nil: any status below 500. *)
Accepted == {"sent", "notSent"}

(* processEmailMessage returns on an answer ... *)
Answered(p, d) ==
  /\ d \in handling[p]
  /\ reply[d] # "none"
  /\ IF reply[d] \in Accepted THEN HandlerOk(p, d) ELSE HandlerError(p, d)
  /\ UNCHANGED emailVars

(* ... or without one: the connection was refused, or the client timed out   *)
(* and leaves its request behind in the service.                             *)
ClientError(p, d) ==
  /\ d \in handling[p]
  /\ reply[d] = "none"
  /\ HandlerError(p, d)
  /\ UNCHANGED emailVars

(* The deliveries this step of the queue leads astray, one line for each way *)
(* it can happen: the visibility timeout ends while a pod still works on it; *)
(* the reply of the receive is lost; the pod dies; the delete fails.         *)
Strayed ==
  LET latest(d) == d.rcpt = receives'[d.msg] IN
  {d \in Deliveries :
     \/ latest(d) /\ LatestHeld(d.msg) /\ visible'[d.msg] /\ ~visible[d.msg]
     \/ latest(d) /\ receives'[d.msg] > receives[d.msg] /\ ~LatestHeld(d.msg)'
     \/ \E p \in Pods : d \in Held(p) /\ pc[p] # "down" /\ pc'[p] = "down"
     \/ \E p \in Pods : d \in deleting[p] \ deleting'[p] /\ status'[d.msg] # "deleted"}

EmailNext ==
  \/ Frame /\ astray' = astray \cup Strayed /\ UNCHANGED <<skipped, posted, inbox, reply, mailed>>
  \/ \E p \in Pods : \/ \E m \in Messages : NotifyManagerEmail(p, m)
                     \/ \E d \in Deliveries : Post(p, d) \/ Answered(p, d) \/ ClientError(p, d)
  \/ \E d \in Deliveries : SendEmail(d)

EmailSpec == EmailInit /\ [][EmailNext]_allVars

-----------------------------------------------------------------------------
(* Properties *)

(* The mail of a delivery goes out again only if that delivery failed (the   *)
(* timeout raced the late success, or the answer was an error although the   *)
(* mail went out) or went astray: it was overtaken while it waited for a     *)
(* slot or was handled, its pod died, or its delete failed.  Once a handler  *)
(* succeeded and its delete was served, no second mail follows.              *)
SecondMailExplained ==
  \A m \in Messages : \A i, j \in mailed[m] :
    i < j => i \in failed[m] \/ [msg |-> m, rcpt |-> i] \in astray

(* The only way to lose an accepted email from the queue is the service      *)
(* answering that it did not send it; timeouts, crashes of either service    *)
(* and redeliveries never do.                                                *)
LostOnlyIfNotSent ==
  \A m \in Messages : status[m] = "deleted" =>
    mailed[m] # {} \/ \E i \in succeeded[m] : reply[[msg |-> m, rcpt |-> i]] = "notSent"

(* A message becomes a dead letter only when each of its MaxReceiveCount     *)
(* deliveries failed in its handler or went astray.                          *)
DeadLetterExplained ==
  \A m \in Messages : status[m] = "dlq" =>
    \A i \in Receipts : i \in failed[m] \/ [msg |-> m, rcpt |-> i] \in astray
==============================================================================
