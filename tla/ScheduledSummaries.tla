------------------------- MODULE ScheduledSummaries -------------------------
(* The scheduled summaries of changed hiring requests: scheduled_summarize   *)
(* of src/ai-service/main.py, with detect_changes, summarize_changes and     *)
(* send_manager_notification. Every process of the AI service runs the loop; *)
(* a rolling update runs two of them on one database.                        *)
EXTENDS Naturals, Sequences

CONSTANTS Services,  \* the processes of the AI service
          Changes,   \* the records of changed fields, which come without a summary
          Request,   \* the hiring request of each
          Category,  \* the category of each hiring request
          Managed    \* the categories with a sourcing manager

ScheduledSummariesAssumption == \A c \in Changes : Request[c] \in DOMAIN Category
ASSUME ScheduledSummariesAssumption

VARIABLES log,        \* the changes, in the order of createdAt
          aged,       \* how many of them are older than 24 hours
          deleted,    \* the hiring requests that were deleted
          summary,    \* the changes whose summary is not NULL
          pc,         \* where the loop of each process stands
          todo,       \* what it has detected and not dealt with, its batch included
          told,       \* how many mails that went out tell of a change
          overlapped, \* history: those detected while another round had them
          unsent      \* history: those whose mail failed after the commit

database == <<log, aged, deleted, summary>>
history == <<overlapped, unsent>>
vars == <<database, pc, todo, told, history>>

Logged == {log[i] : i \in DOMAIN log}
gone == {c \in Logged : Request[c] \in deleted}
Old == {log[i] : i \in 1..aged}

(* Mutation of Unsummarized: a summary is not looked at. *)
Recent == Logged \ (Old \cup gone)

Unsummarized == Logged \ (Old \cup gone \cup summary)

CategoryOf(c) == Category[Request[c]]

(* detect_changes orders the rows from the newest, and the categories of its *)
(* answer stand in the order in which they first occur.                      *)
Newest(S) == {log[i] : i \in {j \in DOMAIN log :
                /\ log[j] \in S
                /\ \A k \in DOMAIN log : log[k] \in S => k <= j}}
Batch(p) == {c \in todo[p] : \E d \in Newest(todo[p]) : CategoryOf(c) = CategoryOf(d)}

Init ==
  /\ log = <<>> /\ aged = 0 /\ deleted = {} /\ summary = {}
  /\ pc = [p \in Services |-> "sleep"]
  /\ todo = [p \in Services |-> {}]
  /\ told = [c \in Changes |-> 0]
  /\ overlapped = {} /\ unsent = {}

------------------------------------------------------------------------------
(* The gateway: an update records a change, and a deletion removes those of  *)
(* the hiring request. A day goes by for the oldest change.                  *)
Record(c) ==
  /\ c \notin Logged /\ Request[c] \notin deleted
  /\ log' = Append(log, c)
  /\ UNCHANGED <<aged, deleted, summary, pc, todo, told, history>>

Delete(r) ==
  /\ r \notin deleted
  /\ deleted' = deleted \cup {r}
  /\ UNCHANGED <<log, aged, summary, pc, todo, told, history>>

Age ==
  /\ aged < Len(log)
  /\ aged' = aged + 1
  /\ UNCHANGED <<log, deleted, summary, pc, todo, told, history>>

------------------------------------------------------------------------------
(* One round of the loop. A round that finds nothing, or whose query fails,  *)
(* goes back to sleep.                                                       *)
Detect(p) ==
  /\ pc[p] = "sleep" /\ Unsummarized # {}
  /\ todo' = [todo EXCEPT ![p] = Unsummarized]
  /\ pc' = [pc EXCEPT ![p] = "summarize"]
  /\ overlapped' = overlapped \cup {c \in Unsummarized : \E q \in Services : c \in todo[q]}
  /\ UNCHANGED <<database, told, unsent>>

Summarized(p) ==
  /\ pc[p] = "summarize"
  /\ pc' = [pc EXCEPT ![p] = "store"]
  /\ UNCHANGED <<database, todo, told, history>>

(* Mutation of Proceed: the round ends after its first category. *)
ProceedOnce(p) ==
  /\ todo' = [todo EXCEPT ![p] = {}]
  /\ pc' = [pc EXCEPT ![p] = "sleep"]

(* The next category, or the end of the round.                               *)
Proceed(p) ==
  /\ todo' = [todo EXCEPT ![p] = @ \ Batch(p)]
  /\ pc' = [pc EXCEPT ![p] = IF todo[p] = Batch(p) THEN "sleep" ELSE "summarize"]

(* Mutations of Stamp: the changes of all categories get the summary, or the *)
(* transaction is not committed. *)
StampAll(p) == summary' = summary \cup (todo[p] \ gone)
StampUncommitted(p) == UNCHANGED summary

(* One transaction writes the summary to each change of the batch that still *)
(* exists and looks the manager up.                                          *)
HasManager(p) == \E c \in Batch(p) : CategoryOf(c) \in Managed
Stamp(p) == summary' = summary \cup (Batch(p) \ gone)

Store(p) ==
  /\ pc[p] = "store"
  /\ Stamp(p)
  /\ IF HasManager(p) THEN pc' = [pc EXCEPT ![p] = "mail"] /\ UNCHANGED todo
                      ELSE Proceed(p)
  /\ UNCHANGED <<log, aged, deleted, told, history>>

(* The mail goes out or it does not. The code looks at no result.            *)
Mail(p, sent) ==
  /\ pc[p] = "mail"
  /\ told' = [c \in Changes |-> IF sent /\ c \in Batch(p) THEN told[c] + 1 ELSE told[c]]
  /\ unsent' = IF sent THEN unsent ELSE unsent \cup Batch(p)
  /\ Proceed(p)
  /\ UNCHANGED <<database, overlapped>>

------------------------------------------------------------------------------
(* An exception ends the round for the batch and all categories after it:    *)
(* the language model or the database fails, or the lookup of the address    *)
(* for a mail. So does the end of the process. A summary that is stored is   *)
(* not mailed then.                                                          *)
GiveUp(p, state) ==
  /\ pc' = [pc EXCEPT ![p] = state]
  /\ todo' = [todo EXCEPT ![p] = {}]
  /\ unsent' = IF pc[p] = "mail" THEN unsent \cup Batch(p) ELSE unsent
  /\ UNCHANGED <<overlapped, told>>

Fail(p) ==
  /\ pc[p] \in {"summarize", "store", "mail"}
  /\ GiveUp(p, "sleep")
  /\ UNCHANGED database

(* The commit takes effect and its answer is lost.                           *)
CommitUnanswered(p) ==
  /\ pc[p] = "store"
  /\ Stamp(p)
  /\ pc' = [pc EXCEPT ![p] = "sleep"]
  /\ todo' = [todo EXCEPT ![p] = {}]
  /\ unsent' = unsent \cup Batch(p)
  /\ UNCHANGED <<log, aged, deleted, overlapped, told>>

Crash(p) ==
  /\ pc[p] # "down"
  /\ GiveUp(p, "down")
  /\ UNCHANGED database

(* The deployment starts the process again, and start_schedulers its loop.   *)
Start(p) ==
  /\ pc[p] = "down"
  /\ pc' = [pc EXCEPT ![p] = "sleep"]
  /\ UNCHANGED <<database, todo, told, history>>

Next ==
  \/ \E c \in Changes : Record(c)
  \/ \E r \in DOMAIN Category : Delete(r)
  \/ Age
  \/ \E p \in Services :
       \/ Detect(p) \/ Summarized(p) \/ Store(p) \/ Fail(p)
       \/ CommitUnanswered(p) \/ Crash(p) \/ Start(p)
       \/ \E sent \in BOOLEAN : Mail(p, sent)

Spec == Init /\ [][Next]_vars

(* The loop goes on, the deployment restarts what died, and the language     *)
(* model and the database do not fail for ever.                              *)
Fairness ==
  \A p \in Services :
    /\ WF_vars(Start(p)) /\ WF_vars(\E sent \in BOOLEAN : Mail(p, sent))
    /\ SF_vars(Detect(p)) /\ SF_vars(Summarized(p)) /\ SF_vars(Store(p))
FairSpec == Spec /\ Fairness

------------------------------------------------------------------------------
TypeOK ==
  /\ log \in Seq(Changes) /\ aged \in 0..Len(log)
  /\ deleted \subseteq DOMAIN Category /\ summary \subseteq Changes
  /\ pc \in [Services -> {"sleep", "summarize", "store", "mail", "down"}]
  /\ todo \in [Services -> SUBSET Changes]
  /\ told \in [Changes -> Nat]
  /\ overlapped \subseteq Changes /\ unsent \subseteq Changes

(* A manager is told of a change once, unless the rounds of two processes    *)
(* had it at the same time: nothing claims a change before it is summarized  *)
(* (detect_changes, the UPDATE of scheduled_summarize).                      *)
ToldOnce == \A c \in Changes : told[c] <= 1 \/ c \in overlapped

(* A change with a summary has been told to its manager or is about to be,   *)
(* unless its mail failed or the process ended after the commit: nothing     *)
(* tries again (send_manager_notification after conn.commit).                *)
SummaryIsTold ==
  \A c \in summary : CategoryOf(c) \in Managed =>
    \/ told[c] > 0 \/ c \in unsent
    \/ \E p \in Services : pc[p] = "mail" /\ c \in Batch(p)

(* A round lets go of a change only when it has a summary or is deleted, or  *)
(* when the round ends early, be it for another category (the try around the *)
(* loop over the categories).                                                *)
EndsEarly(p) == Fail(p) \/ CommitUnanswered(p) \/ Crash(p)
RoundKeepsWhatItFound ==
  [][\A p \in Services : \A c \in todo[p] \ todo'[p] :
       c \in (summary \cup gone)' \/ EndsEarly(p)]_vars

(* Every change gets a summary, is deleted or grows too old to be detected.  *)
EverySummaryComes ==
  \A c \in Changes : c \in Logged ~> c \in summary \cup gone \cup Old
=============================================================================
