---------------------- MODULE ScheduledSummariesProofs ----------------------
(* What the scheduled summaries promise, for any number of processes,        *)
(* changes, hiring requests and categories.                                  *)
EXTENDS ScheduledSummaries, SequenceTheorems, TLAPS

(* A process that is not in a round holds no changes, and what it holds has  *)
(* been recorded.                                                            *)
Holds ==
  \A p \in Services : /\ todo[p] \subseteq Logged
                      /\ pc[p] \in {"sleep", "down"} => todo[p] = {}

(* A change in two rounds is overlapped; one in a round has not been told,   *)
(* and one that was told is never detected again.                            *)
Claimed ==
  /\ \A p, q \in Services : p # q => todo[p] \cap todo[q] \subseteq overlapped
  /\ \A p \in Services : \A c \in todo[p] : told[c] = 0 \/ c \in overlapped
  /\ \A c \in Changes : told[c] > 0 => c \in summary \cup gone \cup overlapped

(* What is about to be mailed is stored, or is no longer there.              *)
Stored == \A p \in Services : pc[p] = "mail" => Batch(p) \subseteq summary \cup gone

Inv == TypeOK /\ Holds /\ Claimed /\ Stored /\ ToldOnce /\ SummaryIsTold

(* A batch is a part of what the round holds.                                *)
LEMMA BatchIsPart == \A p \in Services : Batch(p) \subseteq todo[p]
  BY DEF Batch

(* Recording a change adds it to the changes recorded, and leaves the batch  *)
(* of a round as it is.                                                      *)
LEMMA RecordKeeps ==
  ASSUME TypeOK, Holds, NEW c \in Changes, Record(c)
  PROVE  /\ Logged' = Logged \cup {c}
         /\ gone' = gone
         /\ \A p \in Services : Batch(p)' = Batch(p)
<1>1. /\ log \in Seq(Changes) /\ log' = Append(log, c) /\ c \notin Logged
      /\ todo' = todo /\ deleted' = deleted /\ Request[c] \notin deleted
  BY DEF TypeOK, Record
<1>2. /\ DOMAIN log = 1..Len(log) /\ DOMAIN log' = 1..(Len(log) + 1)
      /\ Len(log) \in Nat
      /\ \A i \in 1..Len(log) : log'[i] = log[i]
      /\ log'[Len(log) + 1] = c
  BY <1>1
<1>3. Logged' = Logged \cup {c}
  BY <1>2 DEF Logged
<1>4. gone' = gone
  BY <1>1, <1>3 DEF gone
<1>5. ASSUME NEW p \in Services
      PROVE  Newest(todo[p])' = Newest(todo[p])
  <2>1. c \notin todo[p]
    BY <1>1 DEF Holds
  <2>2. \A i \in DOMAIN log' : log'[i] \in todo[p] => i \in DOMAIN log /\ log[i] = log'[i]
    BY <2>1, <1>2
  <2>3. \A i \in DOMAIN log : i \in DOMAIN log' /\ log'[i] = log[i]
    BY <1>2
  <2> QED BY <2>2, <2>3, <1>1 DEF Newest
<1>6. \A p \in Services : Batch(p)' = Batch(p)
  BY <1>1, <1>5 DEF Batch, CategoryOf
<1> QED BY <1>3, <1>4, <1>6

(* If neither the log nor what a round holds changes, nor does its batch.    *)
LEMMA BatchKept ==
  ASSUME NEW p \in Services, log' = log, todo'[p] = todo[p]
  PROVE  Batch(p)' = Batch(p)
BY DEF Batch, Newest, CategoryOf

LEMMA TypeInit == Init => TypeOK
BY DEF Init, TypeOK

LEMMA TypeStep == TypeOK /\ Holds /\ [Next]_vars => TypeOK'
<1> SUFFICES ASSUME TypeOK, Holds, [Next]_vars PROVE TypeOK'
  OBVIOUS
<1> USE DEF TypeOK
<1>0. Logged \subseteq Changes
  BY DEF Logged
<1>1. CASE \E c \in Changes : Record(c)
  BY <1>1 DEF Record, history
<1>2. CASE \E r \in DOMAIN Category : Delete(r)
  BY <1>2 DEF Delete, history
<1>3. CASE Age
  BY <1>3 DEF Age, history
<1>4. ASSUME NEW p \in Services, Detect(p) PROVE TypeOK'
  <2>1. Unsummarized \subseteq Changes
    BY <1>0 DEF Unsummarized
  <2> QED BY <1>4, <2>1 DEF Detect, database
<1>5. ASSUME NEW p \in Services, Summarized(p) PROVE TypeOK'
  BY <1>5 DEF Summarized, database, history
<1>6. ASSUME NEW p \in Services, Store(p) PROVE TypeOK'
  BY <1>6, BatchIsPart DEF Store, Stamp, Proceed, history
<1>7. ASSUME NEW p \in Services, Fail(p) \/ Crash(p) PROVE TypeOK'
  BY <1>7, BatchIsPart DEF Fail, Crash, GiveUp, database
<1>8. ASSUME NEW p \in Services, CommitUnanswered(p) PROVE TypeOK'
  BY <1>8, BatchIsPart DEF CommitUnanswered, Stamp
<1>9. ASSUME NEW p \in Services, Start(p) PROVE TypeOK'
  BY <1>9 DEF Start, database, history
<1>10. ASSUME NEW p \in Services, NEW sent \in BOOLEAN, Mail(p, sent) PROVE TypeOK'
  <2>1. told' \in [Changes -> Nat]
    BY <1>10 DEF Mail
  <2>2. unsent' \subseteq Changes
    BY <1>10, BatchIsPart DEF Mail
  <2> QED BY <1>10, <2>1, <2>2 DEF Mail, Proceed, database
<1>11. CASE UNCHANGED vars
  BY <1>11 DEF vars, database, history
<1> QED BY <1>1, <1>2, <1>3, <1>4, <1>5, <1>6, <1>7, <1>8, <1>9, <1>10, <1>11 DEF Next

(* What the gateway and the passing of time may do: add to the log or to the *)
(* deleted requests, and leave everything else.                              *)
LEMMA OutsideStep ==
  ASSUME Inv, /\ Logged \subseteq Logged' /\ gone \subseteq gone'
              /\ UNCHANGED <<summary, pc, todo, told, history>>,
         \A p \in Services : Batch(p)' = Batch(p)
  PROVE  Holds' /\ Claimed' /\ Stored' /\ ToldOnce' /\ SummaryIsTold'
<1>1. Holds'
  BY DEF Inv, Holds
<1>2. Claimed'
  BY DEF Inv, Claimed, history
<1>3. Stored'
  BY DEF Inv, Stored
<1>4. ToldOnce'
  BY DEF Inv, ToldOnce, history
<1>5. SummaryIsTold'
  BY DEF Inv, SummaryIsTold, history, CategoryOf
<1> QED BY <1>1, <1>2, <1>3, <1>4, <1>5

(* A step of a process that writes no summary, sends no mail, and makes one  *)
(* round smaller or stop: what it had stored and not mailed is unsent.       *)
LEMMA EndStep ==
  ASSUME Inv, NEW p \in Services, NEW state \in {"sleep", "down"},
         GiveUp(p, state), UNCHANGED database
  PROVE  Holds' /\ Claimed' /\ Stored' /\ ToldOnce' /\ SummaryIsTold'
<1> USE DEF GiveUp, database
<1>0. /\ Logged' = Logged /\ gone' = gone
      /\ todo' = [todo EXCEPT ![p] = {}] /\ pc' = [pc EXCEPT ![p] = state]
      /\ \A q \in Services \ {p} : todo'[q] = todo[q] /\ pc'[q] = pc[q] /\ Batch(q)' = Batch(q)
      /\ todo'[p] = {} /\ pc'[p] = state
  BY BatchKept DEF Logged, gone, Inv, TypeOK
<1>1. Holds'
  BY <1>0 DEF Inv, Holds
<1>2. Claimed'
  BY <1>0 DEF Inv, Claimed
<1>3. Stored'
  BY <1>0 DEF Inv, Stored
<1>4. ToldOnce'
  BY DEF Inv, ToldOnce
<1>5. SummaryIsTold'
  <2> SUFFICES ASSUME NEW c \in summary, CategoryOf(c) \in Managed, ~(told[c] > 0), c \notin unsent'
               PROVE  \E q \in Services : pc'[q] = "mail" /\ c \in Batch(q)'
    BY DEF SummaryIsTold, CategoryOf
  <2>1. PICK q \in Services : pc[q] = "mail" /\ c \in Batch(q)
    BY DEF Inv, SummaryIsTold
  <2>2. q # p
    BY <2>1
  <2> QED BY <2>1, <2>2, <1>0
<1> QED BY <1>1, <1>2, <1>3, <1>4, <1>5

(* The transaction of a batch: its summaries are written, and the round      *)
(* stays with the batch, goes on without it or ends, having told the unsent  *)
(* of its changes if a manager was due to hear of them.                      *)
LEMMA StampStep ==
  ASSUME Inv, NEW p \in Services, pc[p] = "store", Stamp(p),
         UNCHANGED <<log, aged, deleted, overlapped, told>>,
         unsent \subseteq unsent',
         todo' = [todo EXCEPT ![p] = todo'[p]], pc' = [pc EXCEPT ![p] = pc'[p]],
         todo'[p] \subseteq todo[p],
         pc'[p] \in {"sleep", "down"} => todo'[p] = {},
         pc'[p] = "mail" => todo'[p] = todo[p],
         \/ pc'[p] = "mail"
         \/ Batch(p) \subseteq unsent'
         \/ \A c \in Batch(p) : CategoryOf(c) \notin Managed
  PROVE  Holds' /\ Claimed' /\ Stored' /\ ToldOnce' /\ SummaryIsTold'
<1>0. /\ Logged' = Logged /\ gone' = gone /\ summary' = summary \cup (Batch(p) \ gone)
      /\ \A q \in Services \ {p} : todo'[q] = todo[q] /\ pc'[q] = pc[q] /\ Batch(q)' = Batch(q)
      /\ pc'[p] = "mail" => Batch(p)' = Batch(p)
  BY BatchKept DEF Logged, gone, Inv, TypeOK, Stamp
<1>1. Holds'
  BY <1>0 DEF Inv, Holds
<1>2. Claimed'
  BY <1>0 DEF Inv, Claimed
<1>3. Stored'
  BY <1>0 DEF Inv, Stored
<1>4. ToldOnce'
  BY DEF Inv, ToldOnce
<1>5. SummaryIsTold'
  <2> SUFFICES ASSUME NEW c \in summary', CategoryOf(c) \in Managed, ~(told[c] > 0), c \notin unsent'
               PROVE  \E q \in Services : pc'[q] = "mail" /\ c \in Batch(q)'
    BY DEF SummaryIsTold, CategoryOf
  <2>1. CASE c \in Batch(p)
    BY <2>1, <1>0
  <2>2. CASE c \notin Batch(p)
    <3>1. PICK q \in Services : pc[q] = "mail" /\ c \in Batch(q)
      BY <2>2, <1>0 DEF Inv, SummaryIsTold
    <3> QED BY <3>1, <1>0
  <2> QED BY <2>1, <2>2
<1> QED BY <1>1, <1>2, <1>3, <1>4, <1>5

(* A round begins with the changes that have no summary: none of them has    *)
(* been told, unless another round has overlapped with the one that did.     *)
LEMMA DetectStep ==
  ASSUME Inv, NEW p \in Services, Detect(p)
  PROVE  Holds' /\ Claimed' /\ Stored' /\ ToldOnce' /\ SummaryIsTold'
<1> USE DEF Detect, database
<1>0. /\ Logged' = Logged /\ gone' = gone
      /\ \A q \in Services \ {p} : todo'[q] = todo[q] /\ pc'[q] = pc[q] /\ Batch(q)' = Batch(q)
      /\ todo'[p] = Unsummarized /\ pc'[p] = "summarize"
  BY BatchKept DEF Logged, gone, Inv, TypeOK
<1>1. Holds'
  BY <1>0 DEF Inv, Holds, Unsummarized
<1>2. Claimed'
  <2>1. \A q, r \in Services : q # r => todo'[q] \cap todo'[r] \subseteq overlapped'
    BY <1>0 DEF Inv, Claimed
  <2>2. \A c \in Unsummarized : c \in Changes /\ (told[c] = 0 \/ c \in overlapped)
    BY DEF Inv, Claimed, TypeOK, Unsummarized, Logged
  <2> QED BY <1>0, <2>1, <2>2 DEF Inv, Claimed
<1>3. Stored'
  BY <1>0 DEF Inv, Stored
<1>4. ToldOnce'
  BY DEF Inv, ToldOnce
<1>5. SummaryIsTold'
  BY <1>0 DEF Inv, SummaryIsTold, CategoryOf
<1> QED BY <1>1, <1>2, <1>3, <1>4, <1>5

(* A mail tells of changes that have not been told and are stored, and the   *)
(* round goes on without them.                                               *)
LEMMA MailStep ==
  ASSUME Inv, NEW p \in Services, NEW sent \in BOOLEAN, Mail(p, sent)
  PROVE  Holds' /\ Claimed' /\ Stored' /\ ToldOnce' /\ SummaryIsTold'
<1> USE DEF Mail, Proceed, database
<1>0. /\ Logged' = Logged /\ gone' = gone
      /\ \A q \in Services \ {p} : todo'[q] = todo[q] /\ pc'[q] = pc[q] /\ Batch(q)' = Batch(q)
      /\ todo'[p] = todo[p] \ Batch(p)
      /\ pc'[p] = IF todo[p] = Batch(p) THEN "sleep" ELSE "summarize"
  BY BatchKept DEF Logged, gone, Inv, TypeOK
<1>a. Batch(p) \subseteq todo[p] /\ Batch(p) \subseteq Changes /\ Batch(p) \subseteq summary \cup gone
  BY BatchIsPart DEF Inv, TypeOK, Stored
<1>b. \A c \in Changes : /\ told[c] \in Nat
                         /\ c \in Batch(p) => told'[c] \in {told[c], told[c] + 1}
                         /\ c \notin Batch(p) => told'[c] = told[c]
  BY DEF Inv, TypeOK
<1>1. Holds'
  BY <1>0, <1>a DEF Inv, Holds
<1>2. Claimed'
  <2>1. \A q, r \in Services : q # r => todo'[q] \cap todo'[r] \subseteq overlapped
    BY <1>0 DEF Inv, Claimed
  <2>2. ASSUME NEW q \in Services, NEW c \in todo'[q] PROVE told'[c] = 0 \/ c \in overlapped
    <3>1. c \in todo[q] /\ c \in Changes
      BY <1>0 DEF Inv, TypeOK
    <3>2. c \in Batch(p) => q # p
      BY <1>0
    <3>3. c \in Batch(p) => c \in overlapped
      BY <3>1, <3>2, <1>a DEF Inv, Claimed
    <3> QED BY <3>1, <3>3, <1>b DEF Inv, Claimed
  <2>3. ASSUME NEW c \in Changes, told'[c] > 0 PROVE c \in summary \cup gone \cup overlapped
    BY <2>3, <1>a, <1>b DEF Inv, Claimed
  <2> QED BY <2>1, <2>2, <2>3, <1>0 DEF Claimed
<1>3. Stored'
  BY <1>0 DEF Inv, Stored
<1>4. ToldOnce'
  <2> SUFFICES ASSUME NEW c \in Changes, c \notin overlapped PROVE told'[c] <= 1
    BY DEF ToldOnce
  <2>1. c \in Batch(p) => told[c] = 0
    BY <1>a DEF Inv, Claimed
  <2>2. told[c] <= 1
    BY DEF Inv, ToldOnce
  <2> QED BY <2>1, <2>2, <1>b
<1>5. SummaryIsTold'
  <2> SUFFICES ASSUME NEW c \in summary, CategoryOf(c) \in Managed, c \notin unsent', ~(told'[c] > 0)
               PROVE  \E q \in Services : pc'[q] = "mail" /\ c \in Batch(q)'
    BY DEF SummaryIsTold, CategoryOf
  <2>0. c \in Changes
    BY DEF Inv, TypeOK
  <2>n. told[c] \in Nat /\ told[c] + 1 > 0
    <3> HIDE DEF Mail, Proceed, database
    <3>1. told[c] \in Nat
      BY <2>0 DEF Inv, TypeOK
    <3> QED BY <3>1
  <2>1. c \notin Batch(p)
    <3> SUFFICES ASSUME c \in Batch(p) PROVE FALSE
      OBVIOUS
    <3>1. CASE sent
      <4>1. told'[c] = told[c] + 1
        BY <2>0, <3>1
      <4> HIDE DEF Mail, Proceed, database
      <4> QED BY <4>1, <2>n
    <3>2. CASE ~sent
      BY <3>2
    <3> QED BY <3>1, <3>2
  <2>2. ~(told[c] > 0)
    BY <2>0, <2>1, <1>b
  <2>3. PICK q \in Services : pc[q] = "mail" /\ c \in Batch(q)
    BY <2>2 DEF Inv, SummaryIsTold
  <2> QED BY <2>1, <2>3, <1>0
<1> QED BY <1>1, <1>2, <1>3, <1>4, <1>5

(* A step that only moves a process that holds no mail.                      *)
LEMMA QuietStep ==
  ASSUME Inv, NEW p \in Services, Summarized(p) \/ Start(p)
  PROVE  Holds' /\ Claimed' /\ Stored' /\ ToldOnce' /\ SummaryIsTold'
<1> USE DEF Summarized, Start, database, history
<1>0. /\ Logged' = Logged /\ gone' = gone /\ todo' = todo
      /\ \A q \in Services \ {p} : pc'[q] = pc[q]
      /\ pc[p] \in {"summarize", "down"} /\ pc'[p] \in {"store", "sleep"}
      /\ pc'[p] = "sleep" => pc[p] = "down"
      /\ \A q \in Services : Batch(q)' = Batch(q)
  BY BatchKept DEF Logged, gone, Inv, TypeOK
<1>1. Holds'
  BY <1>0 DEF Inv, Holds
<1>2. Claimed'
  BY <1>0 DEF Inv, Claimed
<1>3. Stored'
  BY <1>0 DEF Inv, Stored
<1>4. ToldOnce'
  BY DEF Inv, ToldOnce
<1>5. SummaryIsTold'
  <2> SUFFICES ASSUME NEW c \in summary, CategoryOf(c) \in Managed, c \notin unsent, ~(told[c] > 0)
               PROVE  \E q \in Services : pc'[q] = "mail" /\ c \in Batch(q)'
    BY DEF SummaryIsTold, CategoryOf
  <2>1. PICK q \in Services : pc[q] = "mail" /\ c \in Batch(q)
    BY DEF Inv, SummaryIsTold
  <2> QED BY <2>1, <1>0
<1> QED BY <1>1, <1>2, <1>3, <1>4, <1>5

(* The two ways in which a transaction is committed.                         *)
LEMMA CommitStep ==
  ASSUME Inv, NEW p \in Services, Store(p) \/ CommitUnanswered(p)
  PROVE  Holds' /\ Claimed' /\ Stored' /\ ToldOnce' /\ SummaryIsTold'
<1>a. Batch(p) \subseteq todo[p]
  BY BatchIsPart
<1>t. todo \in [Services -> SUBSET Changes] /\ DOMAIN pc = Services
  BY DEF Inv, TypeOK
<1>1. CASE Store(p) /\ HasManager(p)
  <2>1. pc' = [pc EXCEPT ![p] = "mail"] /\ todo' = todo
    BY <1>1 DEF Store
  <2>2. /\ todo' = [todo EXCEPT ![p] = todo'[p]] /\ pc' = [pc EXCEPT ![p] = pc'[p]]
        /\ todo'[p] = todo[p] /\ pc'[p] = "mail"
    BY <2>1, <1>t
  <2> QED BY <1>1, <2>2, StampStep DEF Store, history
<1>2. CASE Store(p) /\ ~HasManager(p)
  <2>1. /\ todo' = [todo EXCEPT ![p] = @ \ Batch(p)]
        /\ pc' = [pc EXCEPT ![p] = IF todo[p] = Batch(p) THEN "sleep" ELSE "summarize"]
    BY <1>2 DEF Store, Proceed
  <2>2. /\ todo' = [todo EXCEPT ![p] = todo'[p]] /\ pc' = [pc EXCEPT ![p] = pc'[p]]
        /\ todo'[p] = todo[p] \ Batch(p)
        /\ pc'[p] = IF todo[p] = Batch(p) THEN "sleep" ELSE "summarize"
    BY <2>1, <1>t
  <2>3. \A c \in Batch(p) : CategoryOf(c) \notin Managed
    BY <1>2 DEF HasManager
  <2> QED BY <1>2, <2>2, <2>3, StampStep DEF Store, history
<1>3. CASE CommitUnanswered(p)
  <2>1. /\ todo' = [todo EXCEPT ![p] = todo'[p]] /\ pc' = [pc EXCEPT ![p] = pc'[p]]
        /\ todo'[p] = {} /\ pc'[p] = "sleep"
    BY <1>3, <1>t DEF CommitUnanswered
  <2> QED BY <1>3, <2>1, StampStep DEF CommitUnanswered
<1> QED BY <1>1, <1>2, <1>3

(* The inductive invariant holds in every reachable state.                   *)
THEOREM Invariance == Spec => []Inv
<1>1. Init => Inv
  <2> SUFFICES ASSUME Init PROVE Inv
    OBVIOUS
  <2>1. Holds /\ Claimed /\ Stored /\ ToldOnce /\ SummaryIsTold
    BY DEF Init, Holds, Claimed, Stored, ToldOnce, SummaryIsTold
  <2> QED BY <2>1, TypeInit DEF Inv
<1>2. Inv /\ [Next]_vars => Inv'
  <2> SUFFICES ASSUME Inv, [Next]_vars PROVE Inv'
    OBVIOUS
  <2>0. TypeOK'
    BY TypeStep DEF Inv
  <2>p. \A p \in Services : log' = log /\ todo' = todo => Batch(p)' = Batch(p)
    BY BatchKept
  <2>1. ASSUME NEW c \in Changes, Record(c) PROVE Inv'
    <3>1. Logged \subseteq Logged' /\ gone \subseteq gone' /\ \A p \in Services : Batch(p)' = Batch(p)
      BY <2>1, RecordKeeps DEF Inv
    <3> QED BY <2>0, <2>1, <3>1, OutsideStep DEF Inv, Record
  <2>2. ASSUME NEW r \in DOMAIN Category, Delete(r) PROVE Inv'
    <3>1. Logged \subseteq Logged' /\ gone \subseteq gone'
      BY <2>2 DEF Delete, Logged, gone
    <3> QED BY <2>0, <2>2, <2>p, <3>1, OutsideStep DEF Inv, Delete
  <2>3. CASE Age
    <3>1. Logged \subseteq Logged' /\ gone \subseteq gone'
      BY <2>3 DEF Age, Logged, gone
    <3> QED BY <2>0, <2>3, <2>p, <3>1, OutsideStep DEF Inv, Age
  <2>4. ASSUME NEW p \in Services, Detect(p) PROVE Inv'
    BY <2>0, <2>4, DetectStep DEF Inv
  <2>5. ASSUME NEW p \in Services, Summarized(p) \/ Start(p) PROVE Inv'
    BY <2>0, <2>5, QuietStep DEF Inv
  <2>6. ASSUME NEW p \in Services, Store(p) \/ CommitUnanswered(p) PROVE Inv'
    BY <2>0, <2>6, CommitStep DEF Inv
  <2>7. ASSUME NEW p \in Services, Fail(p) \/ Crash(p) PROVE Inv'
    BY <2>0, <2>7, EndStep DEF Inv, Fail, Crash
  <2>8. ASSUME NEW p \in Services, NEW sent \in BOOLEAN, Mail(p, sent) PROVE Inv'
    BY <2>0, <2>8, MailStep DEF Inv
  <2>9. CASE UNCHANGED vars
    <3>1. Logged \subseteq Logged' /\ gone \subseteq gone'
      BY <2>9 DEF vars, database, Logged, gone
    <3> QED BY <2>0, <2>9, <2>p, <3>1, OutsideStep DEF Inv, vars, database
  <2> QED BY <2>1, <2>2, <2>3, <2>4, <2>5, <2>6, <2>7, <2>8, <2>9 DEF Next
<1> QED BY <1>1, <1>2, PTL DEF Spec

(* Every change is told once unless two rounds had it at the same time.      *)
THEOREM NoSecondMail == Spec => []ToldOnce
<1>1. Inv => ToldOnce
  BY DEF Inv
<1> QED BY <1>1, Invariance, PTL

(* A change with a summary is told, about to be, or its mail has failed.     *)
THEOREM SummariesAreTold == Spec => []SummaryIsTold
<1>1. Inv => SummaryIsTold
  BY DEF Inv
<1> QED BY <1>1, Invariance, PTL

(* A round lets go of a change only with a summary, after its deletion, or   *)
(* when it ends early.                                                       *)
THEOREM RoundsKeepTheirChanges == Spec => RoundKeepsWhatItFound
<1> DEFINE Keeps == \A p \in Services : \A c \in todo[p] \ todo'[p] :
                      c \in (summary \cup gone)' \/ EndsEarly(p)
<1>1. Inv /\ [Next]_vars => [Keeps]_vars
  <2> SUFFICES ASSUME Inv, Next, NEW p \in Services, NEW c \in todo[p] \ todo'[p], ~EndsEarly(p)
               PROVE  c \in (summary \cup gone)'
    OBVIOUS
  <2> USE DEF Inv, TypeOK
  <2>1. ASSUME NEW d \in Changes, Record(d) PROVE FALSE
    BY <2>1 DEF Record
  <2>2. ASSUME NEW r \in DOMAIN Category, Delete(r) PROVE FALSE
    BY <2>2 DEF Delete
  <2>3. CASE Age
    BY <2>3 DEF Age
  <2>4. ASSUME NEW q \in Services, Detect(q) PROVE FALSE
    BY <2>4 DEF Detect, Holds
  <2>5. ASSUME NEW q \in Services, Summarized(q) \/ Start(q) PROVE FALSE
    BY <2>5 DEF Summarized, Start
  <2>6. ASSUME NEW q \in Services, Store(q) PROVE c \in (summary \cup gone)'
    <3>1. q = p /\ c \in Batch(p)
      BY <2>6 DEF Store, Proceed
    <3>2. gone' = gone /\ summary' = summary \cup (Batch(p) \ gone)
      BY <2>6, <3>1 DEF Store, Stamp, gone, Logged
    <3> QED BY <3>1, <3>2
  <2>7. ASSUME NEW q \in Services, Fail(q) \/ Crash(q) \/ CommitUnanswered(q) PROVE FALSE
    <3>1. q # p
      BY <2>7 DEF EndsEarly
    <3> QED BY <2>7, <3>1 DEF Fail, Crash, GiveUp, CommitUnanswered
  <2>8. ASSUME NEW q \in Services, NEW sent \in BOOLEAN, Mail(q, sent) PROVE c \in (summary \cup gone)'
    <3>1. q = p /\ c \in Batch(p) /\ pc[p] = "mail"
      BY <2>8 DEF Mail, Proceed
    <3>2. gone' = gone /\ summary' = summary
      BY <2>8 DEF Mail, database, gone, Logged
    <3> QED BY <3>1, <3>2 DEF Stored
  <2> QED BY <2>1, <2>2, <2>3, <2>4, <2>5, <2>6, <2>7, <2>8 DEF Next
<1>2. [][Keeps]_vars => RoundKeepsWhatItFound
  BY PTL DEF RoundKeepsWhatItFound
<1> QED BY <1>1, <1>2, Invariance, PTL DEF Spec
=============================================================================
