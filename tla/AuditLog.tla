------------------------------ MODULE AuditLog ------------------------------
(***************************************************************************)
(* The audit log of one gateway process (middleware/audit.go) and the order *)
(* in which main.go shuts the process down.  Every authenticated call puts  *)
(* an entry into a bounded channel after its handler has returned; a        *)
(* goroutine collects the entries and inserts them batch by batch.  On      *)
(* SIGTERM main closes the channel and waits for the goroutine, then for    *)
(* the consumers of the queues, then for the HTTP server, which serves      *)
(* until then.                                                              *)
(***************************************************************************)
EXTENDS Naturals, SequencesExt

CONSTANTS
  AuditedCalls,   \* authenticated HTTP calls
  AuditChanCapacity, \* auditChanCapacity
  BatchSize,      \* auditBatchSize
  DbFaults        \* may an INSERT fail?

ASSUME AuditLogAssumption ==
  /\ AuditChanCapacity \in Nat \ {0}
  /\ BatchSize \in Nat \ {0}
  /\ DbFaults \in BOOLEAN

VARIABLES
  call,        \* where each call is
  auditChan,   \* the entries in the channel, each named by its call
  auditClosed, \* the channel has been closed
  batch,       \* the entries the writer has taken and not inserted yet
  writer,      \* control point of the writer goroutine; "done": auditDone is closed
  main,        \* control point of main
  flushed,     \* FlushAuditLog ended before its timeout
  table,       \* the rows of AuditLog, in the order of insertion
  sent,        \* history: the entries that got into the channel, in order
  discarded    \* history: the entries lost with a failed INSERT or with the process

writerVars == <<batch, writer, table>>
mainVars   == <<main, flushed, auditClosed>>
auditVars == <<call, auditChan, writerVars, mainVars, sent, discarded>>

AuditInit ==
  /\ call = [q \in AuditedCalls |-> "none"]
  /\ auditChan = <<>> /\ auditClosed = FALSE
  /\ batch = <<>> /\ writer = "select" /\ table = <<>>
  /\ main = "serving" /\ flushed = FALSE
  /\ sent = <<>> /\ discarded = {}

-----------------------------------------------------------------------------
(* AuditMiddleware *)

(* A call arrives.  The listener is open until srv.Shutdown. *)
Begin(q) ==
  /\ main \in {"serving", "flush", "consumers"}
  /\ call[q] = "none"
  /\ call' = [call EXCEPT ![q] = "open"]
  /\ UNCHANGED <<auditChan, writerVars, mainVars, sent, discarded>>

(* The handler returns and its entry is sent without blocking.  A full       *)
(* channel drops it; a closed one panics, which RecoveryMiddleware catches,  *)
(* after the answer has been written.                                        *)
Send(q) ==
  /\ call[q] = "open"
  /\ \/ /\ ~auditClosed
        /\ Len(auditChan) < AuditChanCapacity
        /\ auditChan' = Append(auditChan, q)
        /\ sent' = Append(sent, q)
        /\ call' = [call EXCEPT ![q] = "recorded"]
     \/ /\ ~auditClosed
        /\ Len(auditChan) = AuditChanCapacity
        /\ call' = [call EXCEPT ![q] = "dropped"]
        /\ UNCHANGED <<auditChan, sent>>
     \/ /\ auditClosed
        /\ call' = [call EXCEPT ![q] = "lost"]
        /\ UNCHANGED <<auditChan, sent>>
  /\ UNCHANGED <<writerVars, mainVars, discarded>>

(* The handler panics: the code after c.AuditNext() does not run. *)
Panic(q) ==
  /\ call[q] = "open"
  /\ call' = [call EXCEPT ![q] = "panicked"]
  /\ UNCHANGED <<auditChan, writerVars, mainVars, sent, discarded>>

-----------------------------------------------------------------------------
(* The writer goroutine of startAuditWriter *)

(* An entry is received; a full batch is inserted. *)
TakeEntry ==
  /\ writer = "select"
  /\ auditChan # <<>>
  /\ batch' = Append(batch, Head(auditChan))
  /\ auditChan' = Tail(auditChan)
  /\ writer' = IF Len(batch') >= BatchSize THEN "insert" ELSE "select"
  /\ UNCHANGED <<call, table, mainVars, sent, discarded>>

(* Mutation of Ticker: a batch that is not full is not inserted. *)
TickerFull ==
  /\ writer = "select"
  /\ Len(batch) >= BatchSize
  /\ writer' = "insert"
  /\ UNCHANGED <<call, auditChan, batch, table, mainVars, sent, discarded>>

(* The ticker fires. *)
Ticker ==
  /\ writer = "select"
  /\ batch # <<>>
  /\ writer' = "insert"
  /\ UNCHANGED <<call, auditChan, batch, table, mainVars, sent, discarded>>

(* Mutation of Closed: the writer returns without its last batch. *)
ClosedAtOnce ==
  /\ writer = "select"
  /\ auditClosed /\ auditChan = <<>>
  /\ writer' = "done"
  /\ UNCHANGED <<call, auditChan, batch, table, mainVars, sent, discarded>>

(* The channel is closed, and empty. *)
Closed ==
  /\ writer = "select"
  /\ auditClosed /\ auditChan = <<>>
  /\ writer' = IF batch # <<>> THEN "insertLast" ELSE "done"
  /\ UNCHANGED <<call, auditChan, batch, table, mainVars, sent, discarded>>

AfterInsert == IF writer = "insert" THEN "select" ELSE "done"

(* Mutation of Insert: the batch is not emptied. *)
InsertKeeps ==
  /\ writer \in {"insert", "insertLast"}
  /\ table' = table \o batch
  /\ writer' = AfterInsert
  /\ UNCHANGED <<call, auditChan, batch, mainVars, sent, discarded>>

(* flushAuditBatch: one INSERT for the whole batch. *)
Insert ==
  /\ writer \in {"insert", "insertLast"}
  /\ table' = table \o batch
  /\ batch' = <<>>
  /\ writer' = AfterInsert
  /\ UNCHANGED <<call, auditChan, mainVars, sent, discarded>>

(* The INSERT fails, which is only logged: the batch is emptied all the same. *)
InsertFails ==
  /\ writer \in {"insert", "insertLast"}
  /\ DbFaults
  /\ discarded' = discarded \cup ToSet(batch)
  /\ batch' = <<>>
  /\ writer' = AfterInsert
  /\ UNCHANGED <<call, auditChan, table, mainVars, sent>>

-----------------------------------------------------------------------------
(* main *)

(* SIGTERM, and FlushAuditLog closes the channel. *)
Terminate ==
  /\ main = "serving"
  /\ main' = "flush"
  /\ auditClosed' = TRUE
  /\ UNCHANGED <<call, auditChan, writerVars, flushed, sent, discarded>>

(* Mutation of FlushEnds: main does not wait for the writer. *)
FlushAtOnce ==
  /\ main = "flush"
  /\ flushed' = TRUE
  /\ main' = "consumers"
  /\ UNCHANGED <<call, auditChan, writerVars, auditClosed, sent, discarded>>

(* The writer is done, or FlushAuditLog gives up after ten seconds. *)
FlushEnds ==
  /\ main = "flush"
  /\ flushed' \in {writer = "done", FALSE}
  /\ main' = "consumers"
  /\ UNCHANGED <<call, auditChan, writerVars, auditClosed, sent, discarded>>

(* cancel(), and consumerWg.Wait() returns; srv.Shutdown closes the listener. *)
ConsumersStopped ==
  /\ main = "consumers"
  /\ main' = "http"
  /\ UNCHANGED <<call, auditChan, writerVars, flushed, auditClosed, sent, discarded>>

(* The process is gone, with what it had in memory. *)
Gone ==
  /\ main' = "gone"
  /\ writer' = "dead"
  /\ call' = [q \in AuditedCalls |-> IF call[q] = "open" THEN "cut" ELSE call[q]]
  /\ discarded' = discarded \cup ToSet(batch) \cup ToSet(auditChan)
  /\ batch' = <<>>
  /\ auditChan' = <<>>
  /\ UNCHANGED <<table, flushed, auditClosed, sent>>

(* Mutation of HttpStopped: a shutdown without a deadline. *)
HttpDrained ==
  /\ main = "http"
  /\ \A q \in AuditedCalls : call[q] # "open"
  /\ Gone

(* srv.Shutdown returns when no call is open, or after fifteen seconds. *)
HttpStopped == main = "http" /\ Gone

(* A crash, or the end of the grace period. *)
Killed == main # "gone" /\ Gone

-----------------------------------------------------------------------------
Writer == TakeEntry \/ Ticker \/ Closed \/ Insert \/ InsertFails
Main   == Terminate \/ FlushEnds \/ ConsumersStopped \/ HttpStopped

AuditNext ==
  \/ \E q \in AuditedCalls : Begin(q) \/ Send(q) \/ Panic(q)
  \/ Writer \/ Main \/ Killed

(* The writer is scheduled, an INSERT returns, the ticker ticks; each wait   *)
(* of the shutdown is bounded, that for the consumers because they return    *)
(* (ShutdownEnds of PollQueue).  A handler need not return.                  *)
AuditFairness ==
  WF_auditVars(Writer) /\ WF_auditVars(FlushEnds \/ ConsumersStopped \/ HttpStopped)

AuditSpec == AuditInit /\ [][AuditNext]_auditVars /\ AuditFairness

-----------------------------------------------------------------------------
(* Properties *)

Entries == table \o batch \o auditChan

(* The entry of p was sent before that of q. *)
Before(p, q) == \E i, j \in DOMAIN sent : i < j /\ sent[i] = p /\ sent[j] = q

(* The entries in the table, in the batch and in the channel, in this order, *)
(* are the entries that were sent, each once and in the order they were      *)
(* sent, but for those discarded with a batch or with the process.           *)
EntriesInOrder ==
  /\ ToSet(Entries) = ToSet(sent) \ discarded
  /\ \A i, j \in DOMAIN Entries : i < j => Before(Entries[i], Entries[j])

(* When FlushAuditLog reports that the log is flushed, every entry that was  *)
(* sent is in the table or was in a batch whose INSERT failed, and no entry  *)
(* follows.                                                                  *)
FlushComplete ==
  flushed => ToSet(table) = ToSet(sent) \ discarded

(* An entry in the channel gets to an INSERT, whatever the load, unless the  *)
(* process goes first.                                                       *)
EntrySettles ==
  \A q \in AuditedCalls : call[q] = "recorded" ~> q \in ToSet(table) \cup discarded

(* A shutdown ends, also when a handler never returns. *)
GatewayExits == main = "flush" ~> main = "gone"

==============================================================================
