--------------------------- MODULE UploadPipeline ---------------------------
(* One upload through the AI service: run_pipeline and clean_records of      *)
(* src/ai-service/ai_agents, the endpoint that runs them, and the gateway    *)
(* that waits for the answer (src/gateway/handlers/data_upload.go).          *)
(*                                                                           *)
(* A cleaned row is named by the record the language model cleaned it from,  *)
(* and Empty stands for the empty object.                                    *)
EXTENDS Integers, SequencesExt, FiniteSetsExt

CONSTANTS N,          \* the records parsed from the file
          BatchSize,  \* BATCH_SIZE
          Invalid,    \* the records whose cleaned row does not validate
          CategoryOf, \* the category of each cleaned row
          Managed     \* the categories with a sourcing manager

ASSUME UploadPipelineAssumption ==
  /\ N \in Nat /\ BatchSize \in Nat \ {0}
  /\ Invalid \subseteq 1..N /\ DOMAIN CategoryOf = 1..N

Records == 1..N
Empty == 0

VARIABLES stage,    \* where run_pipeline stands
          answers,  \* the answers of the language model, by batch
          data,     \* cleaned_data of each record
          status,   \* status of each record
          next,     \* the record the upload loop comes to
          table,    \* the rows committed: of which record, with which data
          notices,  \* the notifications stored: category and number of rows
          progress, \* the stages the gateway has broadcast
          client,   \* what DataUpload of the gateway has got
          unsure    \* history: the records whose commit was not answered

work == <<answers, data, status, next>>
pipelineVars == <<stage, work, table, notices, progress, client, unsure>>

PipelineInit ==
  /\ stage = "parse" /\ answers = <<>> /\ next = 1
  /\ data = [r \in Records |-> Empty] /\ status = [r \in Records |-> "PENDING"]
  /\ table = <<>> /\ notices = {} /\ progress = {} /\ client = "waiting" /\ unsure = {}

(* broadcast_progress posts with these headers; the route is behind          *)
(* AuthMiddleware, which looks for a token in one of two.                    *)
Headers == {"Content-Type"}
TokenHeaders == {"Authorization", "Cookie"}
Broadcast(step) ==
  progress' = IF Headers \cap TokenHeaders = {} THEN progress ELSE progress \cup {step}

WithStatus(S) == {r \in Records : status[r] = S}

------------------------------------------------------------------------------
(* Stage 1. A file without records ends the pipeline with an empty result.   *)
Parse(found) ==
  /\ stage = "parse"
  /\ stage' = IF found THEN "clean" ELSE "none"
  /\ status' = IF found THEN [r \in Records |-> "CLEANING"] ELSE status
  /\ Broadcast(IF found THEN "cleaning" ELSE "failed")
  /\ client' = IF ~found /\ client = "waiting" THEN "200" ELSE client
  /\ UNCHANGED <<answers, data, next, table, notices, unsure>>

(* Stage 2. All batches are cleaned at once and answered in any order: as    *)
(* they should be, in another order, by an exception, by a text that is not  *)
(* JSON, without a row or with one row twice.                                *)
Batches == 1..((N + BatchSize - 1) \div BatchSize)
Batch(b) == [i \in 1..(Min({b * BatchSize, N}) - (b - 1) * BatchSize) |-> (b - 1) * BatchSize + i]
Raised(b) == [i \in DOMAIN Batch(b) |-> Empty]
Answers(b) == {Batch(b), Reverse(Batch(b)), Raised(b), <<>>,
               Tail(Batch(b)), Append(Batch(b), Last(Batch(b)))}

CleanBatch(b, a) ==
  /\ stage = "clean" /\ b \notin DOMAIN answers
  /\ answers' = [x \in DOMAIN answers \cup {b} |-> IF x = b THEN a ELSE answers[x]]
  /\ UNCHANGED <<stage, data, status, next, table, notices, progress, client, unsure>>

(* Mutation of Cleaned: a batch that raised is left out. *)
CleanedWithoutRaised ==
  FlattenSeq([b \in Batches |-> IF answers[b] = Raised(b) THEN <<>> ELSE answers[b]])

(* The answers are joined, and each record takes the row at its own position.*)
Cleaned == FlattenSeq([b \in Batches |-> answers[b]])
RowOf(r) == IF r <= Len(Cleaned) THEN Cleaned[r] ELSE Empty

Align ==
  /\ stage = "clean" /\ DOMAIN answers = Batches
  /\ data' = [r \in Records |-> RowOf(r)]
  /\ status' = [r \in Records |-> IF RowOf(r) = Empty THEN "FAILED" ELSE status[r]]
  /\ stage' = "validate"
  /\ Broadcast("cleaning")
  /\ UNCHANGED <<answers, next, table, notices, client, unsure>>

(* Stage 3. *)
Validate ==
  /\ stage = "validate"
  /\ status' = [r \in Records |-> IF status[r] = "FAILED" \/ data[r] \in Invalid
                                  THEN "FAILED" ELSE "VALIDATED"]
  /\ stage' = "upload"
  /\ Broadcast("uploading")
  /\ UNCHANGED <<answers, data, next, table, notices, client, unsure>>

------------------------------------------------------------------------------
(* Stage 4. Each validated record is inserted in a transaction of its own;   *)
(* others are passed over.                                                   *)
Row(r) == [of |-> r, row |-> data[r]]
Due == {r \in Records : r >= next /\ status[r] = "VALIDATED"}
ComesTo(r) == stage = "upload" /\ Due # {} /\ r = Min(Due)

Insert(r) ==
  /\ ComesTo(r)
  /\ table' = Append(table, Row(r))
  /\ status' = [status EXCEPT ![r] = "UPLOADED"]
  /\ next' = r + 1
  /\ UNCHANGED <<stage, answers, data, notices, progress, client, unsure>>

(* Mutation of InsertionFails: the record is tried again. *)
InsertAgain(r, committed) ==
  /\ ComesTo(r)
  /\ table' = IF committed THEN Append(table, Row(r)) ELSE table
  /\ unsure' = IF committed THEN unsure \cup {r} ELSE unsure
  /\ UNCHANGED <<stage, work, notices, progress, client>>

(* A statement fails, or the answer of the commit is lost; the loop goes on  *)
(* with a new connection.                                                    *)
InsertionFails(r, committed) ==
  /\ ComesTo(r)
  /\ table' = IF committed THEN Append(table, Row(r)) ELSE table
  /\ unsure' = IF committed THEN unsure \cup {r} ELSE unsure
  /\ status' = [status EXCEPT ![r] = "FAILED"]
  /\ next' = r + 1
  /\ UNCHANGED <<stage, answers, data, notices, progress, client>>

EndUpload ==
  /\ stage = "upload" /\ Due = {}
  /\ stage' = IF WithStatus("UPLOADED") = {} THEN "finish" ELSE "notify"
  /\ UNCHANGED <<work, table, notices, progress, client, unsure>>

(* Mutation of Imported: records that could not be inserted count as well. *)
ImportedOrFailed(cat) == {r \in Records : data[r] # Empty /\ CategoryOf[data[r]] = cat}

(* The notifications of all categories are one transaction, whose failure is *)
(* only logged.                                                              *)
Imported(cat) == {r \in WithStatus("UPLOADED") : CategoryOf[data[r]] = cat}
Affected == {CategoryOf[data[r]] : r \in WithStatus("UPLOADED")}

Notify(stored) ==
  /\ stage = "notify"
  /\ notices' = IF stored THEN {<<cat, Cardinality(Imported(cat))>> : cat \in Affected \cap Managed}
                          ELSE notices
  /\ stage' = IF stored THEN "finish" ELSE "finish untold"
  /\ UNCHANGED <<work, table, progress, client, unsure>>

Complete ==
  /\ stage \in {"finish", "finish untold"}
  /\ stage' = IF stage = "finish" THEN "done" ELSE "done untold"
  /\ client' = IF client = "waiting" THEN "200" ELSE client
  /\ Broadcast("completed")
  /\ UNCHANGED <<work, table, notices, unsure>>

(* Reading the file, a record that is not an object and every new connection *)
(* can raise: the endpoint answers 500. The service may also die.            *)
Abort ==
  /\ stage \in {"parse", "clean", "validate", "upload", "notify", "finish", "finish untold"}
  /\ stage' = "aborted"
  /\ client' = IF client = "waiting" THEN "500" ELSE client
  /\ UNCHANGED <<work, table, notices, progress, unsure>>

(* The gateway waits for five minutes; the pipeline goes on without it.      *)
GiveUp ==
  /\ client = "waiting"
  /\ client' = "gave up"
  /\ UNCHANGED <<stage, work, table, notices, progress, unsure>>

PipelineNext ==
  \/ \E found \in BOOLEAN : Parse(found)
  \/ \E b \in Batches : \E a \in Answers(b) : CleanBatch(b, a)
  \/ Align \/ Validate
  \/ \E r \in Records : Insert(r) \/ \E committed \in BOOLEAN : InsertionFails(r, committed)
  \/ EndUpload \/ (\E stored \in BOOLEAN : Notify(stored)) \/ Complete
  \/ Abort \/ GiveUp

PipelineSpec == PipelineInit /\ [][PipelineNext]_pipelineVars

------------------------------------------------------------------------------
Done == stage \in {"done", "done untold"}

(* A record is given the row of another one only because its own batch was   *)
(* not answered as it should be, or one before it with the wrong number of   *)
(* rows: answers that come late, or raise, move nothing (gather and the      *)
(* flattening of its results).                                               *)
ShiftExplained ==
  stage \notin {"parse", "clean", "none", "aborted"} =>
    \A r \in Records : data[r] \in {Empty, r}
      \/ \E b \in Batches :
           \/ r \in Range(Batch(b)) /\ answers[b] # Batch(b)
           \/ b * BatchSize < r /\ Len(answers[b]) # Len(Batch(b))

(* No record is inserted twice, however its insertion ended, and in the end  *)
(* each is in the table or counted as failed, or both if the answer of its   *)
(* commit was lost (the upload loop).                                        *)
EveryRecordAccounted ==
  /\ \A i, j \in DOMAIN table : table[i].of = table[j].of => i = j
  /\ \A i \in DOMAIN table : table[i].row \in Records \ Invalid
  /\ Done => /\ WithStatus("UPLOADED") \cup WithStatus("FAILED") = Records
             /\ WithStatus("UPLOADED") \cup unsure = {table[i].of : i \in DOMAIN table}
             /\ unsure \subseteq WithStatus("FAILED")

(* A manager is told of an import with the number of rows it brought the     *)
(* category, unless the notifications failed or a commit was not answered.   *)
ManagersAreTold ==
  stage = "done" => \A cat \in Managed :
    LET rows == {i \in DOMAIN table : /\ CategoryOf[table[i].row] = cat
                                      /\ table[i].of \notin unsure}
        told == {n \in notices : n[1] = cat}
    IN  told = IF rows = {} THEN {} ELSE {<<cat, Cardinality(rows)>>}
=============================================================================
