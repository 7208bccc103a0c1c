--------------------------- MODULE RequisitionIds ---------------------------
(***************************************************************************)
(* How the human-readable ids REQ-<category>-<number> are given out.  Three *)
(* programs generate them, without a lock or a sequence: CreateRequisition  *)
(* and UploadCSV in the gateway, upsert_record in the AI service.  Each     *)
(* reads the largest number of the category, adds one and, in an import,    *)
(* the count of rows of the category it has created so far, and inserts;    *)
(* the unique index refuses a number that is taken.  Other writers may      *)
(* insert and delete between the two statements, and either may fail: the   *)
(* gateway ignores the error of the first and goes on with zero.  After an  *)
(* exception the import of the AI service needs a rollback and a new        *)
(* connection, and ends where it is when one of them raises as well.        *)
(***************************************************************************)
EXTENDS Naturals, Sequences, FiniteSets

CONSTANTS
  Writers,      \* the requests and jobs that create hiring requests
  Kind,         \* Kind[w]: "create", "csv" or "pipeline"
  Rows,         \* Rows[w]: the categories of the rows w creates, one after the other
  Categories,   \* a row with another category is refused
  DbFaults,     \* may statements fail that have no reason to?
  MaxDeletes    \* bound: hiring requests deleted

ASSUME RequisitionIdsAssumption ==
  /\ Kind \in [Writers -> {"create", "csv", "pipeline"}]
  /\ \A w \in Writers : Rows[w] \in Seq(STRING)
  /\ Categories \subseteq STRING
  /\ DbFaults \in BOOLEAN
  /\ MaxDeletes \in Nat

VARIABLES
  numbers,   \* numbers[c]: the numbers in the table, per category
  pc,        \* "read", "insert", "done" or "aborted"
  row,       \* index of the row the writer is at
  top,       \* the largest number it read
  made,      \* the ids it created, as <<category, number>>, in order
  errors,    \* how many of its rows failed
  outdated,  \* history: did the last read fail, or has another writer inserted since?
  deletes    \* counts the deletions, for the bound

vars == <<numbers, pc, row, top, made, errors, outdated, deletes>>

TypeOK ==
  /\ numbers \in [Categories -> SUBSET (Nat \ {0})]
  /\ pc \in [Writers -> {"read", "insert", "done", "aborted"}]
  /\ row \in [Writers -> Nat \ {0}]
  /\ top \in [Writers -> Nat]
  /\ made \in [Writers -> Seq(Categories \X (Nat \ {0}))]
  /\ errors \in [Writers -> Nat]
  /\ outdated \in [Writers -> BOOLEAN]
  /\ deletes \in Nat

Init ==
  /\ numbers = [c \in Categories |-> {}]
  /\ pc      = [w \in Writers |-> "read"]
  /\ row     = [w \in Writers |-> 1]
  /\ top     = [w \in Writers |-> 0]
  /\ made    = [w \in Writers |-> <<>>]
  /\ errors  = [w \in Writers |-> 0]
  /\ outdated = [w \in Writers |-> FALSE]
  /\ deletes = 0

Category(w) == Rows[w][row[w]]

(* The rows of category c among those created: catCreatedCounts. *)
Count(ids, c) == Cardinality({i \in 1 .. Len(ids) : ids[i][1] = c})

(* COALESCE(MAX(...), 0) *)
Largest(S) == CHOOSE n \in S \cup {0} : \A k \in S : k <= n

(* Mutation of PipelineNumber: no one is added. *)
PipelineNumberSame(t, n) == t + n

(* The number each program computes from the largest one it read. *)
CreateNumber(t)      == t + 1
CsvNumber(t, n)      == t + 1 + n
PipelineNumber(t, n) == t + 1 + n

Number(w) ==
  LET n == Count(made[w], Category(w))
  IN  CASE Kind[w] = "create"   -> CreateNumber(top[w])
        [] Kind[w] = "csv"      -> CsvNumber(top[w], n)
        [] Kind[w] = "pipeline" -> PipelineNumber(top[w], n)

NextRow(w) ==
  /\ row' = [row EXCEPT ![w] = @ + 1]
  /\ pc'  = [pc EXCEPT ![w] = "read"]

AtRow(w) == pc[w] = "read" /\ row[w] <= Len(Rows[w])

(* Mutation of FailRow: the error is not reported. *)
FailRowSilently(w) ==
  /\ NextRow(w)
  /\ UNCHANGED errors

(* The row is given up and counted as an error. *)
FailRow(w) ==
  /\ errors' = [errors EXCEPT ![w] = @ + 1]
  /\ NextRow(w)

(* The import ends here, and its caller learns nothing of any row. *)
AbortImport(w) ==
  /\ DbFaults
  /\ Kind[w] = "pipeline"
  /\ pc' = [pc EXCEPT ![w] = "aborted"]
  /\ UNCHANGED row

(* A statement of the row failed.  The AI service has counted the row when   *)
(* rollback or the new connection raises in its handler of the exception.    *)
StatementFails(w) ==
  \/ FailRow(w)
  \/ AbortImport(w) /\ errors' = [errors EXCEPT ![w] = @ + 1]

(* The AI service does not get the connection it begins with. *)
NoConnection(w) ==
  /\ pc[w] = "read"
  /\ row[w] = 1
  /\ AbortImport(w)
  /\ UNCHANGED <<numbers, top, made, errors, outdated, deletes>>

(* A row whose category is unknown; no statement was made for it. *)
InvalidCategory(w) ==
  /\ AtRow(w)
  /\ Category(w) \notin Categories
  /\ FailRow(w)
  /\ UNCHANGED <<numbers, top, made, outdated, deletes>>

Proceed(w, n, failed) ==
  /\ top'   = [top EXCEPT ![w] = n]
  /\ outdated' = [outdated EXCEPT ![w] = failed]
  /\ pc'    = [pc EXCEPT ![w] = "insert"]
  /\ UNCHANGED <<numbers, row, made, errors, deletes>>

(* The largest number of the category is read. *)
ReadMax(w) ==
  /\ AtRow(w)
  /\ Category(w) \in Categories
  /\ Proceed(w, Largest(numbers[Category(w)]), FALSE)

(* The read fails.  In the AI service that is an exception, which fails the  *)
(* row; in the gateway maxNum keeps its initial value.                       *)
ReadFails(w) ==
  /\ DbFaults
  /\ AtRow(w)
  /\ Category(w) \in Categories
  /\ IF Kind[w] = "pipeline"
     THEN StatementFails(w) /\ UNCHANGED <<numbers, top, made, outdated, deletes>>
     ELSE Proceed(w, 0, TRUE)

(* The row is in the table, whatever its writer learns of it. *)
Inserted(w) ==
  /\ pc[w] = "insert"
  /\ Number(w) \notin numbers[Category(w)]
  /\ numbers' = [numbers EXCEPT ![Category(w)] = @ \cup {Number(w)}]
  /\ outdated' = [v \in Writers |-> outdated[v] \/
                    (v # w /\ pc[v] = "insert" /\ Category(v) = Category(w))]

(* The INSERT, committed on its own. *)
InsertRow(w) ==
  /\ Inserted(w)
  /\ made' = [made EXCEPT ![w] = Append(@, <<Category(w), Number(w)>>)]
  /\ NextRow(w)
  /\ UNCHANGED <<top, errors, deletes>>

(* The INSERT is committed and its answer is lost: an error to the writer. *)
InsertUnanswered(w) ==
  /\ DbFaults
  /\ Inserted(w)
  /\ StatementFails(w)
  /\ UNCHANGED <<top, made, deletes>>

(* The INSERT fails: the unique index refuses the number, or a value of the  *)
(* row is not accepted, or the database fails.                               *)
InsertFails(w) ==
  /\ pc[w] = "insert"
  /\ DbFaults \/ Number(w) \in numbers[Category(w)]
  /\ StatementFails(w)
  /\ UNCHANGED <<numbers, top, made, outdated, deletes>>

Finish(w) ==
  /\ pc[w] = "read"
  /\ row[w] > Len(Rows[w])
  /\ pc' = [pc EXCEPT ![w] = "done"]
  /\ UNCHANGED <<numbers, row, top, made, errors, outdated, deletes>>

(* DeleteRequisition frees a number. *)
DeleteNumber(c, n) ==
  /\ deletes < MaxDeletes
  /\ numbers' = [numbers EXCEPT ![c] = @ \ {n}]
  /\ deletes' = deletes + 1
  /\ UNCHANGED <<pc, row, top, made, errors, outdated>>

Step(w) ==
  \/ NoConnection(w)
  \/ InvalidCategory(w) \/ ReadMax(w) \/ ReadFails(w)
  \/ InsertRow(w) \/ InsertUnanswered(w) \/ InsertFails(w)
  \/ Finish(w)

Next ==
  \/ \E w \in Writers : Step(w)
  \/ \E c \in Categories : \E n \in numbers[c] : DeleteNumber(c, n)

Spec == Init /\ [][Next]_vars

-----------------------------------------------------------------------------
(* Properties *)

(* The unique index refuses a writer only when another one inserted into the *)
(* category between its read and its insert, or its read failed: neither the *)
(* count it adds for its own rows nor a deletion ever makes it collide.      *)
RefusedOnlyByRace ==
  \A w \in Writers :
    pc[w] = "insert" /\ Number(w) \in numbers[Category(w)] => outdated[w]

(* At every moment of an import each row done is counted once, as created or *)
(* as an error, and an import that ends has counted every row.  Only the AI  *)
(* service ends before that: without a connection to begin with, or after a  *)
(* row it has counted as an error, whose rollback or new connection raised;  *)
(* the rows after that one are neither created nor reported.  (A row counted *)
(* as an error is in the table when only the answer to its INSERT was lost.) *)
EveryRowAccounted ==
  \A w \in Writers :
    LET counted == Len(made[w]) + errors[w]
    IN  /\ pc[w] # "aborted" => row[w] = counted + 1
        /\ pc[w] = "done" => counted = Len(Rows[w])
        /\ pc[w] = "aborted" =>
             /\ Kind[w] = "pipeline"
             /\ counted = 0 \/ (errors[w] > 0 /\ row[w] = counted)

==============================================================================
