----------------------------- MODULE UploadPages -----------------------------
(***************************************************************************)
(* The two pages that import a file: the CSV import (requisitions/upload)   *)
(* and the AI pipeline (data-upload).  They have the same states and differ *)
(* in what they show meanwhile, that is in what can be clicked.             *)
(***************************************************************************)
EXTENDS Naturals, FiniteSets

CONSTANT File    \* bound: the files that are chosen

VARIABLES
  pipeline,      \* is it the page of the AI pipeline?
  file,          \* the file chosen: none, or {f}
  parsing,       \* files whose preview is being parsed
  preview,       \* the file whose first rows are shown
  uploading,
  sent,          \* the file of the upload in flight
  result,        \* none, or {[of: the file, ok]}
  uploadCrashed, \* has the page crashed on the answer?
  listening,     \* is the WebSocket of the upload open?
  stages,        \* what the four stages show
  cleared,       \* history: a file was cleared before its answer or its preview
  late           \* history: a message came after the answer

uploadVars == <<pipeline, file, parsing, preview, uploading, sent, result, uploadCrashed,
                listening, stages, cleared, late>>

(* The four stages of the pipeline page, and how updateStages marks them:    *)
(* the place of a stage it does not know is before the first.                *)
Order == [parsing |-> 1, cleaning |-> 2, validating |-> 3, uploading |-> 4, completed |-> 5]
Place(stage) == IF stage \in DOMAIN Order THEN Order[stage] ELSE 0
Marked(mark) == [i \in 1 .. 4 |-> mark]

Marks(stage) ==
  [i \in 1 .. 4 |->
    CASE stage = "failed"                      -> IF i <= Place(stage) THEN "error" ELSE "pending"
      [] stage # "failed" /\ i < Place(stage) -> "done"
      [] stage # "failed" /\ i = Place(stage) -> "active"
      [] OTHER                                 -> "pending"]

UploadInit ==
  /\ pipeline = FALSE
  /\ file = {} /\ parsing = {} /\ preview = {} /\ uploading = FALSE /\ sent = {} /\ result = {}
  /\ uploadCrashed = FALSE /\ listening = FALSE /\ stages = Marked("pending")
  /\ cleared = FALSE /\ late = FALSE

(* Either page is opened: what the other was doing is forgotten. *)
OpenUpload(ai) ==
  /\ pipeline' = ai
  /\ file' = {} /\ parsing' = {} /\ preview' = {} /\ uploading' = FALSE /\ sent' = {}
  /\ result' = {} /\ uploadCrashed' = FALSE /\ listening' = FALSE /\ stages' = Marked("pending")
  /\ cleared' = FALSE /\ late' = FALSE

-----------------------------------------------------------------------------
(* What is on the screen. *)
ImportShows(card) ==
  CASE card = "drop zone" -> file = {}
    [] card = "file"      -> file # {} /\ result = {}
    [] card = "result"    -> result # {}

PipelineShows(card) ==
  CASE card = "drop zone" -> file = {} /\ result = {}
    [] card = "file"      -> file # {} /\ result = {} /\ ~uploading
    [] card = "result"    -> result # {}

Shows(card) == ~uploadCrashed /\ IF pipeline THEN PipelineShows(card) ELSE ImportShows(card)

-----------------------------------------------------------------------------
(* A file is dropped or chosen; the import parses its first rows.            *)
Choose(f) ==
  /\ Shows("drop zone")
  /\ file' = {f}
  /\ IF pipeline THEN UNCHANGED <<result, parsing>>
     ELSE result' = {} /\ parsing' = parsing \cup {f}
  /\ UNCHANGED <<pipeline, preview, uploading, sent, uploadCrashed, listening, stages, cleared,
                 late>>

Parsed(f) ==
  /\ f \in parsing
  /\ parsing' = parsing \ {f} /\ preview' = {f}
  /\ UNCHANGED <<pipeline, file, uploading, sent, result, uploadCrashed, listening, stages,
                 cleared, late>>

(* Import, disabled while one is in flight; Start AI Pipeline. *)
HandleUpload ==
  /\ Shows("file") /\ ~uploading
  /\ uploading' = TRUE /\ sent' = file
  /\ stages' = Marked("pending") /\ result' = {}
  /\ UNCHANGED <<pipeline, file, parsing, preview, uploadCrashed, listening, cleared, late>>

(* Cancel, the cross, Upload Another: on the import also during an upload.   *)
ClearFile ==
  /\ Shows("file") \/ Shows("result")
  /\ file' = {} /\ preview' = {} /\ result' = {} /\ stages' = Marked("pending")
  /\ cleared' = (cleared \/ uploading \/ parsing # {})
  /\ UNCHANGED <<pipeline, parsing, uploading, sent, uploadCrashed, listening, late>>

(* Mutation of UploadAnswered: the file is forgotten before the answer is    *)
(* shown.                                                                    *)
UploadAnsweredAlone(outcome) ==
  /\ uploading /\ outcome = "ok"
  /\ uploading' = FALSE /\ sent' = {} /\ file' = {}
  /\ result' = {[of |-> f, ok |-> TRUE] : f \in sent}
  /\ UNCHANGED stages
  /\ UNCHANGED <<pipeline, parsing, preview, uploadCrashed, listening, cleared, late>>

(* The answer: a result; none, which is shown as a failed import; or an      *)
(* error object without a list of errors, on which both pages crash.         *)
UploadAnswered(outcome) ==
  /\ uploading /\ ~uploadCrashed
  /\ uploading' = FALSE /\ sent' = {}
  /\ result' = {[of |-> f, ok |-> outcome = "ok"] : f \in sent}
  /\ uploadCrashed' = (outcome = "error")
  /\ stages' = IF ~pipeline THEN stages
               ELSE Marks(IF outcome = "failed" THEN "failed" ELSE "completed")
  /\ UNCHANGED <<pipeline, file, parsing, preview, listening, cleared, late>>

(* The effect of the pipeline page opens a WebSocket while it uploads, and   *)
(* closes it after the render that shows the answer.                         *)
Listen ==
  /\ pipeline /\ listening # uploading
  /\ listening' = uploading
  /\ UNCHANGED <<pipeline, file, parsing, preview, uploading, sent, result, uploadCrashed,
                 stages, cleared, late>>

(* A message on the progress of an upload, whoever has started it.           *)
Progress(stage) ==
  /\ listening /\ ~uploadCrashed
  /\ stages' = Marks(stage)
  /\ late' = (late \/ ~uploading)
  /\ UNCHANGED <<pipeline, file, parsing, preview, uploading, sent, result, uploadCrashed,
                 listening, cleared>>

UploadNext ==
  \/ \E f \in File : Choose(f) \/ Parsed(f)
  \/ HandleUpload \/ ClearFile
  \/ \E o \in {"ok", "error", "failed"} : UploadAnswered(o)
  \/ Listen \/ \E stage \in DOMAIN Order \cup {"failed"} : Progress(stage)

-----------------------------------------------------------------------------
(* A result that is shown is that of the file beside it, and so is a         *)
(* preview, unless on the import a file has been cleared while it was being  *)
(* parsed or uploaded; and beside the result of an upload all four stages of *)
(* the pipeline are done, unless a message came between the answer and the   *)
(* end of the connection (handleUpload, parseFile, clearFile and the effect  *)
(* on uploading).                                                            *)
ResultOfFile ==
  /\ \A r \in result : cleared \/ file = {r.of}
  /\ preview # {} => cleared \/ preview = file
  /\ Shows("result") /\ pipeline /\ ~late =>
       \A r \in result : r.ok => stages = Marked("done")

(* What the comment on updateStages says: "On failure, stages are marked     *)
(* "error"".  Then a failed upload is seen in the stages.                    *)
FailedStagesMarked ==
  Shows("result") /\ pipeline /\ ~late =>
    \A r \in result : ~r.ok => \E i \in DOMAIN stages : stages[i] = "error"
=============================================================================
