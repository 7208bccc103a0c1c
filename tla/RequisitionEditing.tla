-------------------------- MODULE RequisitionEditing --------------------------
(***************************************************************************)
(* Editing on the page of hiring requests: the form dialog, the cells of    *)
(* the table that are edited in place, the status menus and deletions, with *)
(* their requests in flight.  The form stays mounted when it is closed, so  *)
(* that its state outlives the dialog; the table is unmounted while the     *)
(* page shows its loading display.                                          *)
(***************************************************************************)
EXTENDS Naturals, SequencesExt

CONSTANTS
  Row,           \* ids of hiring requests
  New,           \* stands for the row of a form that creates one
  MaxWrites      \* bound: requests in flight

VARIABLES
  form,          \* the dialog: open?, the row of editingReq, of: whose data its fields hold
  submitting,    \* is its button disabled?
  cell,          \* editingCell: none, or {[row, field, of]}
  table,         \* "rows", or "skeleton" while the page loads
  list,          \* the rows it was given
  writes,        \* requests in flight: [kind, row, of]
  stuck          \* history: has a request of the form failed without an answer?

editVars == <<form, submitting, cell, table, list, writes, stuck>>

Blank == [open |-> FALSE, row |-> New, of |-> New]

EditInit ==
  /\ form = Blank /\ submitting = FALSE
  /\ cell = {} /\ table = "skeleton" /\ list = {}
  /\ writes = <<>> /\ stuck = FALSE

Unmounted ==
  /\ form' = Blank /\ submitting' = FALSE
  /\ cell' = {} /\ table' = "skeleton" /\ list' = {}
  /\ writes' = <<>> /\ stuck' = FALSE

-----------------------------------------------------------------------------
(* The table: what can be clicked.  The dialog covers the page, and a click  *)
(* outside an input takes the focus from it, which saves it.                 *)
Displayed(r) == table = "rows" /\ r \in list
Focused == \E c \in cell : c.field = "rate" /\ Displayed(c.row)
Clickable(r) == Displayed(r) /\ ~form.open /\ ~Focused

Sends(kind, r, data) ==
  /\ Len(writes) < MaxWrites
  /\ writes' = Append(writes, [kind |-> kind, row |-> r, of |-> data])

(* A priority or a rate is clicked: an editor with its value takes its place.*)
StartEditing(r, f) ==
  /\ Clickable(r)
  /\ cell' = {[row |-> r, field |-> f, of |-> r]}
  /\ UNCHANGED <<form, submitting, table, list, writes, stuck>>

(* A choice, Enter, or the loss of the focus sends the value. *)
SaveEdit ==
  /\ ~form.open
  /\ \E c \in cell : Displayed(c.row) /\ Sends("cell", c.row, c.of)
  /\ cell' = {}
  /\ UNCHANGED <<form, submitting, table, list, stuck>>

(* Escape; of the editors of priorities there is no other way out.           *)
CancelEdit ==
  /\ Focused /\ cell' = {}
  /\ UNCHANGED <<form, submitting, table, list, writes, stuck>>

(* The menus of a row: a status is sent at once, a deletion once confirmed.  *)
ChooseInMenu(r, kind) ==
  /\ Clickable(r) /\ kind \in {"status", "delete"}
  /\ Sends(kind, r, r)
  /\ UNCHANGED <<form, submitting, cell, table, list, stuck>>

-----------------------------------------------------------------------------
(* Mutation of OpenForm: the fields keep what was in them. *)
OpenFormAsItWas(r) ==
  /\ ~form.open /\ ~Focused /\ (r = New \/ Displayed(r))
  /\ form' = [open |-> TRUE, row |-> r, of |-> form.of]
  /\ UNCHANGED <<submitting, cell, table, list, writes, stuck>>

(* Add Request, or Edit in the menu of a row: the form opens, and its effect *)
(* fills the fields with the row as it was listed, or empties them.          *)
OpenForm(r) ==
  /\ ~form.open /\ ~Focused /\ (r = New \/ Displayed(r))
  /\ form' = [open |-> TRUE, row |-> r, of |-> r]
  /\ UNCHANGED <<submitting, cell, table, list, writes, stuck>>

Closed == [form EXCEPT !.open = FALSE, !.row = New]

(* Cancel, the cross, Escape: also while a request of the form is in flight. *)
CloseForm ==
  /\ form.open /\ form' = Closed
  /\ UNCHANGED <<submitting, cell, table, list, writes, stuck>>

(* Create or Update, with fields that are valid: all of them are sent.       *)
Submit ==
  /\ form.open /\ ~submitting
  /\ Sends("form", form.row, form.of)
  /\ submitting' = TRUE
  /\ UNCHANGED <<form, cell, table, list, stuck>>

-----------------------------------------------------------------------------
(* After a success the page loads: the table goes, and an open editor of it. *)
Reloads == table' = "skeleton" /\ cell' = {}

(* The answer to a request of the form, a success or a refusal, closes the   *)
(* dialog, whichever row it is open for by now; a request without an answer  *)
(* leaves it open and its button disabled, for good.                         *)
AnswerForm(i, outcome) ==
  /\ i \in DOMAIN writes /\ writes[i].kind = "form"
  /\ writes' = RemoveAt(writes, i)
  /\ IF outcome = "failed"
     THEN stuck' = TRUE /\ UNCHANGED <<form, submitting>>
     ELSE form' = Closed /\ submitting' = FALSE /\ UNCHANGED stuck
  /\ IF outcome = "ok" THEN Reloads ELSE UNCHANGED <<cell, table>>
  /\ UNCHANGED list

AnswerOther(i, outcome) ==
  /\ i \in DOMAIN writes /\ writes[i].kind # "form"
  /\ writes' = RemoveAt(writes, i)
  /\ IF outcome = "ok" THEN Reloads ELSE UNCHANGED <<cell, table>>
  /\ UNCHANGED <<form, submitting, list, stuck>>

(* The filter is set, or the page number: the table goes in the same way. *)
Refetch ==
  /\ table = "rows" /\ Reloads
  /\ UNCHANGED <<form, submitting, list, writes, stuck>>

(* The list comes, after a loading display or, on a message, without one. *)
Listed(rows) ==
  /\ table' = "rows" /\ list' = rows
  /\ UNCHANGED <<form, submitting, cell, writes, stuck>>

EditNext ==
  \/ \E r \in Row : \/ \E f \in {"priority", "rate"} : StartEditing(r, f)
                    \/ \E k \in {"status", "delete"} : ChooseInMenu(r, k)
  \/ SaveEdit \/ CancelEdit
  \/ \E r \in Row \cup {New} : OpenForm(r)
  \/ CloseForm \/ Submit
  \/ \E i \in DOMAIN writes : \E o \in {"ok", "error", "failed"} :
       AnswerForm(i, o) \/ AnswerOther(i, o)
  \/ Refetch
  \/ \E rows \in SUBSET Row : Listed(rows)

-----------------------------------------------------------------------------
(* Every request carries the data of the row it is sent to, though forms and *)
(* editors are left, reopened for other rows and overtaken by answers        *)
(* (the effect that fills the form, saveEdit, handleUpdate).                 *)
SentToItsRow == \A i \in DOMAIN writes : writes[i].of = writes[i].row

(* The form never has two requests in flight, over all the rows it is opened *)
(* for, and its button is disabled exactly while it has one, or after one    *)
(* that got no answer (submitting in handleSubmit).                          *)
SubmitOnce ==
  LET sent == {i \in DOMAIN writes : writes[i].kind = "form"}
  IN  /\ Cardinality(sent) <= 1
      /\ submitting <=> (sent # {} \/ stuck)
=============================================================================
