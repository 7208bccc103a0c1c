--------------------------- MODULE FrontendProofs ---------------------------
(***************************************************************************)
(* Proofs about a window of the web application, for any rows, files, pages *)
(* and bounds.  Of what users enter (FormPages): requests carry the data of *)
(* their row, the form sends one at a time, a result belongs to its file,   *)
(* answers follow their questions, and a sign-out forgets them.  Of what is *)
(* shown (DataPages): a page at rest shows the newest data for its filter.  *)
(***************************************************************************)
EXTENDS Frontend, FiniteSetTheorems, SequenceTheorems, TLAPS

-----------------------------------------------------------------------------
(* What RemoveAt leaves of a sequence.                                       *)
LEMMA Removed ==
  ASSUME NEW S, NEW s \in Seq(S), NEW i \in DOMAIN s
  PROVE  /\ RemoveAt(s, i) \in Seq(S)
         /\ DOMAIN RemoveAt(s, i) = 1 .. (Len(s) - 1)
         /\ \A j \in 1 .. (Len(s) - 1) :
              RemoveAt(s, i)[j] = s[IF j < i THEN j ELSE j + 1]
<1> DEFINE a == SubSeq(s, 1, i - 1)
           b == SubSeq(s, i + 1, Len(s))
<1>0. i \in Nat \ {0} /\ Len(s) \in Nat /\ i <= Len(s)
  OBVIOUS
<1>1. /\ a \in Seq(S) /\ Len(a) = i - 1
      /\ \A j \in 1 .. (i - 1) : a[j] = s[j]
  BY <1>0
<1>2. /\ b \in Seq(S) /\ Len(b) = Len(s) - i
      /\ \A j \in 1 .. (Len(s) - i) : b[j] = s[i + j]
  BY <1>0
<1>3. RemoveAt(s, i) = a \o b
  BY DEF RemoveAt
<1> HIDE DEF a, b
<1>4. /\ a \o b \in Seq(S) /\ Len(a \o b) = Len(s) - 1
      /\ \A j \in 1 .. (Len(s) - 1) :
           (a \o b)[j] = IF j <= i - 1 THEN a[j] ELSE b[j - (i - 1)]
  BY <1>0, <1>1, <1>2
<1>5. ASSUME NEW j \in 1 .. (Len(s) - 1)
      PROVE  (a \o b)[j] = s[IF j < i THEN j ELSE j + 1]
  <2>1. CASE j < i
    BY <1>0, <1>1, <1>4, <2>1
  <2>2. CASE ~(j < i)
    <3>1. j - (i - 1) \in 1 .. (Len(s) - i) /\ i + (j - (i - 1)) = j + 1
      BY <1>0, <2>2
    <3>2. (a \o b)[j] = b[j - (i - 1)]
      BY <1>0, <1>4, <2>2
    <3>3. b[j - (i - 1)] = s[i + (j - (i - 1))]
      BY <1>2, <3>1
    <3> QED BY <2>2, <3>1, <3>2, <3>3
  <2> QED BY <2>1, <2>2
<1> QED BY <1>0, <1>3, <1>4, <1>5

-----------------------------------------------------------------------------
(* Editing: the invariant.                                                   *)
Ids == Row \cup {New}
Kinds == {"form", "cell", "status", "delete"}
Write == [kind : Kinds, row : Ids, of : Ids]

EditTyped ==
  /\ form \in [open : BOOLEAN, row : Ids, of : Ids]
  /\ submitting \in BOOLEAN /\ stuck \in BOOLEAN
  /\ cell \subseteq [row : Ids, field : {"priority", "rate"}, of : Ids]
  /\ writes \in Seq(Write)

(* The fields of an open dialog, and an editor, hold the data of their row.  *)
HeldByRow ==
  /\ form.open => form.of = form.row
  /\ \A c \in cell : c.of = c.row

(* The button is disabled while the only request of the form is in flight.   *)
IsForm(i) == writes[i].kind = "form"
OneForm == \A i, j \in DOMAIN writes : IsForm(i) /\ IsForm(j) => i = j
Busy == submitting <=> stuck \/ \E i \in DOMAIN writes : IsForm(i)
StuckAlone == stuck => \A i \in DOMAIN writes : ~IsForm(i)

EditInv == EditTyped /\ HeldByRow /\ SentToItsRow /\ OneForm /\ Busy /\ StuckAlone

LEMMA EditInitInv == EditInit => EditInv
<1> SUFFICES ASSUME EditInit PROVE EditInv
  OBVIOUS
<1>1. Blank \in [open : BOOLEAN, row : Ids, of : Ids] /\ ~Blank.open
  BY DEF Blank, Ids
<1>2. <<>> \in Seq(Write)
  OBVIOUS
<1>3. EditTyped
  BY <1>1, <1>2 DEF EditInit, EditTyped
<1> QED BY <1>1, <1>3 DEF EditInit, EditInv, HeldByRow, SentToItsRow, OneForm, Busy,
                          StuckAlone, IsForm

LEMMA UnmountedInv == Unmounted => EditInv'
<1> SUFFICES ASSUME Unmounted PROVE EditInv'
  OBVIOUS
<1>1. Blank \in [open : BOOLEAN, row : Ids, of : Ids] /\ ~Blank.open
  BY DEF Blank, Ids
<1>2. <<>> \in Seq(Write)
  OBVIOUS
<1>3. EditTyped'
  BY <1>1, <1>2 DEF Unmounted, EditTyped
<1> QED BY <1>1, <1>3 DEF Unmounted, EditInv, HeldByRow, SentToItsRow, OneForm, Busy,
                          StuckAlone, IsForm

(* A request that carries the data of its row is sent.                       *)
LEMMA SendsInv ==
  ASSUME EditInv, NEW kind \in Kinds, NEW r \in Ids, Sends(kind, r, r),
         kind = "form" => ~submitting /\ submitting', UNCHANGED stuck,
         kind # "form" => UNCHANGED submitting, submitting' \in BOOLEAN
  PROVE  /\ writes' \in Seq(Write) /\ SentToItsRow' /\ OneForm' /\ Busy' /\ StuckAlone'
<1> DEFINE w == [kind |-> kind, row |-> r, of |-> r]
<1> USE DEF EditInv, EditTyped
<1>1. w \in Write /\ writes' = Append(writes, w)
  BY DEF Sends, Write
<1>2. /\ writes' \in Seq(Write) /\ DOMAIN writes' = 1 .. (Len(writes) + 1)
      /\ \A i \in DOMAIN writes : writes'[i] = writes[i]
      /\ writes'[Len(writes) + 1] = w /\ DOMAIN writes = 1 .. Len(writes)
      /\ Len(writes) \in Nat
  BY <1>1
<1>3. SentToItsRow'
  BY <1>2 DEF SentToItsRow
<1>4. CASE kind = "form"
  <2>1. \A i \in DOMAIN writes : ~IsForm(i)
    BY <1>4 DEF Busy
  <2>2. ~stuck /\ submitting'
    BY <1>4 DEF Busy
  <2> QED BY <1>2, <1>3, <1>4, <2>1, <2>2 DEF OneForm, Busy, StuckAlone, IsForm
<1>5. CASE kind # "form"
  BY <1>2, <1>3, <1>5 DEF OneForm, Busy, StuckAlone, IsForm
<1> QED BY <1>4, <1>5

(* A request is answered: those that remain keep their order.                *)
LEMMA RemovesInv ==
  ASSUME EditInv, NEW i \in DOMAIN writes, writes' = RemoveAt(writes, i)
  PROVE  /\ writes' \in Seq(Write) /\ SentToItsRow' /\ OneForm'
         /\ (\E j \in DOMAIN writes' : writes'[j].kind = "form")
              <=> \E j \in DOMAIN writes \ {i} : IsForm(j)
<1> USE DEF EditInv, EditTyped
<1> DEFINE at(j) == IF j < i THEN j ELSE j + 1
<1>1. /\ writes' \in Seq(Write) /\ DOMAIN writes' = 1 .. (Len(writes) - 1)
      /\ \A j \in 1 .. (Len(writes) - 1) : writes'[j] = writes[at(j)]
  BY Removed
<1>2. DOMAIN writes = 1 .. Len(writes) /\ Len(writes) \in Nat /\ i \in 1 .. Len(writes)
  OBVIOUS
<1>3. /\ \A j \in DOMAIN writes' : at(j) \in DOMAIN writes \ {i}
      /\ \A j, k \in DOMAIN writes' : at(j) = at(k) => j = k
  BY <1>1, <1>2
<1>4. ASSUME NEW k \in DOMAIN writes \ {i}
      PROVE  \E j \in DOMAIN writes' : at(j) = k
  <2>1. CASE k < i
    BY <1>1, <1>2, <2>1
  <2>2. CASE ~(k < i)
    <3>1. k - 1 \in DOMAIN writes' /\ at(k - 1) = k
      BY <1>1, <1>2, <2>2
    <3> QED BY <3>1
  <2> QED BY <2>1, <2>2
<1> HIDE DEF at
<1>5. SentToItsRow'
  BY <1>1, <1>3 DEF SentToItsRow
<1>6. OneForm'
  BY <1>1, <1>3 DEF OneForm, IsForm
<1>7. (\E j \in DOMAIN writes' : writes'[j].kind = "form")
        <=> \E j \in DOMAIN writes \ {i} : IsForm(j)
  BY <1>1, <1>3, <1>4 DEF IsForm
<1> QED BY <1>1, <1>5, <1>6, <1>7

LEMMA AnswerFormInv ==
  ASSUME EditInv, NEW i, NEW o \in {"ok", "error", "failed"}, AnswerForm(i, o)
  PROVE  EditInv'
<1> USE DEF EditInv, EditTyped
<1>1. i \in DOMAIN writes /\ IsForm(i) /\ writes' = RemoveAt(writes, i)
  BY DEF AnswerForm, IsForm
<1>2. /\ writes' \in Seq(Write) /\ SentToItsRow' /\ OneForm'
      /\ \A j \in DOMAIN writes' : ~IsForm(j)'
  BY <1>1, RemovesInv DEF OneForm, IsForm
<1>3. cell' \subseteq cell
  BY DEF AnswerForm, Reloads
<1>4. submitting
  BY <1>1 DEF Busy
<1>5. CASE o = "failed"
  <2>1. stuck' /\ UNCHANGED <<form, submitting>>
    BY <1>5 DEF AnswerForm
  <2> QED BY <1>2, <1>3, <1>4, <2>1 DEF HeldByRow, Busy, StuckAlone
<1>6. CASE o # "failed"
  <2>1. form' = Closed /\ submitting' = FALSE /\ UNCHANGED stuck
    BY <1>6 DEF AnswerForm
  <2>2. Closed \in [open : BOOLEAN, row : Ids, of : Ids] /\ ~Closed.open
    BY DEF Closed, Ids
  <2>3. ~stuck
    BY <1>1 DEF StuckAlone
  <2> QED BY <1>2, <1>3, <2>1, <2>2, <2>3 DEF HeldByRow, Busy, StuckAlone
<1> QED BY <1>5, <1>6

LEMMA AnswerOtherInv ==
  ASSUME EditInv, NEW i, NEW o \in {"ok", "error", "failed"}, AnswerOther(i, o)
  PROVE  EditInv'
<1> USE DEF EditInv, EditTyped
<1>1. i \in DOMAIN writes /\ ~IsForm(i) /\ writes' = RemoveAt(writes, i)
  BY DEF AnswerOther, IsForm
<1>2. /\ writes' \in Seq(Write) /\ SentToItsRow' /\ OneForm'
      /\ (\E j \in DOMAIN writes' : IsForm(j)') <=> \E j \in DOMAIN writes : IsForm(j)
  BY <1>1, RemovesInv DEF IsForm
<1>3. cell' \subseteq cell /\ UNCHANGED <<form, submitting, stuck>>
  BY DEF AnswerOther, Reloads
<1> QED BY <1>2, <1>3 DEF HeldByRow, Busy, StuckAlone

LEMMA SendStep ==
  ASSUME EditInv,
         SaveEdit \/ Submit
           \/ \E r \in Row : \E k \in {"status", "delete"} : ChooseInMenu(r, k)
  PROVE  EditInv'
<1> USE DEF EditInv, EditTyped
<1>1. CASE SaveEdit
  <2>1. PICK c \in cell : Sends("cell", c.row, c.of)
    BY <1>1 DEF SaveEdit
  <2>2. c.row \in Ids /\ Sends("cell", c.row, c.row) /\ cell' = {}
        /\ UNCHANGED <<form, submitting, stuck>>
    BY <1>1, <2>1 DEF SaveEdit, HeldByRow
  <2>3. /\ writes' \in Seq(Write) /\ SentToItsRow' /\ OneForm' /\ Busy' /\ StuckAlone'
    BY <2>2, SendsInv DEF Kinds
  <2> QED BY <2>2, <2>3 DEF HeldByRow
<1>2. CASE Submit
  <2>1. /\ form.row \in Ids /\ Sends("form", form.row, form.row) /\ ~submitting /\ submitting'
        /\ submitting' = TRUE /\ UNCHANGED <<form, cell, stuck>>
    BY <1>2 DEF Submit, HeldByRow
  <2>2. /\ writes' \in Seq(Write) /\ SentToItsRow' /\ OneForm' /\ Busy' /\ StuckAlone'
    BY <2>1, SendsInv DEF Kinds
  <2> QED BY <2>1, <2>2 DEF HeldByRow
<1>3. ASSUME NEW r \in Row, NEW k \in {"status", "delete"}, ChooseInMenu(r, k)
      PROVE  EditInv'
  <2>1. r \in Ids /\ Sends(k, r, r) /\ UNCHANGED <<form, submitting, cell, stuck>>
    BY <1>3 DEF ChooseInMenu, Ids
  <2>2. /\ writes' \in Seq(Write) /\ SentToItsRow' /\ OneForm' /\ Busy' /\ StuckAlone'
    BY <2>1, SendsInv DEF Kinds
  <2> QED BY <2>1, <2>2 DEF HeldByRow
<1> QED BY <1>1, <1>2, <1>3

(* The steps that send nothing.                                              *)
LEMMA EditorStep ==
  ASSUME EditInv,
         CancelEdit \/ CloseForm \/ Refetch
           \/ (\E r \in Row : \E f \in {"priority", "rate"} : StartEditing(r, f))
           \/ (\E r \in Ids : OpenForm(r))
           \/ \E rows \in SUBSET Row : Listed(rows)
  PROVE  EditInv'
<1> USE DEF EditInv, EditTyped
<1>1. UNCHANGED <<submitting, writes, stuck>>
  BY DEF CancelEdit, CloseForm, Refetch, StartEditing, OpenForm, Listed
<1>2. SentToItsRow' /\ OneForm' /\ Busy' /\ StuckAlone'
  BY <1>1 DEF SentToItsRow, OneForm, Busy, StuckAlone, IsForm
<1>3. form' \in [open : BOOLEAN, row : Ids, of : Ids] /\ (form'.open => form'.of = form'.row)
  <2>1. CASE UNCHANGED form
    BY <2>1 DEF HeldByRow
  <2>2. CASE CloseForm
    BY <2>2 DEF CloseForm, Closed, Ids
  <2>3. ASSUME NEW r \in Ids, OpenForm(r)
        PROVE  form' \in [open : BOOLEAN, row : Ids, of : Ids] /\ form'.of = form'.row
    BY <2>3 DEF OpenForm
  <2> QED BY <2>1, <2>2, <2>3 DEF CancelEdit, Refetch, StartEditing, Listed
<1>4. cell' \subseteq [row : Ids, field : {"priority", "rate"}, of : Ids]
      /\ \A c \in cell' : c.of = c.row
  <2>1. CASE cell' \subseteq cell
    BY <2>1 DEF HeldByRow
  <2>2. ASSUME NEW r \in Row, NEW f \in {"priority", "rate"}, StartEditing(r, f)
        PROVE  cell' \subseteq [row : Ids, field : {"priority", "rate"}, of : Ids]
               /\ \A c \in cell' : c.of = c.row
    BY <2>2 DEF StartEditing, Ids
  <2> QED BY <2>1, <2>2 DEF CancelEdit, CloseForm, Refetch, Reloads, OpenForm, Listed
<1> QED BY <1>1, <1>2, <1>3, <1>4 DEF HeldByRow

LEMMA EditStep == ASSUME EditInv, EditNext PROVE EditInv'
  BY SendStep, EditorStep, AnswerFormInv, AnswerOtherInv DEF EditNext, Ids

LEMMA EditUnchanged == ASSUME EditInv, UNCHANGED editVars PROVE EditInv'
  BY DEF EditInv, EditTyped, HeldByRow, SentToItsRow, OneForm, Busy, StuckAlone, IsForm,
         editVars

(* Whatever the pages do, the invariant of editing is kept.                  *)
LEMMA EditNextInv == EditInv /\ [Next]_vars => EditInv'
<1> SUFFICES ASSUME EditInv, [Next]_vars PROVE EditInv'
  OBVIOUS
<1>1. EditNext \/ Unmounted \/ UNCHANGED editVars
  BY DEF Next, Go, SignOut, SignedOut, SignIn, vars
<1> QED BY <1>1, EditStep, UnmountedInv, EditUnchanged

(* The inductive invariant of the editing of hiring requests.                *)
THEOREM EditInvariance == Spec => []EditInv
<1>1. Init => EditInv
  BY EditInitInv DEF Init
<1> QED BY <1>1, EditNextInv, PTL DEF Spec

(* For any rows and bounds: what a request carries was shown for the row it  *)
(* is sent to.                                                               *)
THEOREM RequestsMatchRows == Spec => []SentToItsRow
<1>1. EditInv => SentToItsRow
  BY DEF EditInv
<1> QED BY <1>1, EditInvariance, PTL

(* For any rows and bounds: the form never has two requests in flight, and   *)
(* its button is disabled while it has one or one got no answer.             *)
THEOREM FormSendsOnce == Spec => []SubmitOnce
<1>1. EditInv => SubmitOnce
  <2> SUFFICES ASSUME EditInv PROVE SubmitOnce
    OBVIOUS
  <2> DEFINE sent0 == {i \in DOMAIN writes : writes[i].kind = "form"}
  <2>1. Cardinality(sent0) <= 1
    <3>1. CASE sent0 = {}
      BY <3>1, FS_EmptySet
    <3>2. CASE sent0 # {}
      <4>1. PICK i \in sent0 : TRUE
        BY <3>2
      <4>2. sent0 = {i}
        BY <4>1 DEF EditInv, OneForm, IsForm
      <4>3. Cardinality({i}) = 1
        BY FS_Singleton
      <4> QED BY <4>2, <4>3
    <3> QED BY <3>1, <3>2
  <2>2. submitting <=> (sent0 # {} \/ stuck)
    BY DEF EditInv, Busy, IsForm
  <2> QED BY <2>1, <2>2 DEF SubmitOnce
<1> QED BY <1>1, EditInvariance, PTL

-----------------------------------------------------------------------------
(* Uploads: unless a file has been cleared, what is parsed, sent and shown   *)
(* is the one file that is chosen; only an upload in flight has sent one.    *)
OfFile ==
  /\ \A f, g \in file : f = g
  /\ \A r \in result : cleared \/ file = {r.of}
  /\ preview # {} => cleared \/ preview = file
  /\ \A f \in parsing \cup sent : cleared \/ file = {f}

InFlight == uploading => result = {}
SentUploading == sent # {} => uploading

AtItsEnd ==
  pipeline /\ ~late /\ ~uploadCrashed =>
    \A r \in result : r.ok => stages = Marked("done")

UploadInv == OfFile /\ InFlight /\ SentUploading /\ AtItsEnd

(* "completed" comes after all four stages. *)
LEMMA CompletedMarksAll == Marks("completed") = Marked("done")
<1>1. Place("completed") = 5
  BY DEF Place, Order
<1>2. \A i \in 1 .. 4 : Marks("completed")[i] = "done"
  BY <1>1 DEF Marks
<1> QED
  BY <1>2 DEF Marks, Marked

LEMMA UploadStep == ASSUME UploadInv, UploadNext PROVE UploadInv'
<1> USE DEF UploadInv, OfFile, InFlight, SentUploading, AtItsEnd
<1>1. ASSUME NEW f \in File, Choose(f) PROVE UploadInv'
  BY <1>1 DEF Choose, Shows, ImportShows, PipelineShows
<1>2. ASSUME NEW f \in File, Parsed(f) PROVE UploadInv'
  BY <1>2 DEF Parsed
<1>3. CASE HandleUpload
  BY <1>3 DEF HandleUpload
<1>4. CASE ClearFile
  BY <1>4 DEF ClearFile
<1>5. ASSUME NEW o \in {"ok", "error", "failed"}, UploadAnswered(o) PROVE UploadInv'
  <2>1. OfFile' /\ InFlight' /\ SentUploading'
    BY <1>5 DEF UploadAnswered
  <2>2. AtItsEnd'
    <3>1. CASE o = "error"
      BY <1>5, <3>1 DEF UploadAnswered
    <3>2. CASE o # "error"
      <4> SUFFICES ASSUME pipeline', NEW r \in result', r.ok
                   PROVE  stages' = Marked("done")
        OBVIOUS
      <4>1. pipeline /\ result' = {[of |-> f, ok |-> o = "ok"] : f \in sent}
        BY <1>5 DEF UploadAnswered
      <4>2. PICK f \in sent : r = [of |-> f, ok |-> o = "ok"]
        BY <4>1
      <4>3. o = "ok"
        BY <4>2
      <4>4. stages' = Marks("completed")
        BY <1>5, <4>1, <4>3 DEF UploadAnswered
      <4> QED BY <4>4, CompletedMarksAll
    <3> QED BY <3>1, <3>2
  <2> QED BY <2>1, <2>2
<1>6. CASE Listen
  BY <1>6 DEF Listen
<1>7. ASSUME NEW stage \in DOMAIN Order \cup {"failed"}, Progress(stage) PROVE UploadInv'
  BY <1>7 DEF Progress
<1> QED BY <1>1, <1>2, <1>3, <1>4, <1>5, <1>6, <1>7 DEF UploadNext

LEMMA UploadNextInv == UploadInv /\ [Next]_vars => UploadInv'
<1> SUFFICES ASSUME UploadInv, [Next]_vars PROVE UploadInv'
  OBVIOUS
<1>1. UploadNext \/ (\E ai \in BOOLEAN : OpenUpload(ai)) \/ UNCHANGED uploadVars
  BY DEF Next, Go, SignOut, SignedOut, SignIn, vars
<1>2. CASE \E ai \in BOOLEAN : OpenUpload(ai)
  BY <1>2 DEF OpenUpload, UploadInv, OfFile, InFlight, SentUploading, AtItsEnd
<1>3. CASE UNCHANGED uploadVars
  BY <1>3 DEF uploadVars, UploadInv, OfFile, InFlight, SentUploading, AtItsEnd
<1> QED BY <1>1, <1>2, <1>3, UploadStep

(* For any files: a result on an upload page is that of the file it shows,   *)
(* unless the file was cleared while it was on its way.                      *)
THEOREM ResultsMatchFiles == Spec => []ResultOfFile
<1>1. Init => UploadInv
  BY DEF Init, UploadInit, UploadInv, OfFile, InFlight, SentUploading, AtItsEnd
<1>2. UploadInv => ResultOfFile
  BY DEF UploadInv, OfFile, AtItsEnd, ResultOfFile, Shows
<1> QED BY <1>1, <1>2, UploadNextInv, PTL DEF Spec

-----------------------------------------------------------------------------
(* The sign-out: from its request on, nothing is stored without a mark.      *)
Forgotten == leaving \/ page = "out" => stored = <<>> \/ remembered

LEMMA ForgottenNext == Forgotten /\ [Next]_vars => Forgotten'
<1> SUFFICES ASSUME Forgotten, [Next]_vars PROVE Forgotten'
  OBVIOUS
<1> USE DEF Forgotten
<1>1. ASSUME NEW p \in Pages, Go(p) PROVE Forgotten'
  BY <1>1 DEF Go, Pages
<1>2. CASE SignOut
  BY <1>2 DEF SignOut, ClearStorage
<1>3. CASE SignedOut
  BY <1>3 DEF SignedOut, LeaveChat
<1>4. CASE SignIn
  BY <1>4 DEF SignIn, chatVars
<1>5. CASE page = "chat" /\ ChatNext(leaving) /\ UNCHANGED <<page, leaving>>
  <2>1. remembered' = (remembered \/ leaving)
    BY <1>5 DEF ChatNext, SendMessage, StartNewChat, Answered, Shown
  <2> QED BY <1>5, <2>1
<1>6. CASE UNCHANGED <<page, leaving, chatVars>>
  BY <1>6 DEF chatVars
<1> QED BY <1>1, <1>2, <1>3, <1>4, <1>5, <1>6 DEF Next, vars

(* A sign-out leaves nothing of the chat to who signs in next, but for an    *)
(* answer that arrives during the sign-out.                                  *)
THEOREM NothingRemembered == Spec => []SignOutForgets
<1>1. Init => Forgotten
  BY DEF Init, ChatInit, Forgotten
<1>2. Forgotten => SignOutForgets
  BY DEF Forgotten, SignOutForgets
<1> QED BY <1>1, <1>2, ForgottenNext, PTL DEF Spec

-----------------------------------------------------------------------------
(* The chat: what is shown and what is stored are talks.  The questions of a *)
(* talk are numbered upwards, and every message of it has its counterpart.   *)
Message == [of : Nat, by : {"user", "assistant"}]

Numbered(ms) ==
  /\ ms \in Seq(Message)
  /\ \A i \in DOMAIN ms : ms[i].of <= asked
  /\ \A i, j \in DOMAIN ms :
       i < j /\ ms[i].by = "user" /\ ms[j].by = "user" => ms[i].of < ms[j].of

Paired(ms) ==
  ~renewed => \A i \in DOMAIN ms :
    IF ms[i].by = "assistant"
    THEN i > 1 /\ ms[i - 1] = Said(ms[i].of, "user")
    ELSE \/ ms[i].of \in pending \cup unanswered
         \/ i < Len(ms) /\ ms[i + 1] = Said(ms[i].of, "assistant")

Talk(ms) == Numbered(ms) /\ Paired(ms)

(* But for a chat that was renewed, a question in flight is the last message *)
(* and the only one in flight, and the input is disabled.                    *)
LastAsked ==
  ~renewed => \A n \in pending :
    /\ chatLoading /\ pending = {n}
    /\ messages # <<>> /\ messages[Len(messages)] = Said(n, "user")

Asked == asked \in Nat /\ \A n \in pending : n \in Nat /\ n <= asked

AwayQuiet == page # "chat" => pending = {}

ChatInv == Talk(messages) /\ Talk(stored) /\ LastAsked /\ Asked /\ AwayQuiet

(* What Append makes of a talk.                                              *)
LEMMA Appended ==
  ASSUME NEW ms \in Seq(Message), NEW m \in Message
  PROVE  /\ Append(ms, m) \in Seq(Message)
         /\ Len(ms) \in Nat /\ DOMAIN ms = 1 .. Len(ms)
         /\ Len(Append(ms, m)) = Len(ms) + 1
         /\ DOMAIN Append(ms, m) = 1 .. (Len(ms) + 1)
         /\ \A i \in 1 .. Len(ms) : Append(ms, m)[i] = ms[i]
         /\ Append(ms, m)[Len(ms) + 1] = m
         /\ Append(ms, m) # <<>>
  OBVIOUS

LEMMA EmptyTalk == Talk(<<>>) /\ Talk(<<>>)'
  BY DEF Talk, Numbered, Paired

LEMMA SendMessageInv ==
  ASSUME ChatInv, page = "chat", page' = "chat", SendMessage(leaving) PROVE ChatInv'
<1> USE DEF ChatInv, Talk
<1> DEFINE ms == messages
           m == Said(asked + 1, "user")
<1>1. /\ asked' = asked + 1 /\ pending' = pending \cup {asked + 1}
      /\ messages' = Append(ms, m) /\ stored' = messages' /\ chatLoading' = TRUE
      /\ UNCHANGED <<unanswered, renewed>>
  BY DEF SendMessage, Shown
<1>2. m \in Message /\ m.of = asked + 1 /\ m.by = "user" /\ ms \in Seq(Message) /\ asked \in Nat
  BY DEF Said, Message, Numbered, Asked
<1> HIDE DEF m
<1>3. /\ messages' \in Seq(Message) /\ Len(ms) \in Nat /\ DOMAIN ms = 1 .. Len(ms)
      /\ Len(messages') = Len(ms) + 1 /\ DOMAIN messages' = 1 .. (Len(ms) + 1)
      /\ \A i \in 1 .. Len(ms) : messages'[i] = ms[i]
      /\ messages'[Len(ms) + 1] = m /\ messages' # <<>>
  BY <1>1, <1>2, Appended
<1>4. \A i \in DOMAIN ms : ms[i].of \in Nat
  <2>1. \A i \in DOMAIN ms : ms[i] \in Message
    BY <1>2
  <2> QED BY <2>1 DEF Message
<1>5. Numbered(messages)'
  BY <1>1, <1>2, <1>3, <1>4 DEF Numbered
<1>6. Paired(messages)'
  <2> SUFFICES ASSUME ~renewed, NEW i \in DOMAIN messages'
               PROVE  IF messages'[i].by = "assistant"
                      THEN i > 1 /\ messages'[i - 1] = Said(messages'[i].of, "user")
                      ELSE \/ messages'[i].of \in pending' \cup unanswered'
                           \/ /\ i < Len(messages')
                              /\ messages'[i + 1] = Said(messages'[i].of, "assistant")
    BY <1>1 DEF Paired
  <2>1. CASE i \in DOMAIN ms
    <3>1. CASE ms[i].by = "assistant"
      BY <1>3, <2>1, <3>1 DEF Paired
    <3>2. CASE ms[i].by # "assistant"
      BY <1>1, <1>3, <2>1, <3>2 DEF Paired
    <3> QED BY <3>1, <3>2
  <2>2. CASE i = Len(ms) + 1
    BY <1>1, <1>2, <1>3, <2>2
  <2> QED BY <1>3, <2>1, <2>2
<1>7. Talk(messages)' /\ Talk(stored)'
  BY <1>1, <1>5, <1>6 DEF Numbered, Paired
<1>8. ~renewed => pending = {}
  BY DEF SendMessage, LastAsked
<1>9. LastAsked' /\ Asked' /\ AwayQuiet'
  BY <1>1, <1>2, <1>3, <1>8 DEF LastAsked, Asked, AwayQuiet, m
<1> QED BY <1>7, <1>9

LEMMA AnsweredInv ==
  ASSUME ChatInv, page = "chat", page' = "chat", NEW n \in pending, Answered(n, leaving)
  PROVE  ChatInv'
<1> USE DEF ChatInv, Talk
<1> DEFINE ms == messages
           m == Said(n, "assistant")
<1>1. /\ pending' = pending \ {n} /\ messages' = Append(ms, m) /\ stored' = messages'
      /\ UNCHANGED <<asked, unanswered, renewed>>
  BY DEF Answered, Shown
<1>2. /\ m \in Message /\ m.of = n /\ m.by = "assistant" /\ ms \in Seq(Message)
      /\ n \in Nat /\ n <= asked
  BY DEF Said, Message, Numbered, Asked
<1> HIDE DEF m
<1>3. /\ messages' \in Seq(Message) /\ Len(ms) \in Nat /\ DOMAIN ms = 1 .. Len(ms)
      /\ Len(messages') = Len(ms) + 1 /\ DOMAIN messages' = 1 .. (Len(ms) + 1)
      /\ \A i \in 1 .. Len(ms) : messages'[i] = ms[i]
      /\ messages'[Len(ms) + 1] = m
  BY <1>1, <1>2, Appended
<1>4. \A i \in DOMAIN ms : ms[i].of \in Nat /\ ms[i].by \in {"user", "assistant"}
  <2>1. \A i \in DOMAIN ms : ms[i] \in Message
    BY <1>2
  <2> QED BY <2>1 DEF Message
<1>5. Numbered(messages)'
  BY <1>1, <1>2, <1>3, <1>4 DEF Numbered
<1>6. Paired(messages)'
  <2> SUFFICES ASSUME ~renewed, NEW i \in DOMAIN messages'
               PROVE  IF messages'[i].by = "assistant"
                      THEN i > 1 /\ messages'[i - 1] = Said(messages'[i].of, "user")
                      ELSE \/ messages'[i].of \in pending' \cup unanswered'
                           \/ /\ i < Len(messages')
                              /\ messages'[i + 1] = Said(messages'[i].of, "assistant")
    BY <1>1 DEF Paired
  <2>1. /\ Len(ms) > 0 /\ Len(ms) \in DOMAIN ms /\ ms[Len(ms)] = Said(n, "user")
        /\ pending = {n}
    BY <1>2, <1>3 DEF LastAsked
  <2>2. ms[Len(ms)].of = n /\ ms[Len(ms)].by = "user"
    BY <2>1 DEF Said
  <2>3. CASE i = Len(ms) + 1
    BY <1>2, <1>3, <2>1, <2>3
  <2>4. CASE i = Len(ms)
    BY <1>3, <2>1, <2>2, <2>4 DEF m
  <2>5. CASE i \in DOMAIN ms /\ i # Len(ms)
    <3>1. CASE ms[i].by = "assistant"
      BY <1>3, <2>5, <3>1 DEF Paired
    <3>2. CASE ms[i].by # "assistant"
      <4>1. ms[i].of < n
        BY <1>3, <1>4, <2>1, <2>2, <2>5, <3>2 DEF Numbered
      <4>2. ms[i].of \notin pending
        BY <1>2, <1>4, <2>1, <2>5, <4>1
      <4> QED BY <1>1, <1>3, <2>5, <3>2, <4>2 DEF Paired
    <3> QED BY <3>1, <3>2
  <2> QED BY <1>3, <2>3, <2>4, <2>5
<1>7. Talk(messages)' /\ Talk(stored)'
  BY <1>1, <1>5, <1>6 DEF Numbered, Paired
<1>8. LastAsked' /\ Asked' /\ AwayQuiet'
  BY <1>1 DEF LastAsked, Asked, AwayQuiet
<1> QED BY <1>7, <1>8

LEMMA ChatNextInv == ChatInv /\ [Next]_vars => ChatInv'
<1> SUFFICES ASSUME ChatInv, [Next]_vars PROVE ChatInv'
  OBVIOUS
<1> USE DEF ChatInv
<1>1. CASE page = "chat" /\ ChatNext(leaving) /\ UNCHANGED page
  <2>1. CASE StartNewChat(leaving)
    BY <1>1, <2>1, EmptyTalk DEF StartNewChat, Shown, Talk, Numbered, Paired, LastAsked, Asked,
                                AwayQuiet
  <2> QED BY <1>1, <2>1, SendMessageInv, AnsweredInv DEF ChatNext
<1>2. CASE LeaveChat
  BY <1>2 DEF LeaveChat, Talk, Numbered, Paired, LastAsked, Asked, AwayQuiet
<1>3. CASE OpenChat /\ page # "chat"
  BY <1>3 DEF OpenChat, Talk, Numbered, Paired, LastAsked, Asked, AwayQuiet
<1>4. CASE SignOut
  BY <1>4 DEF SignOut, ClearStorage, Talk, Numbered, Paired, LastAsked, Asked, AwayQuiet
<1>5. CASE UNCHANGED chatVars /\ (UNCHANGED page \/ page # "chat")
  BY <1>5 DEF chatVars, Talk, Numbered, Paired, LastAsked, Asked, AwayQuiet
<1> QED BY <1>1, <1>2, <1>3, <1>4, <1>5 DEF Next, Go, SignedOut, SignIn, vars, chatVars

(* For any bound on the questions: every answer in the chat follows its own  *)
(* question, unless a new chat was started with a question in flight.        *)
THEOREM ChatAnswersQuestions == Spec => []AnswersHaveQuestions
<1>1. Init => ChatInv
  BY DEF Init, ChatInit, ChatInv, Talk, Numbered, Paired, LastAsked, Asked, AwayQuiet
<1>2. ChatInv => AnswersHaveQuestions
  BY DEF ChatInv, Talk, Numbered, Paired, Message, AnswersHaveQuestions
<1> QED BY <1>1, <1>2, ChatNextInv, PTL DEF Spec

-----------------------------------------------------------------------------
(* The data pages: the invariant.                                            *)
FetchOf(F) == [filter : F, served : BOOLEAN, ver : Nat]

DataTyped ==
  /\ part \in {"view", "badge"} /\ route \in Routes
  /\ loading \in BOOLEAN /\ crashed \in BOOLEAN /\ timer \in BOOLEAN
  /\ server \in 0 .. MaxVersion
  /\ \E F : fetches \in Seq(FetchOf(F))

(* The home page before the session is known, and without one; the badge of  *)
(* a page without layout.                                                    *)
NoData ==
  \/ part = "view" /\ filter \in {"loading", "out"}
  \/ part = "badge" /\ ~InLayout(route)

(* The page will fetch, or crashed. *)
WillFetch == crashed \/ inbox # {} \/ timer

(* The fetch sent last brings what there is now for the current filter.      *)
LastIsNow ==
  /\ fetches # <<>>
  /\ fetches[Len(fetches)].filter = filter
  /\ fetches[Len(fetches)].served => fetches[Len(fetches)].ver = server

Fresh ==
  excused = {} => NoData \/ WillFetch \/ LastIsNow \/ (fetches = <<>> /\ Current)

LoadingHasReason == loading => fetches # <<>> \/ timer

DataInv == DataTyped /\ Fresh /\ LoadingHasReason

LEMMA FetchesGrow ==
  ASSUME NEW A, NEW B, A \subseteq B, NEW s \in Seq(FetchOf(A)) PROVE s \in Seq(FetchOf(B))
<1>1. FetchOf(A) \subseteq FetchOf(B)
  BY DEF FetchOf
<1> QED
  BY <1>1, SeqMonotonic

(* A fetch that is sent is the newest one.                                   *)
LEMMA Sent ==
  ASSUME DataInv, NEW f, SendsFetch(f)
  PROVE  /\ \E F : fetches' \in Seq(FetchOf(F))
         /\ fetches' # <<>>
         /\ excused' = {} => LastIsNow'
<1>1. PICK F : fetches \in Seq(FetchOf(F))
  BY DEF DataInv, DataTyped
<1> DEFINE G == F \cup {f}
<1>2. fetches \in Seq(FetchOf(G)) /\ Fetch(f) \in FetchOf(G)
  BY <1>1, FetchesGrow DEF Fetch, FetchOf
<1> HIDE DEF G
<1>3. fetches' = Append(fetches, Fetch(f))
  BY DEF SendsFetch
<1>4. /\ fetches' \in Seq(FetchOf(G)) /\ fetches' # <<>>
      /\ fetches'[Len(fetches')] = Fetch(f)
  BY <1>2, <1>3
<1>5. excused' = {} => f = filter'
  BY DEF SendsFetch
<1> QED
  BY <1>4, <1>5 DEF LastIsNow, Fetch

LEMMA Mounts ==
  ASSUME DataInv, NEW p \in DataPage, NEW ws, Mount(p, ws) PROVE DataInv'
<1> DEFINE fetch == Fetch(filter')
<1>1. p \in Routes /\ route' = p /\ part' = part
  BY DataPagesAssumption DEF Mount
<1>2. fetches' = IF timer' \/ (p = "home" /\ ~loading') THEN <<>> ELSE <<fetch>>
  BY DEF Mount
<1>3. fetch \in FetchOf({filter'})
  BY DEF Fetch, FetchOf
<1>4. /\ <<fetch>> \in Seq(FetchOf({filter'})) /\ <<>> \in Seq(FetchOf({filter'}))
      /\ Len(<<fetch>>) = 1 /\ <<fetch>> # <<>>
  BY <1>3
<1>5. \E F : fetches' \in Seq(FetchOf(F))
  BY <1>2, <1>4
<1>6. /\ timer' \in BOOLEAN /\ loading' \in BOOLEAN /\ crashed' \in BOOLEAN
      /\ server' \in 0 .. MaxVersion
  <2>1. /\ timer' = (p = "requisitions" /\ part = "view")
        /\ loading' = (part = "view" /\ (p = "home" => filter' \in SignedIn))
        /\ crashed' = FALSE /\ server' = 0
    BY Zenon DEF Mount
  <2>2. /\ (p = "requisitions" /\ part = "view") \in BOOLEAN
        /\ (part = "view" /\ (p = "home" => filter' \in SignedIn)) \in BOOLEAN
        /\ FALSE \in BOOLEAN
    OBVIOUS
  <2>3. timer' \in BOOLEAN /\ loading' \in BOOLEAN /\ crashed' \in BOOLEAN
    BY <2>1, <2>2, Zenon
  <2>4. server' \in 0 .. MaxVersion
    BY <2>1, DataPagesAssumption
  <2> QED
    BY <2>3, <2>4
<1>7. DataTyped'
  BY <1>1, <1>5, <1>6 DEF DataInv, DataTyped
<1>8. CASE ~timer' /\ (p = "home" => loading')
  <2>1. fetches' = <<fetch>>
    BY <1>2, <1>8
  <2>2. LastIsNow'
    BY <2>1, <1>4 DEF LastIsNow, Fetch
  <2> QED
    BY <1>7, <2>1, <2>2, <1>4 DEF DataInv, Fresh, LoadingHasReason
<1>9. CASE timer'
  BY <1>7, <1>9 DEF DataInv, Fresh, WillFetch, LoadingHasReason
<1>10. CASE p = "home" /\ ~loading'
  <2>1. NoData'
    <3>1. part \in {"view", "badge"} /\ filter' \in Sessions
          /\ (part = "view" => filter' \notin SignedIn)
      BY <1>10 DEF Mount, DataInv, DataTyped
    <3> QED
      BY <1>1, <1>10, <3>1 DEF NoData, InLayout, Sessions, SignedIn
  <2> QED
    BY <1>7, <1>10, <2>1 DEF DataInv, Fresh, LoadingHasReason
<1> QED
  BY <1>8, <1>9, <1>10

LEMMA Fetches ==
  ASSUME DataInv, NEW f, SendsFetch(f), UNCHANGED <<part, route, server>>,
         loading' \in BOOLEAN, crashed' \in BOOLEAN, timer' \in BOOLEAN
  PROVE  DataInv'
BY Sent DEF DataInv, DataTyped, Fresh, LoadingHasReason

LEMMA SessionKnownStep ==
  ASSUME DataInv, NEW s, SessionKnown(s) PROVE DataInv'
<1>1. /\ UNCHANGED <<part, route, server, loading, timer>>
      /\ crashed' \in BOOLEAN
  BY DEF SessionKnown
<1>2. CASE s = "out" \/ part = "badge" \/ crashed'
  <2>1. fetches' = fetches
    BY <1>2 DEF SessionKnown, Silent
  <2>2. NoData' \/ crashed'
    BY <1>1, <1>2 DEF SessionKnown, NoData, InLayout, DataInv, DataTyped
  <2>3. Fresh'
    BY <2>2 DEF Fresh, WillFetch
  <2> QED
    BY <1>1, <2>1, <2>3 DEF DataInv, DataTyped, LoadingHasReason
<1>3. CASE ~(s = "out" \/ part = "badge" \/ crashed')
  <2>1. SendsFetch(s)
    BY <1>3 DEF SessionKnown
  <2> QED
    BY <1>1, <2>1, Fetches DEF DataInv, DataTyped
<1> QED
  BY <1>2, <1>3

LEMMA SetFilterStep ==
  ASSUME DataInv, NEW f, SetFilter(f) PROVE DataInv'
<1>1. /\ UNCHANGED <<part, route, server, crashed>>
      /\ loading' \in BOOLEAN /\ timer' \in BOOLEAN
  BY DEF SetFilter, DataInv, DataTyped
<1>2. CASE SendsFetch(f)
  BY <1>1, <1>2, Fetches DEF DataInv, DataTyped
<1>3. CASE timer' /\ fetches' = fetches
  BY <1>1, <1>3 DEF DataInv, DataTyped, Fresh, WillFetch, LoadingHasReason
<1> QED
  BY <1>2, <1>3 DEF SetFilter, Silent

LEMMA TimerFiresStep ==
  ASSUME DataInv, TimerFires PROVE DataInv'
<1>1. /\ UNCHANGED <<part, route, server, crashed>>
      /\ loading' \in BOOLEAN /\ timer' \in BOOLEAN /\ SendsFetch(filter)
  BY DEF TimerFires
<1> QED
  BY <1>1, Fetches DEF DataInv, DataTyped

LEMMA DeliverStep ==
  ASSUME DataInv, NEW m, Deliver(m) PROVE DataInv'
<1>1. UNCHANGED <<part, route, server, crashed, loading, timer>> /\ SendsFetch(filter)
  BY DEF Deliver
<1> QED
  BY <1>1, Fetches DEF DataInv, DataTyped

(* What changes on the server and is not excused is on its way to the page.  *)
LEMMA ServerSteps ==
  ASSUME DataInv, UNCHANGED <<part, route, filter, loading, crashed, timer, fetches>>,
         inbox \subseteq inbox', server' \in 0 .. MaxVersion,
         excused' = {} => excused = {} /\ (inbox' # {} \/ (server' = server /\ shown' = shown))
  PROVE  DataInv'
<1>1. CASE excused' # {}
  BY <1>1 DEF DataInv, DataTyped, Fresh, LoadingHasReason
<1>2. CASE excused' = {} /\ inbox' # {}
  BY <1>2 DEF DataInv, DataTyped, Fresh, WillFetch, LoadingHasReason
<1>3. CASE excused' = {} /\ inbox' = {} /\ server' = server /\ shown' = shown
  BY <1>3 DEF DataInv, DataTyped, Fresh, WillFetch, LoadingHasReason, NoData, InLayout, LastIsNow,
              Current
<1> QED
  BY <1>1, <1>2, <1>3

LEMMA OthersStep ==
  ASSUME DataInv, Others PROVE DataInv'
<1>1. ASSUME NEW T, NEW m, Changes(T, m)
      PROVE  /\ inbox \subseteq inbox' /\ server' \in 0 .. MaxVersion
             /\ excused' = {} => excused = {} /\ (inbox' # {} \/ server' = server)
  BY <1>1, DataPagesAssumption DEF Changes, DataInv, DataTyped
<1>2. PICK T, m : Changes(T, m)
  BY DEF Others
<1> QED
  BY <1>1, <1>2, ServerSteps DEF Others

LEMMA SocketStep ==
  ASSUME DataInv, Socket PROVE DataInv'
BY ServerSteps DEF Socket, DataInv, DataTyped

LEMMA ServeWriteStep ==
  ASSUME DataInv, NEW i, ServeWrite(i) PROVE DataInv'
<1>1. server' \in 0 .. MaxVersion
  BY DataPagesAssumption DEF ServeWrite, DataInv, DataTyped
<1>2. excused' = {} => excused = {} /\ inbox' # {}
  BY DEF ServeWrite
<1> QED
  BY <1>1, <1>2, ServerSteps DEF ServeWrite

LEMMA SubmitWriteStep ==
  ASSUME DataInv, SubmitWrite PROVE DataInv'
BY ServerSteps DEF SubmitWrite, DataInv, DataTyped

LEMMA AnswerWriteStep ==
  ASSUME DataInv, NEW i, NEW o, AnswerWrite(i, o) PROVE DataInv'
<1>1. UNCHANGED <<part, route, server, crashed, timer, filter, shown, inbox>>
  BY DEF AnswerWrite
<1>2. CASE SendsFetch(own[i].filter) /\ loading' \in BOOLEAN
  BY <1>1, <1>2, Fetches DEF DataInv, DataTyped
<1>3. CASE UNCHANGED <<loading, fetches, excused>>
  BY <1>1, <1>3, ServerSteps DEF DataInv, DataTyped
<1> QED
  BY <1>2, <1>3 DEF AnswerWrite, Silent

LEMMA ServeStep ==
  ASSUME DataInv, NEW i, Serve(i) PROVE DataInv'
<1>1. PICK F : fetches \in Seq(FetchOf(F))
  BY DEF DataInv, DataTyped
<1>2. server \in Nat /\ i \in DOMAIN fetches
  BY DEF DataInv, DataTyped, Serve
<1> DEFINE g == [filter |-> fetches[i].filter, served |-> TRUE, ver |-> server]
<1>3. /\ g \in FetchOf(F) /\ g.filter = fetches[i].filter /\ g.ver = server
  <2>1. fetches[i] \in FetchOf(F)
    BY <1>1, <1>2
  <2>2. fetches[i].filter \in F
    BY <2>1 DEF FetchOf
  <2> QED
    BY <1>2, <2>2 DEF FetchOf
<1>4. fetches' = [fetches EXCEPT ![i] = g]
  BY <1>2 DEF Serve
<1> HIDE DEF g
<1>5. /\ fetches' \in Seq(FetchOf(F)) /\ Len(fetches') = Len(fetches) /\ fetches' # <<>>
      /\ fetches # <<>>
      /\ \A j \in DOMAIN fetches : fetches'[j] = IF j = i THEN g ELSE fetches[j]
  BY <1>1, <1>2, <1>3, <1>4
<1>6. LastIsNow => LastIsNow'
  BY <1>1, <1>3, <1>5 DEF Serve, LastIsNow
<1>7. Fresh'
  BY <1>5, <1>6 DEF DataInv, Fresh, Serve, NoData, InLayout, WillFetch
<1> QED
  BY <1>5, <1>7 DEF DataInv, DataTyped, LoadingHasReason, Serve

LEMMA AnswerStep ==
  ASSUME DataInv, NEW i, NEW o, Answer(i, o) PROVE DataInv'
<1>1. PICK F : fetches \in Seq(FetchOf(F))
  BY DEF DataInv, DataTyped
<1>2. i \in DOMAIN fetches /\ fetches' = RemoveAt(fetches, i)
  BY DEF Answer
<1>0. i \in Nat /\ Len(fetches) \in Nat /\ 1 <= i /\ i <= Len(fetches)
  BY <1>1, <1>2
<1>3. /\ fetches' \in Seq(FetchOf(F)) /\ Len(fetches') = Len(fetches) - 1
      /\ \A j \in 1 .. (Len(fetches) - 1) :
           fetches'[j] = fetches[IF j < i THEN j ELSE j + 1]
  BY <1>1, <1>2, Removed
<1>4. CASE i = Len(fetches) /\ (i > 1 \/ o # "ok")
  <2>1. excused' # {}
    BY <1>4 DEF Answer, Excuse
  <2> QED
    BY <1>3, <2>1 DEF Answer, DataInv, DataTyped, Fresh, LoadingHasReason
<1>5. CASE i < Len(fetches)
  <2>1. excused' = excused
    <3>1. excused' = Excuse(i, o)
      BY DEF Answer
    <3>2. i # Len(fetches) /\ Len(fetches) # 1
      <4>1. \A j, n \in Nat : 1 <= j /\ j < n => ~(j = n) /\ ~(n = 1)
        OBVIOUS
      <4> QED
        BY <1>0, <1>5, <4>1
    <3> QED
      BY <3>1, <3>2 DEF Excuse
  <2>2. fetches' # <<>> /\ fetches'[Len(fetches')] = fetches[Len(fetches)]
    BY <1>1, <1>2, <1>3, <1>5
  <2>3. Fresh'
    BY <2>1, <2>2, <1>1, <1>2 DEF Answer, DataInv, Fresh, NoData, InLayout, WillFetch, LastIsNow
  <2> QED
    BY <1>3, <2>2, <2>3 DEF Answer, DataInv, DataTyped, LoadingHasReason
<1>6. CASE Len(fetches) = 1 /\ i = 1 /\ o = "ok"
  <2>1. fetches' = <<>> /\ fetches # <<>>
    BY <1>1, <1>3, <1>6
  <2>2. LastIsNow => Current'
    BY <1>6 DEF Answer, LastIsNow, Current
  <2>3. excused' = {} => excused = {} \/ Current'
    BY <1>6 DEF Answer, Excuse, Current
  <2>4. Fresh'
    BY <2>1, <2>2, <2>3 DEF Answer, DataInv, Fresh, NoData, InLayout, WillFetch
  <2> QED
    BY <1>3, <2>1, <2>4 DEF Answer, DataInv, DataTyped, LoadingHasReason
<1> QED
  <2>1. i = Len(fetches) \/ i < Len(fetches)
    BY <1>0
  <2>2. i = Len(fetches) /\ ~(i > 1) => Len(fetches) = 1 /\ i = 1
    BY <1>0
  <2> QED
    BY <1>4, <1>5, <1>6, <2>1, <2>2

LEMMA DataNextInv ==
  ASSUME DataInv, [DataNext]_dataVars PROVE DataInv'
<1>1. ASSUME NEW p \in DataPage, Open(p) \/ Click(p) PROVE DataInv'
  BY <1>1, Mounts DEF Open, Click
<1>2. ASSUME Redirect PROVE DataInv'
  BY <1>2, Mounts DEF Redirect
<1>3. ASSUME UNCHANGED dataVars PROVE DataInv'
  BY <1>3 DEF dataVars, DataInv, DataTyped, Fresh, LoadingHasReason, NoData, InLayout, WillFetch,
              LastIsNow, Current
<1> QED
  BY <1>1, <1>2, <1>3, SessionKnownStep, SetFilterStep, TimerFiresStep, DeliverStep, OthersStep,
     SocketStep, ServeStep, AnswerStep, SubmitWriteStep, ServeWriteStep, AnswerWriteStep
  DEF DataNext

LEMMA DataInitInv == DataInit => DataInv
<1> SUFFICES ASSUME DataInit PROVE DataInv
  OBVIOUS
<1>1. <<>> \in Seq(FetchOf({}))
  OBVIOUS
<1>2. DataTyped
  <2>1. \E F : fetches \in Seq(FetchOf(F))
    BY <1>1 DEF DataInit
  <2>2. /\ part \in {"view", "badge"} /\ route \in Routes /\ server \in 0 .. MaxVersion
        /\ loading = FALSE /\ crashed = FALSE /\ timer = FALSE
    BY DataPagesAssumption DEF DataInit, Routes
  <2> QED
    BY <2>1, <2>2 DEF DataTyped
<1>3. NoData
  BY DEF DataInit, NoData, InLayout
<1> QED
  BY <1>2, <1>3 DEF DataInit, DataInv, Fresh, LoadingHasReason

LEMMA CurrentIsDisplayed ==
  ASSUME DataInv, Settled, excused = {}
  PROVE  /\ part = "view" /\ filter \notin {"loading", "out"} => Display = "data" /\ Current
         /\ part = "badge" /\ InLayout(route) => Current
<1>1. NoData \/ Current
  BY DEF DataInv, Fresh, Settled, WillFetch, LastIsNow
<1>2. ASSUME part = "view", filter \notin {"loading", "out"} PROVE Display = "data" /\ Current
  <2>1. Current /\ ~loading
    BY <1>1, <1>2 DEF NoData, DataInv, LoadingHasReason, Settled
  <2>2. Content = "data"
    BY <2>1 DEF Current, Content
  <2>3. shown # {ErrorObject}
    <3>1. server # MaxVersion + 1
      BY DataPagesAssumption DEF DataInv, DataTyped
    <3>2. [filter |-> filter, ver |-> server] # ErrorObject
      <4>1. [filter |-> filter, ver |-> server].ver # ErrorObject.ver
        BY <3>1 DEF ErrorObject
      <4> QED
        BY <4>1
    <3> QED
      BY <2>1, <3>2 DEF Current
  <2>4. Behind("skeleton") = "data"
    BY <2>1, <2>2 DEF Behind
  <2>5. HomeDisplay = "data" /\ DashboardDisplay = "data"
    BY <1>2, <2>1, <2>2, <2>3, <2>4 DEF HomeDisplay, DashboardDisplay
  <2>6. route \in Routes
    BY DEF DataInv, DataTyped
  <2> QED
    BY <1>2, <2>1, <2>4, <2>5, <2>6
    DEF Display, Routes, RequisitionsDisplay, ChangesDisplay, NotificationsDisplay, MarketDisplay
<1> QED
  BY <1>1, <1>2 DEF NoData

(* The inductive invariant of the data pages holds of every reachable state, *)
(* for any pages, filters and bounds, whatever fails and in whatever order   *)
(* answers and messages arrive.                                              *)
THEOREM DataInvariance == DataSpec => []DataInv
<1>1. DataInv /\ [DataNext]_dataVars => DataInv'
  BY DataNextInv
<1> QED
  BY <1>1, DataInitInv, PTL DEF DataSpec

(* When nothing is under way a page shows the newest data for its filter,    *)
(* and the badge the number of unread notifications, with the exceptions the *)
(* property names (the effects of the pages that call fetchData,             *)
(* fetchChanges, fetchNotifications, fetchDashboard, fetchManagers).         *)
THEOREM PagesShowTheNewest == DataSpec => []ScreenIsCurrent
<1>1. DataInv => ScreenIsCurrent
  BY CurrentIsDisplayed DEF ScreenIsCurrent
<1> QED
  BY <1>1, DataInvariance, PTL

(* A window does what its pages do, and nothing else: all theorems of this   *)
(* module hold of Frontend.                                                  *)
THEOREM WindowIsItsPages == FrontendSpec => Spec /\ DataSpec
<1>1. FrontendInit => Init /\ DataInit
  BY DEF FrontendInit
<1>2. [FrontendNext]_allVars => [Next]_vars /\ [DataNext]_dataVars
  BY DEF FrontendNext, allVars
<1> QED
  BY <1>1, <1>2, PTL DEF FrontendSpec, Spec, DataSpec
=============================================================================
