------------------------------ MODULE FormPages ------------------------------
(***************************************************************************)
(* The pages on which users enter something, and the way between them.  A   *)
(* page that is left loses its state; what was sent goes on without it.     *)
(* Only sessionStorage stays, until the user signs out.                     *)
(***************************************************************************)
EXTENDS RequisitionEditing, UploadPages, ChatPage

VARIABLES
  page,          \* "home", or the page that is mounted, or "out"
  leaving        \* is the sign-out in flight?

vars == <<page, leaving, editVars, uploadVars, chatVars>>

Pages == {"home", "requisitions", "import", "pipeline", "chat"}

Init ==
  /\ page = "home" /\ leaving = FALSE
  /\ EditInit /\ UploadInit /\ ChatInit

(* The sidebar and the links between the pages. *)
Go(p) ==
  /\ page \notin {p, "out"} /\ p \in Pages /\ ~leaving
  /\ page' = p
  /\ IF page = "requisitions" THEN Unmounted ELSE UNCHANGED editVars
  /\ OpenUpload(p = "pipeline")
  /\ CASE p = "chat" -> OpenChat [] page = "chat" -> LeaveChat [] OTHER -> UNCHANGED chatVars
  /\ UNCHANGED leaving

(* The button of the layout and of the home page. *)
SignOut ==
  /\ page # "out" /\ ~leaving
  /\ leaving' = TRUE
  /\ ClearStorage
  /\ UNCHANGED <<page, editVars, uploadVars, messages, chatLoading, pending, asked, unanswered>>

SignedOut ==
  /\ leaving
  /\ leaving' = FALSE /\ page' = "out"
  /\ Unmounted /\ OpenUpload(FALSE) /\ LeaveChat

(* The next user of the same window. *)
SignIn ==
  /\ page = "out" /\ page' = "home"
  /\ UNCHANGED <<leaving, editVars, uploadVars, chatVars>>

Next ==
  \/ \E p \in Pages : Go(p)
  \/ SignOut \/ SignedOut \/ SignIn
  \/ page = "requisitions" /\ EditNext /\ UNCHANGED <<page, leaving, uploadVars, chatVars>>
  \/ /\ page \in {"import", "pipeline"} /\ UploadNext
     /\ UNCHANGED <<page, leaving, editVars, chatVars>>
  \/ page = "chat" /\ ChatNext(leaving) /\ UNCHANGED <<page, leaving, editVars, uploadVars>>

Spec == Init /\ [][Next]_vars

-----------------------------------------------------------------------------
(* Who signs out leaves no chat behind for the next user of the window,      *)
(* unless a message was sent or answered before the sign-out took effect,    *)
(* which stores the whole chat again (sessionStorage.clear in the layout and *)
(* the home page, the effect of the chat page).                              *)
SignOutForgets == page = "out" => stored = <<>> \/ remembered
=============================================================================
