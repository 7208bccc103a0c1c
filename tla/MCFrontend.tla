---------------------------- MODULE MCFrontend ----------------------------
(* Small instance of Frontend: six data pages, two hiring requests, two     *)
(* files and two questions.                                                 *)
EXTENDS Frontend

(* Bound: after the first question the other pages of FormPages are not     *)
(* visited, which share no state with the chat.                             *)
ChatLast == asked' > 0 => page' \notin {"requisitions", "import", "pipeline"}

BoundedSpec == FrontendInit /\ [][FrontendNext /\ ChatLast]_allVars /\ DataFairness
=============================================================================
