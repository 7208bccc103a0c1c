------------------------------ MODULE Frontend ------------------------------
(***************************************************************************)
(* A window of the web application, seen from its two sides: what its pages *)
(* show (DataPages) and what the user enters in them (FormPages).  The two  *)
(* share no state but the page that is mounted: a behaviour follows one of  *)
(* them, as a behaviour of DataPages follows either the page or its layout. *)
(***************************************************************************)
EXTENDS FormPages, DataPages

VARIABLE side      \* which of the two is followed: "shown" or "entered"

allVars == <<side, vars, dataVars>>

FrontendInit ==
  /\ Init /\ DataInit
  /\ side \in {"shown", "entered"}
  /\ side = "entered" => part = "view"

FrontendNext ==
  \/ side = "shown" /\ DataNext /\ UNCHANGED <<side, vars>>
  \/ side = "entered" /\ Next /\ UNCHANGED <<side, dataVars>>

FrontendSpec == FrontendInit /\ [][FrontendNext]_allVars /\ DataFairness
=============================================================================
