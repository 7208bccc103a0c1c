------------------------------- MODULE Imports -------------------------------
(***************************************************************************)
(* Imports of files, seen from two sides: the numbers that concurrent       *)
(* imports and requests give out (RequisitionIds), and one file on its way  *)
(* through the AI pipeline (UploadPipeline), whose insertion is one of the  *)
(* writers of the former.  A behaviour follows one of them.                 *)
(***************************************************************************)
EXTENDS RequisitionIds, UploadPipeline

VARIABLE side      \* which of the two is followed: "ids" or "pipeline"

allVars == <<side, vars, pipelineVars>>

ImportsInit == Init /\ PipelineInit /\ side \in {"ids", "pipeline"}

ImportsNext ==
  \/ side = "ids" /\ Next /\ UNCHANGED <<side, pipelineVars>>
  \/ side = "pipeline" /\ PipelineNext /\ UNCHANGED <<side, vars>>

ImportsSpec == ImportsInit /\ [][ImportsNext]_allVars
=============================================================================
