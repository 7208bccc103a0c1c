------------------------------ MODULE MCImports ------------------------------
(* Instance of Imports for TLC.  The ids: a single create, a CSV upload with *)
(* an unknown category in it and an import by the AI service, on two         *)
(* categories.  The pipeline: five records in batches of two, of which one   *)
(* does not validate, for three categories, one without a manager.           *)
EXTENDS Imports

MCWriters == {"create", "csv", "pipeline"}
MCKind == [w \in MCWriters |-> w]
MCRows == [w \in MCWriters |->
             CASE w = "create"   -> <<"ENG">>
               [] w = "csv"      -> <<"ENG", "unknown", "ENG", "MKT">>
               [] w = "pipeline" -> <<"MKT", "ENG">>]

MCCategory == <<"ENG", "MKT", "ENG", "ENG", "COR">>
=============================================================================
