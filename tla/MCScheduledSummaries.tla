------------------------ MODULE MCScheduledSummaries ------------------------
(* Instance of ScheduledSummaries for TLC: a change of a hiring request whose *)
(* category has a manager, and one of a request whose category has none.     *)
EXTENDS ScheduledSummaries

MCRequest == [c \in {"rate", "status"} |-> IF c = "rate" THEN "R1" ELSE "R2"]
MCCategory == [r \in {"R1", "R2"} |-> IF r = "R1" THEN "ENG" ELSE "MKT"]
=============================================================================
