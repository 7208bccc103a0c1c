--------------------------- MODULE MCRequisitions ---------------------------
(* Instance of Requisitions for TLC: a status with a value the database's    *)
(* enumeration does not have, a rate of which two values print alike, and    *)
(* the untracked notes.                                                      *)
EXTENDS Requisitions

Symmetry == Permutations(Requests)

MCTracked == <<"status", "billRateHourly">>
MCText ==
  [f \in {"status", "billRateHourly"} |->
     IF f = "status" THEN [v \in Values |-> <<"OPEN", "FILLED", "unknown">>[v + 1]]
                     ELSE [v \in Values |-> <<"0.00", "0.00", "0.01">>[v + 1]]]
MCStorable ==
  [f \in {"status", "billRateHourly", "notes"} |->
     IF f = "status" THEN {0, 1} ELSE Values]
MCNewRows == {[f \in {"status", "billRateHourly", "notes"} |-> 0]}
MCBodies ==
  {[status |-> 0, notes |-> 1], [status |-> 1],
   [status |-> 2, billRateHourly |-> 2], [billRateHourly |-> 1]}
=============================================================================
