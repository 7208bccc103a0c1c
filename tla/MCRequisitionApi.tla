-------------------------- MODULE MCRequisitionApi --------------------------
(* Instance of RequisitionApi for TLC: numbers of base 3 padded to one digit, *)
(* so that 3 is written "10" and comes before "2" as 1000 comes before 999.  *)
EXTENDS RequisitionApi

Symmetry == Permutations(Requests)

MCStart ==
  ("k1" :> [cat |-> "ENG", num |-> 2, status |-> "OPEN", rate |-> 1, head |-> 1,
            budget |-> 1, text |-> "a"])

MCNewRows ==
  {[cat |-> c, status |-> "OPEN", rate |-> 1, head |-> 2, text |-> "a"] : c \in {"ENG", "unknown"}}

MCBodies ==
  {[rate |-> 2], [head |-> 2, status |-> "DONE"], [budget |-> 3, text |-> ""],
   [status |-> "lost"], [text |-> "b", head |-> 1]}

Line0 == [cat |-> "ENG", titled |-> TRUE, id |-> <<>>, rate |-> 1, head |-> 1,
          status |-> "", text |-> "a"]

MCFiles ==
  {<<Line0, [Line0 EXCEPT !.cat = "CTS", !.titled = FALSE]>>,
   <<[Line0 EXCEPT !.id = <<"ENG", 2>>, !.rate = 3, !.head = 0, !.text = ""],
     [Line0 EXCEPT !.rate = -1]>>,
   <<[Line0 EXCEPT !.id = <<"ENG", 2>>, !.status = "lost"], [Line0 EXCEPT !.cat = "unknown"]>>}

MCReads ==
  {[kind |-> "stats", scope |-> "all"], [kind |-> "list", scope |-> "ENG"],
   [kind |-> "managers", scope |-> "all"], [kind |-> "changes", scope |-> "ENG"],
   [kind |-> "notifications", scope |-> "CTS"]}
=============================================================================
