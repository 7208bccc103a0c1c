---------------------------- MODULE MCPollQueue ----------------------------
(* Instance of PollQueue for TLC: two messages at one pod, which fill more   *)
(* than its slots, or one message at two pods, which overtake each other.    *)
EXTENDS PollQueue

(* Bound: a second message is enqueued only while no second pod has started, *)
(* and the other way round.  No step that is assumed to be fair is bounded.  *)
OneOrTheOther ==
  \/ Cardinality({m \in Messages : status'[m] # "unsent"}) <= 1
  \/ Cardinality({p \in Pods : pc'[p] # "off"}) <= 1

(* Messages are interchangeable, and so are pods: one of each comes first.   *)
InOrder ==
  /\ (\E m \in Messages : status'[m] # "unsent") =>
       status'[CHOOSE m \in Messages : TRUE] # "unsent"
  /\ (\E p \in Pods : pc'[p] # "off") => pc'[CHOOSE p \in Pods : TRUE] # "off"

BoundedSpec == Init /\ [][Next /\ OneOrTheOther /\ InOrder]_vars /\ Fairness
=============================================================================
