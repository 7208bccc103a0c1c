----------------------------- MODULE AtLeastOnce -----------------------------
(***************************************************************************)
(* What an asynchronous queue of the gateway promises to the code that     *)
(* enqueues on it, independently of pods, polling, semaphores, visibility  *)
(* timeouts and receipt handles: an accepted message is tried at most      *)
(* MaxReceiveCount times; it leaves the queue either because some try      *)
(* succeeded or because every try has been used up (dead letter).  A try   *)
(* that was overtaken may still succeed after the message left the queue,  *)
(* so the promise is at-least-once and not exactly-once.                   *)
(***************************************************************************)
EXTENDS Naturals

CONSTANTS Messages, MaxReceiveCount

VARIABLES
  state,   \* where each message is
  tries,   \* how many tries each message has had
  wins     \* which of these tries succeeded

vars == <<state, tries, wins>>

Init == /\ state = [m \in Messages |-> "unsent"]
        /\ tries = [m \in Messages |-> 0]
        /\ wins  = [m \in Messages |-> {}]

(* The producer hands the message over, and is not told if that fails. *)
Submit(m) ==
  /\ state[m] = "unsent"
  /\ \E s \in {"pending", "dropped"} : state' = [state EXCEPT ![m] = s]
  /\ UNCHANGED <<tries, wins>>

(* A batch of pending messages is tried once more each. *)
Try(S) ==
  /\ \A m \in S : state[m] = "pending" /\ tries[m] < MaxReceiveCount
  /\ tries' = [m \in Messages |-> IF m \in S THEN tries[m] + 1 ELSE tries[m]]
  /\ UNCHANGED <<state, wins>>

(* A try succeeds, once. *)
Win(m, i) ==
  /\ i \in (1 .. tries[m]) \ wins[m]
  /\ wins' = [wins EXCEPT ![m] = @ \cup {i}]
  /\ UNCHANGED <<state, tries>>

(* The message leaves the queue because its latest try succeeded. *)
Complete(m) ==
  /\ state[m] = "pending"
  /\ tries[m] \in wins[m]
  /\ state' = [state EXCEPT ![m] = "done"]
  /\ UNCHANGED <<tries, wins>>

(* The message leaves the queue because its tries are used up. *)
GiveUp(m) ==
  /\ state[m] = "pending"
  /\ tries[m] = MaxReceiveCount
  /\ state' = [state EXCEPT ![m] = "dead"]
  /\ UNCHANGED <<tries, wins>>

Next ==
  \/ \E S \in SUBSET Messages : Try(S)
  \/ \E m \in Messages :
       \/ Submit(m)
       \/ \E i \in 1 .. MaxReceiveCount : Win(m, i)
       \/ Complete(m)
       \/ GiveUp(m)

Spec == Init /\ [][Next]_vars
==============================================================================
