----------------------------- MODULE TokenBucket -----------------------------
(* What the rate limit promises: each key has one bucket for ever, which     *)
(* gains a token with every unit of time until it is full, and a call is     *)
(* admitted if and only if it takes a token out.                             *)
EXTENDS Naturals

CONSTANTS Calls,  \* the calls that can be in flight
          KeyOf,  \* the bucket each of them asks
          Burst   \* the tokens of a full bucket

VARIABLES bucket, \* the tokens of each key
          verdict \* the last answer each call got

Init ==
  /\ bucket = [k \in {KeyOf[c] : c \in Calls} |-> Burst]
  /\ verdict = [c \in Calls |-> "none"]

Refill ==
  /\ bucket' = [k \in DOMAIN bucket |-> IF bucket[k] < Burst THEN bucket[k] + 1 ELSE Burst]
  /\ UNCHANGED verdict

Admit(c) ==
  /\ bucket[KeyOf[c]] > 0
  /\ bucket' = [bucket EXCEPT ![KeyOf[c]] = @ - 1]
  /\ verdict' = [verdict EXCEPT ![c] = "admitted"]

Refuse(c) ==
  /\ bucket[KeyOf[c]] = 0
  /\ verdict' = [verdict EXCEPT ![c] = "refused"]
  /\ UNCHANGED bucket

Next == Refill \/ \E c \in Calls : Admit(c) \/ Refuse(c)

Spec == Init /\ [][Next]_<<bucket, verdict>>
=============================================================================
