----------------------------- MODULE RateLimiter -----------------------------
(* The rate limiter of src/gateway/middleware/ratelimit.go: a map of token   *)
(* buckets under one lock, the handlers that look a bucket up under the lock *)
(* and ask it afterwards, and the goroutine that evicts buckets not in use.  *)
(*                                                                           *)
(* The unit of time is that in which a bucket gains a token: a minute has    *)
(* Burst of them.                                                            *)
EXTENDS Naturals

CONSTANTS Calls,      \* the calls that can be in flight
          KeyOf,      \* the user, or user and path, of each
          Limiters,   \* the token buckets that can be allocated
          Burst,      \* requests per minute, and the size of a bucket
          EvictAfter, \* ten minutes
          EvictEvery, \* five minutes
          MaxStall    \* bound: how long a handler is held up between its two steps

Keys == {KeyOf[c] : c \in Calls}

RateLimiterAssumption ==
  /\ Burst \in Nat \ {0} /\ EvictEvery \in Nat /\ MaxStall \in Nat
  /\ EvictAfter \in Nat /\ EvictAfter >= Burst + MaxStall
ASSUME RateLimiterAssumption

VARIABLES entry,   \* limiters: the keys that have an entry
          limiter, \* the bucket of each entry
          idle,    \* the time since lastSeen of each entry
          tokens,  \* the tokens in each bucket
          holding, \* the calls that have been given a bucket
          held,    \* the bucket each of them was given
          wait,    \* how long ago
          sleep,   \* how long the evicting goroutine has slept
          verdict  \* the last answer each call got

vars == <<entry, limiter, idle, tokens, holding, held, wait, sleep, verdict>>

Init ==
  /\ entry = {} /\ holding = {} /\ sleep = 0
  /\ limiter \in [Keys -> Limiters] /\ held \in [Calls -> Limiters]
  /\ idle = [k \in Keys |-> 0] /\ wait = [c \in Calls |-> 0]
  /\ tokens = [l \in Limiters |-> Burst]
  /\ verdict = [c \in Calls |-> "none"]

(* getLimiter, under the lock: the bucket of the key, or a new one, which is *)
(* full.                                                                     *)
InUse == {limiter[k] : k \in entry} \cup {held[c] : c \in holding}

GetLimiter(c, l) ==
  LET k == KeyOf[c]
  IN  /\ c \notin holding
      /\ \/ k \in entry /\ l = limiter[k] /\ UNCHANGED tokens
         \/ k \notin entry /\ l \notin InUse /\ tokens' = [tokens EXCEPT ![l] = Burst]
      /\ entry' = entry \cup {k}
      /\ limiter' = [limiter EXCEPT ![k] = l]
      /\ idle' = [idle EXCEPT ![k] = 0]
      /\ holding' = holding \cup {c}
      /\ held' = [held EXCEPT ![c] = l]
      /\ wait' = [wait EXCEPT ![c] = 0]
      /\ UNCHANGED <<sleep, verdict>>

(* lim.Allow, after the lock has been released.                              *)
Allow(c) ==
  /\ c \in holding
  /\ holding' = holding \ {c}
  /\ IF tokens[held[c]] > 0
     THEN /\ tokens' = [tokens EXCEPT ![held[c]] = @ - 1]
          /\ verdict' = [verdict EXCEPT ![c] = "admitted"]
     ELSE /\ verdict' = [verdict EXCEPT ![c] = "refused"]
          /\ UNCHANGED tokens
  /\ UNCHANGED <<entry, limiter, idle, held, wait, sleep>>

(* Mutation of Stale: every entry. *)
StaleAlways(k) == TRUE

(* The goroutine of init: after its sleep it deletes every entry not seen    *)
(* for longer than EvictAfter.                                               *)
Stale(k) == idle[k] > EvictAfter

Evict ==
  /\ sleep = EvictEvery
  /\ sleep' = 0
  /\ entry' = {k \in entry : ~Stale(k)}
  /\ UNCHANGED <<limiter, idle, tokens, holding, held, wait, verdict>>

(* A unit of time goes by. *)
Tick ==
  /\ sleep < EvictEvery
  /\ \A c \in holding : wait[c] < MaxStall
  /\ sleep' = sleep + 1
  /\ tokens' = [l \in Limiters |-> IF tokens[l] < Burst THEN tokens[l] + 1 ELSE Burst]
  /\ idle' = [k \in Keys |-> IF k \in entry THEN idle[k] + 1 ELSE 0]
  /\ wait' = [c \in Calls |-> IF c \in holding THEN wait[c] + 1 ELSE 0]
  /\ UNCHANGED <<entry, limiter, holding, held, verdict>>

Next ==
  \/ \E c \in Calls : Allow(c) \/ \E l \in Limiters : GetLimiter(c, l)
  \/ Evict \/ Tick

Spec == Init /\ [][Next]_vars

------------------------------------------------------------------------------
(* An entry that is not used is in the map for fifteen minutes at most       *)
(* (the eviction every five of those older than ten).                        *)
Forgotten == \A k \in entry : idle[k] <= EvictAfter + EvictEvery

(* The limiter is a token bucket per key that is never forgotten: an evicted *)
(* bucket was full, and no call holds one that is no longer in the map.      *)
Bucket == INSTANCE TokenBucket WITH
  bucket <- [k \in Keys |-> IF k \in entry THEN tokens[limiter[k]] ELSE Burst]
IsTokenBucket == Bucket!Spec
=============================================================================
