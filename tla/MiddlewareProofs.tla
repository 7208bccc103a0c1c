-------------------------- MODULE MiddlewareProofs --------------------------
(***************************************************************************)
(* Theorems about the two middlewares of the gateway that keep state: the   *)
(* rate limiter implements a token bucket per key, for any calls, keys and  *)
(* limits; the audit log keeps every entry it was sent, in order, for any   *)
(* calls, capacity and batch size.                                          *)
(***************************************************************************)
EXTENDS RateLimiter, AuditLog, SequenceTheorems, TLAPS

-----------------------------------------------------------------------------
(* The rate limiter *)

TypeOK ==
  /\ entry \subseteq Keys /\ limiter \in [Keys -> Limiters] /\ idle \in [Keys -> Nat]
  /\ tokens \in [Limiters -> 0..Burst]
  /\ holding \subseteq Calls /\ held \in [Calls -> Limiters] /\ wait \in [Calls -> Nat]
  /\ sleep \in 0..EvictEvery
  /\ verdict \in [Calls -> {"none", "admitted", "refused"}]

(* No two keys have one bucket.                                              *)
Distinct == \A k, l \in entry : limiter[k] = limiter[l] => k = l

(* A call that is about to ask holds the bucket its key still has, and its   *)
(* entry has been seen no longer ago than the call was given it.             *)
Current ==
  \A c \in holding : LET k == KeyOf[c] IN
    k \in entry /\ held[c] = limiter[k] /\ idle[k] <= wait[c] /\ wait[c] <= MaxStall

(* A bucket nobody can be asking any more has filled up since, by one token  *)
(* per unit of time.                                                         *)
Filling ==
  \A k \in entry : idle[k] > MaxStall =>
    tokens[limiter[k]] = Burst \/ tokens[limiter[k]] + MaxStall >= idle[k]

(* How old an entry can be depends on how long the goroutine has slept.      *)
Evicted == \A k \in entry : idle[k] <= EvictAfter + sleep

Inv == TypeOK /\ Distinct /\ Current /\ Filling /\ Evicted

LEMMA Limits ==
  /\ Burst \in Nat \ {0} /\ EvictEvery \in Nat /\ MaxStall \in Nat
  /\ EvictAfter \in Nat /\ EvictAfter >= Burst + MaxStall
BY RateLimiterAssumption DEF RateLimiterAssumption

LEMMA KeysOfCalls == \A c \in Calls : KeyOf[c] \in Keys
BY DEF Keys

LEMMA InvInit == Init => Inv
BY Limits DEF Init, Inv, TypeOK, Distinct, Current, Filling, Evicted

LEMMA GetLimiterStep ==
  ASSUME Inv, NEW c \in Calls, NEW l \in Limiters, GetLimiter(c, l) PROVE Inv'
<1> USE DEF Inv, TypeOK, GetLimiter
<1> DEFINE k == KeyOf[c]
<1>0. k \in Keys
  BY KeysOfCalls
<1>1. TypeOK'
  BY <1>0, Limits
<1>2. Distinct'
  BY <1>0 DEF Distinct, InUse
<1>3. Current'
  <2> SUFFICES ASSUME NEW d \in holding'
               PROVE  /\ KeyOf[d] \in entry' /\ held'[d] = limiter'[KeyOf[d]]
                      /\ idle'[KeyOf[d]] <= wait'[d] /\ wait'[d] <= MaxStall
    BY DEF Current
  <2>1. CASE d = c
    BY <2>1, <1>0, Limits
  <2>2. CASE d # c
    <3>1. d \in holding /\ KeyOf[d] \in Keys /\ d \in Calls
      BY <2>2, KeysOfCalls
    <3>2. KeyOf[d] = k => limiter'[k] = limiter[k]
      BY <3>1, <1>0 DEF Current
    <3> QED BY <2>2, <3>1, <3>2, <1>0 DEF Current
  <2> QED BY <2>1, <2>2
<1>4. Filling'
  <2> SUFFICES ASSUME NEW m \in entry', idle'[m] > MaxStall
               PROVE  tokens'[limiter'[m]] = Burst \/ tokens'[limiter'[m]] + MaxStall >= idle'[m]
    BY DEF Filling
  <2>1. m # k
    BY <1>0, Limits
  <2>2. m \in entry /\ m \in Keys /\ limiter'[m] = limiter[m] /\ idle'[m] = idle[m]
    BY <2>1, <1>0
  <2>3. tokens'[limiter[m]] = tokens[limiter[m]]
    BY <2>2 DEF InUse
  <2> QED BY <2>2, <2>3 DEF Filling
<1>5. Evicted'
  BY <1>0, Limits DEF Evicted
<1> QED BY <1>1, <1>2, <1>3, <1>4, <1>5

LEMMA AllowStep == ASSUME Inv, NEW c \in Calls, Allow(c) PROVE Inv'
<1> USE DEF Inv, TypeOK, Allow
<1>0. held[c] \in Limiters /\ tokens[held[c]] \in 0..Burst /\ Burst \in Nat
  BY Limits
<1>1. TypeOK'
  BY <1>0
<1>2. Distinct'
  BY DEF Distinct
<1>3. Current'
  BY DEF Current
<1>4. Filling'
  <2> SUFFICES ASSUME NEW m \in entry, idle[m] > MaxStall
               PROVE  tokens'[limiter[m]] = Burst \/ tokens'[limiter[m]] + MaxStall >= idle[m]
    BY DEF Filling
  <2>1. held[c] = limiter[KeyOf[c]] /\ KeyOf[c] \in entry /\ idle[KeyOf[c]] <= MaxStall
    BY Limits, KeysOfCalls DEF Current
  <2>2. m # KeyOf[c]
    BY <2>1, Limits, KeysOfCalls
  <2>3. limiter[m] # held[c]
    BY <2>1, <2>2 DEF Distinct
  <2>4. tokens'[limiter[m]] = tokens[limiter[m]]
    BY <2>3
  <2> QED BY <2>4 DEF Filling
<1>5. Evicted'
  BY DEF Evicted
<1> QED BY <1>1, <1>2, <1>3, <1>4, <1>5

(* An entry that is evicted has a full bucket and no caller.                 *)
LEMMA StaleIsFull ==
  ASSUME Inv, NEW k \in entry, Stale(k)
  PROVE  tokens[limiter[k]] = Burst /\ \A c \in holding : KeyOf[c] # k
<1> USE DEF Inv, TypeOK, Stale
<1>1. idle[k] \in Nat /\ idle[k] > Burst + MaxStall
  BY Limits
<1>2. tokens[limiter[k]] = Burst
  BY <1>1, Limits DEF Filling
<1>3. ASSUME NEW c \in holding, KeyOf[c] = k PROVE FALSE
  BY <1>1, <1>3, Limits DEF Current
<1> QED BY <1>2, <1>3

LEMMA EvictStep == ASSUME Inv, Evict PROVE Inv'
<1> USE DEF Evict
<1>1. TypeOK'
  BY Limits DEF Inv, TypeOK
<1>2. Distinct'
  BY DEF Inv, Distinct
<1>3. Current'
  BY StaleIsFull DEF Inv, Current
<1>4. Filling'
  BY DEF Inv, Filling
<1>5. Evicted'
  BY Limits DEF Inv, TypeOK, Evicted, Stale
<1> QED BY <1>1, <1>2, <1>3, <1>4, <1>5 DEF Inv

LEMMA TickStep == ASSUME Inv, Tick PROVE Inv'
<1> USE Limits DEF Inv, TypeOK, Tick
<1>1. TypeOK'
  OBVIOUS
<1>2. Distinct'
  BY DEF Distinct
<1>3. Current'
  <2> SUFFICES ASSUME NEW c \in holding
               PROVE  /\ KeyOf[c] \in entry /\ held[c] = limiter[KeyOf[c]]
                      /\ idle'[KeyOf[c]] <= wait'[c] /\ wait'[c] <= MaxStall
    BY DEF Current
  <2>1. /\ KeyOf[c] \in entry /\ held[c] = limiter[KeyOf[c]]
        /\ idle[KeyOf[c]] <= wait[c] /\ wait[c] < MaxStall
    BY DEF Current
  <2>2. idle'[KeyOf[c]] = idle[KeyOf[c]] + 1 /\ wait'[c] = wait[c] + 1
    BY <2>1
  <2> QED BY <2>1, <2>2
<1>4. Filling'
  <2> SUFFICES ASSUME NEW k \in entry, idle'[k] > MaxStall
               PROVE  tokens'[limiter[k]] = Burst \/ tokens'[limiter[k]] + MaxStall >= idle'[k]
    BY DEF Filling
  <2>1. idle'[k] = idle[k] + 1 /\ idle[k] \in Nat /\ limiter[k] \in Limiters
    OBVIOUS
  <2>2. /\ tokens[limiter[k]] \in 0..Burst
        /\ tokens'[limiter[k]] = IF tokens[limiter[k]] < Burst THEN tokens[limiter[k]] + 1 ELSE Burst
    BY <2>1
  <2>3. CASE idle[k] > MaxStall
    BY <2>1, <2>2, <2>3 DEF Filling
  <2>4. CASE idle[k] = MaxStall
    BY <2>1, <2>2, <2>4
  <2> QED BY <2>1, <2>3, <2>4
<1>5. Evicted'
  BY DEF Evicted
<1> QED BY <1>1, <1>2, <1>3, <1>4, <1>5

(* The inductive invariant holds in every reachable state.                   *)
THEOREM Invariance == Spec => []Inv
<1>1. Inv /\ [Next]_vars => Inv'
  <2> SUFFICES ASSUME Inv, [Next]_vars PROVE Inv'
    OBVIOUS
  <2>1. CASE UNCHANGED vars
    BY <2>1 DEF vars, Inv, TypeOK, Distinct, Current, Filling, Evicted
  <2> QED BY <2>1, GetLimiterStep, AllowStep, EvictStep, TickStep DEF Next
<1> QED BY <1>1, InvInit, PTL DEF Spec

(* An entry that is not used is forgotten after fifteen minutes at most.     *)
THEOREM EntriesAreForgotten == Spec => []Forgotten
<1>1. Inv => Forgotten
  BY Limits DEF Inv, TypeOK, Evicted, Forgotten
<1> QED BY <1>1, Invariance, PTL

(* The limiter with its eviction implements token buckets that are never     *)
(* forgotten.                                                                *)
THEOREM Refinement == Spec => IsTokenBucket
<1> DEFINE B == [k \in Keys |-> IF k \in entry THEN tokens[limiter[k]] ELSE Burst]
<1>1. Init => Bucket!Init
  BY DEF Init, Bucket!Init, Keys
<1>2. Inv /\ [Next]_vars => [Bucket!Next]_<<B, verdict>>
  <2> SUFFICES ASSUME Inv, [Next]_vars PROVE [Bucket!Next]_<<B, verdict>>
    OBVIOUS
  <2> USE Limits DEF Inv, TypeOK
  <2>1. ASSUME NEW c \in Calls, NEW l \in Limiters, GetLimiter(c, l) PROVE UNCHANGED <<B, verdict>>
    <3>1. \A k \in Keys : B'[k] = B[k]
      <4> SUFFICES ASSUME NEW k \in Keys PROVE B'[k] = B[k]
        OBVIOUS
      <4>1. CASE k \in entry
        BY <2>1, <4>1, KeysOfCalls DEF GetLimiter, InUse
      <4>2. CASE k \notin entry
        BY <2>1, <4>2, KeysOfCalls DEF GetLimiter
      <4> QED BY <4>1, <4>2
    <3> QED BY <2>1, <3>1 DEF GetLimiter
  <2>2. ASSUME NEW c \in Calls, Allow(c) PROVE Bucket!Admit(c) \/ Bucket!Refuse(c)
    <3>1. /\ KeyOf[c] \in entry /\ KeyOf[c] \in Keys /\ held[c] = limiter[KeyOf[c]]
          /\ B[KeyOf[c]] = tokens[held[c]] /\ tokens[held[c]] \in Nat
      BY <2>2, KeysOfCalls DEF Allow, Current
    <3>2. CASE tokens[held[c]] > 0
      <4>1. \A k \in Keys : k \in entry /\ k # KeyOf[c] => limiter[k] # held[c]
        BY <3>1 DEF Distinct
      <4>2. B' = [B EXCEPT ![KeyOf[c]] = @ - 1]
        BY <2>2, <3>1, <3>2, <4>1 DEF Allow
      <4> QED BY <2>2, <3>1, <3>2, <4>2 DEF Allow, Bucket!Admit
    <3>3. CASE ~(tokens[held[c]] > 0)
      BY <2>2, <3>1, <3>3 DEF Allow, Bucket!Refuse
    <3> QED BY <3>2, <3>3
  <2>3. CASE Evict
    BY <2>3, StaleIsFull DEF Evict
  <2>4. CASE Tick
    <3>1. \A k \in Keys : B'[k] = IF B[k] < Burst THEN B[k] + 1 ELSE Burst
      BY <2>4 DEF Tick
    <3>2. B' = [k \in DOMAIN B |-> IF B[k] < Burst THEN B[k] + 1 ELSE Burst]
      BY <3>1
    <3> QED BY <2>4, <3>2 DEF Tick, Bucket!Refill, Bucket!Next
  <2>5. CASE UNCHANGED vars
    BY <2>5 DEF vars
  <2> QED BY <2>1, <2>2, <2>3, <2>4, <2>5 DEF Next, Bucket!Next
<1> QED BY <1>1, <1>2, Invariance, PTL DEF Spec, IsTokenBucket, Bucket!Spec

-----------------------------------------------------------------------------
(* The audit log *)

AuditType ==
  /\ call \in [AuditedCalls -> {"none", "open", "recorded", "dropped", "lost", "panicked", "cut"}]
  /\ auditChan \in Seq(AuditedCalls) /\ batch \in Seq(AuditedCalls)
  /\ table \in Seq(AuditedCalls) /\ sent \in Seq(AuditedCalls)
  /\ discarded \subseteq AuditedCalls
  /\ writer \in {"select", "insert", "insertLast", "done", "dead"}
  /\ main \in {"serving", "flush", "consumers", "http", "gone"}
  /\ auditClosed \in BOOLEAN /\ flushed \in BOOLEAN

(* A call sends one entry at most. *)
SentOnce ==
  /\ \A i, j \in DOMAIN sent : sent[i] = sent[j] => i = j
  /\ \A i \in DOMAIN sent : call[sent[i]] = "recorded"

(* What the writer has done with when it is done, and main once it has seen  *)
(* that.                                                                     *)
Quiet ==
  /\ discarded \subseteq ToSet(sent)
  /\ writer \in {"done", "dead"} => batch = <<>>
  /\ writer \in {"insertLast", "done"} => auditClosed /\ auditChan = <<>>
  /\ flushed => auditClosed /\ auditChan = <<>> /\ writer \in {"done", "dead"}

AuditInv == AuditType /\ SentOnce /\ EntriesInOrder /\ Quiet

LEMMA SetOfConcat ==
  ASSUME NEW S, NEW s \in Seq(S), NEW t \in Seq(S)
  PROVE  ToSet(s \o t) = ToSet(s) \cup ToSet(t)
<1>1. ASSUME NEW x \in ToSet(t) PROVE x \in ToSet(s \o t)
  <2>1. PICK i \in DOMAIN t : t[i] = x
    BY <1>1 DEF ToSet
  <2>2. Len(s) + i \in DOMAIN (s \o t) /\ (s \o t)[Len(s) + i] = x
    BY <2>1
  <2> QED
    BY <2>2 DEF ToSet
<1>2. ASSUME NEW x \in ToSet(s) PROVE x \in ToSet(s \o t)
  <2>1. PICK i \in DOMAIN s : s[i] = x
    BY <1>2 DEF ToSet
  <2>2. i \in DOMAIN (s \o t) /\ (s \o t)[i] = x
    BY <2>1
  <2> QED
    BY <2>2 DEF ToSet
<1>3. ASSUME NEW x \in ToSet(s \o t) PROVE x \in ToSet(s) \cup ToSet(t)
  <2>1. PICK i \in DOMAIN (s \o t) : (s \o t)[i] = x
    BY <1>3 DEF ToSet
  <2>2. CASE i <= Len(s)
    <3>1. i \in DOMAIN s /\ s[i] = x
      BY <2>1, <2>2
    <3> QED
      BY <3>1 DEF ToSet
  <2>3. CASE i > Len(s)
    <3>1. i - Len(s) \in DOMAIN t /\ t[i - Len(s)] = x
      BY <2>1, <2>3
    <3> QED
      BY <3>1 DEF ToSet
  <2> QED
    BY <2>1, <2>2, <2>3
<1> QED
  BY <1>1, <1>2, <1>3

(* The entries kept and lost, one position at a time. *)
LEMMA EntriesApart ==
  ASSUME AuditInv, NEW i \in DOMAIN Entries, NEW j \in DOMAIN Entries, Entries[i] = Entries[j]
  PROVE  i = j
<1>1. Entries \in Seq(AuditedCalls)
  BY DEF AuditInv, AuditType, Entries
<1>2. ASSUME NEW a \in DOMAIN Entries, NEW b \in DOMAIN Entries, a < b,
             Entries[a] = Entries[b]
      PROVE  FALSE
  <2>1. Before(Entries[a], Entries[b])
    BY <1>2 DEF AuditInv, EntriesInOrder
  <2>2. PICK k, l \in DOMAIN sent : k < l /\ sent[k] = Entries[a] /\ sent[l] = Entries[b]
    BY <2>1 DEF Before
  <2>3. k = l
    BY <2>2, <1>2 DEF AuditInv, SentOnce
  <2> QED
    BY <2>2, <2>3 DEF AuditInv, AuditType
<1>3. i \in Nat /\ j \in Nat
  BY <1>1
<1> QED
  BY <1>2, <1>3
LEMMA EntriesType ==
  ASSUME AuditInv
  PROVE  /\ Entries \in Seq(AuditedCalls)
         /\ ToSet(Entries) = ToSet(table) \cup ToSet(batch) \cup ToSet(auditChan)
<1>1. /\ table \in Seq(AuditedCalls) /\ batch \in Seq(AuditedCalls)
      /\ auditChan \in Seq(AuditedCalls)
  BY DEF AuditInv, AuditType
<1>2. table \o batch \in Seq(AuditedCalls)
  BY <1>1
<1>3. ToSet(table \o batch) = ToSet(table) \cup ToSet(batch)
  BY <1>1, SetOfConcat
<1> QED
  <2>1. ToSet((table \o batch) \o auditChan) = ToSet(table \o batch) \cup ToSet(auditChan)
    BY <1>1, <1>2, SetOfConcat
  <2> QED
    BY <1>1, <1>3, <2>1 DEF Entries

(* No entry is in two of table, batch and channel. *)
LEMMA PartsApart ==
  ASSUME AuditInv
  PROVE  /\ ToSet(table) \cap ToSet(batch) = {}
         /\ ToSet(auditChan) \cap ToSet(table) = {}
         /\ ToSet(auditChan) \cap ToSet(batch) = {}
<1> DEFINE n == Len(table)
           m == Len(table) + Len(batch)
<1>1. /\ table \in Seq(AuditedCalls) /\ batch \in Seq(AuditedCalls)
      /\ auditChan \in Seq(AuditedCalls)
  BY DEF AuditInv, AuditType
<1>2. \A i \in DOMAIN table : i \in DOMAIN Entries /\ Entries[i] = table[i]
  BY <1>1 DEF Entries
<1>3. \A i \in DOMAIN batch : n + i \in DOMAIN Entries /\ Entries[n + i] = batch[i]
  BY <1>1 DEF Entries
<1>4. \A i \in DOMAIN auditChan : m + i \in DOMAIN Entries /\ Entries[m + i] = auditChan[i]
  BY <1>1 DEF Entries
<1>5. \A i \in DOMAIN table, j \in DOMAIN batch : table[i] # batch[j]
  <2> SUFFICES ASSUME NEW i \in DOMAIN table, NEW j \in DOMAIN batch, table[i] = batch[j]
               PROVE  FALSE
    OBVIOUS
  <2>1. i = n + j
    BY <1>2, <1>3, EntriesApart
  <2> QED
    BY <2>1, <1>1
<1>6. \A i \in DOMAIN table, j \in DOMAIN auditChan : table[i] # auditChan[j]
  <2> SUFFICES ASSUME NEW i \in DOMAIN table, NEW j \in DOMAIN auditChan,
                      table[i] = auditChan[j]
               PROVE  FALSE
    OBVIOUS
  <2>1. i = m + j
    BY <1>2, <1>4, EntriesApart
  <2> QED
    BY <2>1, <1>1
<1>7. \A i \in DOMAIN batch, j \in DOMAIN auditChan : batch[i] # auditChan[j]
  <2> SUFFICES ASSUME NEW i \in DOMAIN batch, NEW j \in DOMAIN auditChan,
                      batch[i] = auditChan[j]
               PROVE  FALSE
    OBVIOUS
  <2>1. n + i = m + j
    BY <1>3, <1>4, EntriesApart
  <2> QED
    BY <2>1, <1>1
<1> QED
  BY <1>5, <1>6, <1>7 DEF ToSet

(* Entries are discarded: those that stay keep their order. *)
LEMMA SomeDiscarded ==
  ASSUME AuditInv, sent' = sent, NEW ACTION D, discarded' = discarded \cup D,
         ToSet(Entries') = ToSet(Entries) \ D,
         NEW ACTION was, \A i \in DOMAIN Entries' : was[i] \in DOMAIN Entries /\ Entries'[i] = Entries[was[i]],
         \A i, j \in DOMAIN Entries' : i < j => was[i] < was[j]
  PROVE  EntriesInOrder'
<1>1. ToSet(Entries') = ToSet(sent') \ discarded'
  BY DEF AuditInv, EntriesInOrder
<1>2. \A i, j \in DOMAIN Entries' : i < j =>
        \E k, l \in DOMAIN sent : k < l /\ sent[k] = Entries'[i] /\ sent[l] = Entries'[j]
  <2> SUFFICES ASSUME NEW i \in DOMAIN Entries', NEW j \in DOMAIN Entries', i < j
               PROVE  \E k, l \in DOMAIN sent :
                        k < l /\ sent[k] = Entries'[i] /\ sent[l] = Entries'[j]
    OBVIOUS
  <2>1. Before(Entries[was[i]], Entries[was[j]])
    BY DEF AuditInv, EntriesInOrder
  <2> QED
    BY <2>1 DEF Before
<1> QED
  BY <1>1, <1>2 DEF EntriesInOrder, Before

LEMMA InsertFailsStep ==
  ASSUME AuditInv, InsertFails PROVE EntriesInOrder'
<1> DEFINE was == [i \in DOMAIN Entries' |-> IF i <= Len(table) THEN i ELSE i + Len(batch)]
<1>1. /\ table \in Seq(AuditedCalls) /\ batch \in Seq(AuditedCalls)
      /\ auditChan \in Seq(AuditedCalls)
  BY DEF AuditInv, AuditType
<1>2. Entries' = table \o auditChan
  <2>1. table \o <<>> = table
    BY <1>1
  <2> QED
    BY <2>1 DEF InsertFails, Entries
<1>3. ToSet(Entries') = ToSet(Entries) \ ToSet(batch)
  BY <1>1, <1>2, SetOfConcat, EntriesType, PartsApart
<1>4. \A i \in DOMAIN Entries' : was[i] \in DOMAIN Entries /\ Entries'[i] = Entries[was[i]]
  BY <1>1, <1>2 DEF Entries
<1>5. \A i, j \in DOMAIN Entries' : i < j => was[i] < was[j]
  BY <1>1, <1>2
<1> HIDE DEF was
<1>6. sent' = sent /\ discarded' = discarded \cup ToSet(batch)
  BY DEF InsertFails
<1> QED
  BY <1>3, <1>4, <1>5, <1>6, SomeDiscarded

LEMMA GoneStep ==
  ASSUME AuditInv, Gone PROVE EntriesInOrder'
<1> DEFINE was == [i \in DOMAIN Entries' |-> i]
<1>1. /\ table \in Seq(AuditedCalls) /\ batch \in Seq(AuditedCalls)
      /\ auditChan \in Seq(AuditedCalls)
  BY DEF AuditInv, AuditType
<1>2. Entries' = table
  <2>1. table \o <<>> = table
    BY <1>1
  <2> QED
    BY <2>1 DEF Gone, Entries
<1>3. ToSet(Entries') = ToSet(Entries) \ (ToSet(batch) \cup ToSet(auditChan))
  BY <1>1, <1>2, EntriesType, PartsApart
<1>4. \A i \in DOMAIN Entries' : was[i] \in DOMAIN Entries /\ Entries'[i] = Entries[was[i]]
  BY <1>1, <1>2 DEF Entries
<1>5. \A i, j \in DOMAIN Entries' : i < j => was[i] < was[j]
  BY <1>1, <1>2
<1> HIDE DEF was
<1>6. sent' = sent /\ discarded' = discarded \cup (ToSet(batch) \cup ToSet(auditChan))
  BY DEF Gone
<1> QED
  BY <1>3, <1>4, <1>5, <1>6, SomeDiscarded
LEMMA SendStep ==
  ASSUME AuditInv, NEW q \in AuditedCalls, Send(q) PROVE EntriesInOrder' /\ SentOnce'
<1>1. CASE sent' = sent /\ Entries' = Entries
  <2>1. discarded' = discarded
    BY DEF Send
  <2>2. \A p \in AuditedCalls : call[p] = "recorded" => call'[p] = "recorded"
    BY DEF Send, AuditInv, AuditType
  <2>3. \A i \in DOMAIN sent : sent[i] \in AuditedCalls
    BY DEF AuditInv, AuditType
  <2> QED
    BY <1>1, <2>1, <2>2, <2>3 DEF AuditInv, SentOnce, EntriesInOrder, Before
<1>2. CASE sent' = Append(sent, q) /\ auditChan' = Append(auditChan, q)
  <2>1. /\ table \in Seq(AuditedCalls) /\ batch \in Seq(AuditedCalls)
        /\ auditChan \in Seq(AuditedCalls) /\ sent \in Seq(AuditedCalls)
        /\ Entries \in Seq(AuditedCalls)
    BY EntriesType DEF AuditInv, AuditType
  <2>2. Entries' = Append(Entries, q)
    BY <1>2, <2>1 DEF Send, Entries, writerVars
  <2>3. ToSet(Entries') = ToSet(Entries) \cup {q} /\ ToSet(sent') = ToSet(sent) \cup {q}
    <3>1. \A s \in Seq(AuditedCalls) : ToSet(Append(s, q)) = ToSet(s) \cup {q}
      <4> TAKE s \in Seq(AuditedCalls)
      <4>1. \A i \in DOMAIN s : i \in DOMAIN Append(s, q) /\ Append(s, q)[i] = s[i]
        OBVIOUS
      <4>2. Len(s) + 1 \in DOMAIN Append(s, q) /\ Append(s, q)[Len(s) + 1] = q
        OBVIOUS
      <4>3. \A i \in DOMAIN Append(s, q) :
              (i \in DOMAIN s /\ Append(s, q)[i] = s[i]) \/ Append(s, q)[i] = q
        OBVIOUS
      <4> QED
        BY <4>1, <4>2, <4>3 DEF ToSet
    <3> QED
      BY <1>2, <2>1, <2>2, <3>1
  <2>4. call[q] = "open" /\ call' = [call EXCEPT ![q] = "recorded"]
    <3>1. Append(sent, q) # sent
      BY <2>1
    <3> QED
      BY <1>2, <3>1 DEF Send
  <2>5. q \notin ToSet(sent) /\ q \notin discarded /\ discarded' = discarded
    BY <2>4 DEF Send, AuditInv, SentOnce, Quiet, ToSet
  <2>6. SentOnce'
    <3>1. \A i \in DOMAIN sent : sent[i] # q
      BY <2>5 DEF ToSet
    <3>2. \A i, j \in DOMAIN sent' : sent'[i] = sent'[j] => i = j
      BY <1>2, <2>1, <3>1 DEF AuditInv, SentOnce
    <3>3. \A i \in DOMAIN sent' : call'[sent'[i]] = "recorded"
      BY <1>2, <2>1, <2>4 DEF AuditInv, AuditType, SentOnce
    <3> QED
      BY <3>2, <3>3 DEF SentOnce
  <2>7. ToSet(Entries') = ToSet(sent') \ discarded'
    BY <2>3, <2>5 DEF AuditInv, EntriesInOrder
  <2>8. ASSUME NEW i \in DOMAIN Entries', NEW j \in DOMAIN Entries', i < j
        PROVE  \E k, l \in DOMAIN sent' : k < l /\ sent'[k] = Entries'[i] /\ sent'[l] = Entries'[j]
    <3>1. i \in DOMAIN Entries /\ Entries'[i] = Entries[i]
      BY <2>1, <2>2, <2>8
    <3>2. CASE j \in DOMAIN Entries
      <4>1. Before(Entries[i], Entries[j]) /\ Entries'[j] = Entries[j]
        BY <2>1, <2>2, <2>8, <3>1, <3>2 DEF AuditInv, EntriesInOrder
      <4>2. PICK k, l \in DOMAIN sent : k < l /\ sent[k] = Entries[i] /\ sent[l] = Entries[j]
        BY <4>1 DEF Before
      <4>3. /\ k \in DOMAIN sent' /\ sent'[k] = sent[k]
            /\ l \in DOMAIN sent' /\ sent'[l] = sent[l]
        BY <1>2, <2>1
      <4> QED
        BY <3>1, <4>1, <4>2, <4>3
    <3>3. CASE Entries'[j] = q
      <4>1. Entries[i] \in ToSet(sent)
        BY <3>1 DEF AuditInv, EntriesInOrder, ToSet
      <4>2. PICK k \in DOMAIN sent : sent[k] = Entries[i]
        BY <4>1 DEF ToSet
      <4>3. /\ k \in DOMAIN sent' /\ sent'[k] = sent[k] /\ k < Len(sent) + 1
            /\ Len(sent) + 1 \in DOMAIN sent' /\ sent'[Len(sent) + 1] = q
        BY <1>2, <2>1
      <4> QED
        BY <3>1, <3>3, <4>2, <4>3
    <3> QED
      BY <2>1, <2>2, <2>8, <3>2, <3>3
  <2> QED
    BY <2>6, <2>7, <2>8 DEF EntriesInOrder, Before
<1> QED
  BY <1>1, <1>2 DEF Send, Entries, writerVars

LEMMA TakeStep ==
  ASSUME AuditInv, TakeEntry PROVE Entries' = Entries
<1>1. /\ table \in Seq(AuditedCalls) /\ batch \in Seq(AuditedCalls)
      /\ auditChan \in Seq(AuditedCalls) /\ auditChan # <<>>
  BY DEF AuditInv, AuditType, TakeEntry
<1>2. batch' \o auditChan' = batch \o auditChan
  BY <1>1 DEF TakeEntry
<1>3. batch' \in Seq(AuditedCalls) /\ auditChan' \in Seq(AuditedCalls) /\ table' = table
  BY <1>1 DEF TakeEntry
<1>4. (table \o batch) \o auditChan = table \o (batch \o auditChan)
  BY <1>1, ConcatAssociative
<1>5. (table' \o batch') \o auditChan' = table' \o (batch' \o auditChan')
  BY <1>1, <1>3, ConcatAssociative
<1> QED
  BY <1>2, <1>3, <1>4, <1>5 DEF Entries

LEMMA InsertStep ==
  ASSUME AuditInv, Insert PROVE Entries' = Entries
<1>1. table \in Seq(AuditedCalls) /\ batch \in Seq(AuditedCalls)
  BY DEF AuditInv, AuditType
<1>2. (table \o batch) \o <<>> = table \o batch
  BY <1>1
<1> QED
  BY <1>2 DEF Insert, Entries

LEMMA AuditTyping ==
  ASSUME AuditInv, [AuditNext]_auditVars PROVE AuditType'
<1> USE DEF AuditType
<1>0. AuditType
  BY DEF AuditInv
<1>1. ASSUME NEW q \in AuditedCalls, Begin(q) PROVE AuditType'
  BY <1>0, <1>1 DEF Begin, writerVars, mainVars
<1>2. ASSUME NEW q \in AuditedCalls, Send(q) PROVE AuditType'
  <2>1. sent' \in Seq(AuditedCalls) /\ auditChan' \in Seq(AuditedCalls)
    <3>1. Append(sent, q) \in Seq(AuditedCalls) /\ Append(auditChan, q) \in Seq(AuditedCalls)
      BY <1>0, AppendProperties
    <3> QED
      BY <1>0, <1>2, <3>1 DEF Send
  <2> QED
    BY <1>0, <1>2, <2>1 DEF Send, writerVars, mainVars
<1>3. ASSUME NEW q \in AuditedCalls, Panic(q) PROVE AuditType'
  BY <1>0, <1>3 DEF Panic, writerVars, mainVars
<1>4. CASE TakeEntry
  <2>1. auditChan # <<>> /\ Head(auditChan) \in AuditedCalls /\ Tail(auditChan) \in Seq(AuditedCalls)
    BY <1>0, <1>4 DEF TakeEntry
  <2> QED
    BY <1>0, <1>4, <2>1 DEF TakeEntry, mainVars
<1>5. CASE Ticker
  BY <1>0, <1>5 DEF Ticker, mainVars
<1>6. CASE Closed
  BY <1>0, <1>6 DEF Closed, mainVars
<1>7. CASE Insert
  BY <1>0, <1>7 DEF Insert, AfterInsert, mainVars
<1>8. CASE InsertFails
  <2>1. ToSet(batch) \subseteq AuditedCalls
    BY <1>0 DEF ToSet
  <2> QED
    BY <1>0, <1>8, <2>1 DEF InsertFails, AfterInsert, mainVars
<1>9. CASE Terminate
  BY <1>0, <1>9 DEF Terminate, writerVars
<1>10. CASE FlushEnds
  BY <1>0, <1>10 DEF FlushEnds, writerVars
<1>11. CASE ConsumersStopped
  BY <1>0, <1>11 DEF ConsumersStopped, writerVars
<1>12. CASE Gone
  <2>1. ToSet(batch) \subseteq AuditedCalls /\ ToSet(auditChan) \subseteq AuditedCalls
    BY <1>0 DEF ToSet
  <2> QED
    BY <1>0, <1>12, <2>1 DEF Gone
<1>13. CASE UNCHANGED auditVars
  BY <1>0, <1>13 DEF auditVars, writerVars, mainVars
<1> QED
  BY <1>1, <1>2, <1>3, <1>4, <1>5, <1>6, <1>7, <1>8, <1>9, <1>10, <1>11, <1>12, <1>13
  DEF AuditNext, Writer, Main, HttpStopped, Killed

LEMMA AuditQuiet ==
  ASSUME AuditInv, [AuditNext]_auditVars PROVE Quiet'
<1> USE DEF Quiet
<1>0. Quiet /\ AuditType
  BY DEF AuditInv
<1>1. ASSUME NEW q \in AuditedCalls, Begin(q) PROVE Quiet'
  BY <1>0, <1>1 DEF Begin, writerVars, mainVars
<1>2. ASSUME NEW q \in AuditedCalls, Send(q) PROVE Quiet'
  <2>1. ToSet(sent) \subseteq ToSet(sent')
    <3>1. sent \in Seq(AuditedCalls)
      BY <1>0 DEF AuditType
    <3>2. CASE sent' = Append(sent, q)
      <4>1. \A i \in DOMAIN sent : i \in DOMAIN sent' /\ sent'[i] = sent[i]
        BY <3>1, <3>2
      <4> QED
        BY <4>1 DEF ToSet
    <3> QED
      BY <1>2, <3>2 DEF Send
  <2>2. auditChan' = auditChan \/ ~auditClosed
    BY <1>2 DEF Send
  <2> QED
    BY <1>0, <1>2, <2>1, <2>2 DEF Send, writerVars, mainVars
<1>3. ASSUME NEW q \in AuditedCalls, Panic(q) PROVE Quiet'
  BY <1>0, <1>3 DEF Panic, writerVars, mainVars
<1>4. CASE TakeEntry
  BY <1>0, <1>4 DEF TakeEntry, mainVars
<1>5. CASE Ticker
  BY <1>0, <1>5 DEF Ticker, mainVars
<1>6. CASE Closed
  BY <1>0, <1>6 DEF Closed, mainVars
<1>7. CASE Insert
  BY <1>0, <1>7 DEF Insert, AfterInsert, mainVars
<1>8. CASE InsertFails
  BY <1>0, <1>8, EntriesType DEF InsertFails, AfterInsert, mainVars, AuditInv, EntriesInOrder
<1>9. CASE Terminate
  BY <1>0, <1>9 DEF Terminate, writerVars
<1>10. CASE FlushEnds
  BY <1>0, <1>10 DEF FlushEnds, writerVars
<1>11. CASE ConsumersStopped
  BY <1>0, <1>11 DEF ConsumersStopped, writerVars
<1>12. CASE Gone
  BY <1>0, <1>12, EntriesType DEF Gone, AuditInv, EntriesInOrder
<1>13. CASE UNCHANGED auditVars
  BY <1>0, <1>13 DEF auditVars, writerVars, mainVars
<1> QED
  BY <1>1, <1>2, <1>3, <1>4, <1>5, <1>6, <1>7, <1>8, <1>9, <1>10, <1>11, <1>12, <1>13
  DEF AuditNext, Writer, Main, HttpStopped, Killed
(* The calls whose entry was sent stay recorded. *)
LEMMA AuditSentOnce ==
  ASSUME AuditInv, [AuditNext]_auditVars, sent' = sent PROVE SentOnce'
<1>1. \A p \in AuditedCalls : call[p] = "recorded" => call'[p] = "recorded"
  BY DEF AuditNext, auditVars, Begin, Send, Panic, Writer, Main, TakeEntry, Ticker, Closed, Insert,
         InsertFails, Terminate, FlushEnds, ConsumersStopped, HttpStopped, Killed, Gone,
         AuditInv, AuditType
<1>2. \A i \in DOMAIN sent : sent[i] \in AuditedCalls
  BY DEF AuditInv, AuditType
<1> QED
  BY <1>1, <1>2 DEF AuditInv, SentOnce

LEMMA AuditOrder ==
  ASSUME AuditInv, [AuditNext]_auditVars PROVE SentOnce' /\ EntriesInOrder'
<1>1. CASE UNCHANGED <<sent, discarded>> /\ Entries' = Entries
  BY <1>1, AuditSentOnce DEF AuditInv, EntriesInOrder, Before
<1>2. ASSUME NEW q \in AuditedCalls, Begin(q) \/ Panic(q)
      PROVE  UNCHANGED <<sent, discarded>> /\ Entries' = Entries
  BY <1>2 DEF Begin, Panic, writerVars, Entries
<1>3. CASE TakeEntry \/ Insert
  BY <1>3, TakeStep, InsertStep, <1>1 DEF TakeEntry, Insert
<1>4. CASE InsertFails
  BY <1>4, InsertFailsStep, AuditSentOnce DEF InsertFails
<1>5. CASE Gone
  BY <1>5, GoneStep, AuditSentOnce DEF Gone
<1>6. CASE Ticker \/ Closed
  BY <1>6, <1>1 DEF Ticker, Closed, Entries
<1>7. CASE Terminate \/ FlushEnds \/ ConsumersStopped
  BY <1>7, <1>1 DEF Terminate, FlushEnds, ConsumersStopped, writerVars, Entries
<1>8. CASE UNCHANGED auditVars
  BY <1>8, <1>1 DEF auditVars, writerVars, Entries
<1> QED
  BY <1>1, <1>2, <1>3, <1>4, <1>5, <1>6, <1>7, <1>8, SendStep
  DEF AuditNext, Writer, Main, HttpStopped, Killed

(* The inductive invariant of the audit log holds of every reachable state,  *)
(* for any calls, capacity and batch size, whatever INSERT fails and         *)
(* whenever the process ends.                                                *)
THEOREM AuditInvariance == AuditSpec => []AuditInv
<1>1. AuditInit => AuditInv
  <2> SUFFICES ASSUME AuditInit PROVE AuditInv
    OBVIOUS
  <2>1. Entries = <<>>
    BY DEF AuditInit, Entries
  <2>2. AuditType /\ SentOnce
    <3>1. <<>> \in Seq(AuditedCalls) /\ DOMAIN <<>> = {}
      OBVIOUS
    <3>2. AuditType
      BY <3>1 DEF AuditInit, AuditType
    <3> QED
      BY <3>1, <3>2 DEF AuditInit, SentOnce
  <2>3. EntriesInOrder /\ Quiet
    BY <2>1 DEF AuditInit, EntriesInOrder, Quiet, ToSet
  <2> QED
    BY <2>1, <2>2, <2>3 DEF AuditInv
<1>2. AuditInv /\ [AuditNext]_auditVars => AuditInv'
  BY AuditTyping, AuditQuiet, AuditOrder DEF AuditInv
<1> QED
  BY <1>1, <1>2, PTL DEF AuditSpec

(* The entries in table, batch and channel are those that were sent, each    *)
(* once and in the order they were sent, but for the ones discarded with a   *)
(* failed INSERT or with the process (AuditMiddleware, startAuditWriter).    *)
THEOREM EntriesKeepOrder == AuditSpec => []EntriesInOrder
<1>1. AuditInv => EntriesInOrder
  BY DEF AuditInv
<1> QED
  BY <1>1, AuditInvariance, PTL

(* When FlushAuditLog returns before its timeout, no entry that was sent is  *)
(* outside the table, but for those of a failed INSERT.                      *)
THEOREM FlushesAll == AuditSpec => []FlushComplete
<1>1. AuditInv => FlushComplete
  <2> SUFFICES ASSUME AuditInv, flushed PROVE ToSet(table) = ToSet(sent) \ discarded
    BY DEF FlushComplete
  <2>1. ToSet(batch) = {} /\ ToSet(auditChan) = {}
    BY DEF AuditInv, Quiet, ToSet
  <2> QED
    BY <2>1, EntriesType DEF AuditInv, EntriesInOrder
<1> QED
  BY <1>1, AuditInvariance, PTL
=============================================================================
