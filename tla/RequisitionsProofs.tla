------------------------- MODULE RequisitionsProofs -------------------------
(***************************************************************************)
(* Proofs about Requisitions, for every set of requests, hiring requests,  *)
(* fields and values, with failing statements and pods dying between any   *)
(* two of them: what the change log of a hiring request explains, and what *)
(* a request has announced when it is answered.                            *)
(***************************************************************************)
EXTENDS Requisitions, SequenceTheorems, TLAPS

Rows == [Columns -> Values]
Labels == {"idle", "logCreated", "track", "delete", "notify", "store", "email", "publish",
           "done", "dead"}
Codes == {"none", "200", "201", "403", "404", "500"}
Texts == {Text[f][v] : f \in Fields, v \in Values} \cup {"-"}
Entries == [by : Requests, old : Texts, new : Texts]

-----------------------------------------------------------------------------
(* The inductive invariant *)

(* Every row of the table has been created or found. *)
TablesOK ==
  /\ DOMAIN row \subseteq DOMAIN base /\ DOMAIN base \subseteq Reqs
  /\ row \in [DOMAIN row -> Rows] /\ base \in [DOMAIN base -> Rows]
  /\ changes \in [Reqs -> [Logged -> Seq(Entries)]]
  /\ \A r \in Reqs \ DOMAIN base : \A f \in Fields : changes[r][f] = <<>>

(* What a request asks for, where it stands. *)
RequestOK(q) ==
  /\ next[q] \in Nat \ {0}
  /\ tracked[q] \subseteq Fields
  /\ ask[q].kind \in {"none", "create", "update", "delete"}
  /\ pc[q] = "idle" => next[q] = 1 /\ tracked[q] = {}
  /\ pc[q] = "logCreated" => ask[q].kind = "create"
  /\ pc[q] = "track" => ask[q].kind = "update"
  /\ pc[q] = "delete" => ask[q].kind = "delete"
  /\ ask[q].kind = "update" => /\ ask[q].req \in DOMAIN base
                               /\ ask[q].body \in Bodies
                               /\ ask[q].seen \in Rows

LocalsOK ==
  /\ pc \in [Requests -> Labels] /\ answer \in [Requests -> Codes]
  /\ next \in [Requests -> Nat] /\ tracked \in [Requests -> SUBSET Fields]
  /\ DOMAIN ask = Requests
  /\ \A q \in Requests : RequestOK(q)

(* An update has tracked the fields before next whose text its body changes. *)
Differs(q, f) ==
  f \in DOMAIN ask[q].body /\ Text[f][ask[q].seen[f]] # Text[f][ask[q].body[f]]
TrackedOK ==
  \A q \in Requests : pc[q] = "track" =>
    tracked[q] = {Tracked[i] : i \in {j \in DOMAIN Tracked : j < next[q] /\ Differs(q, Tracked[j])}}

(* The updates of r that have recorded a change of f and not written it yet. *)
Updating(q, r, f) == pc[q] = "track" /\ ask[q].req = r /\ f \in DOMAIN ask[q].body
Recorders(r, f) == {q \in Requests : Updating(q, r, f) /\ f \in tracked[q]}

(* The log of an undisturbed field leads to the row, or to what the one      *)
(* update that has recorded a change is about to write; every update under   *)
(* way has read what is in the row.                                          *)
Explained(r, f) ==
  /\ \A q \in Requests : Updating(q, r, f) => ask[q].seen[f] = row[r][f]
  /\ Recorders(r, f) = {} => LastText(r, f) = Text[f][row[r][f]] /\ Chained(r, f)
  /\ \A q \in Requests : Recorders(r, f) = {q} =>
       LastText(r, f) = Text[f][ask[q].body[f]] /\ Chained(r, f)

LogOK == \A r \in DOMAIN row, f \in Fields : <<r, f>> \notin disturbed => Explained(r, f)

(* What a request has announced, where it stands. *)
EmailsOf(q) == {e \in emailed : e[1] = q}
Told(q) == Known(q) /\ ask[q].req \in Managed /\ <<q, "manager">> \notin missed
Before == {"idle", "logCreated", "track", "delete", "notify"}

Announced(q) ==
  /\ pc[q] \in Before => q \notin notified /\ <<q, "manager">> \notin missed
  /\ pc[q] \in Before \cup {"store"} => q \notin stored /\ <<q, "notification">> \notin missed
  /\ pc[q] \in Before \cup {"store", "email"} => q \notin rung /\ EmailsOf(q) = {}
  /\ pc[q] \in Before \cup {"store", "email", "publish"} => q \notin published
  /\ pc[q] \in {"notify", "store", "email", "publish"} /\ ask[q].kind = "update" =>
       tracked[q] # {}
  /\ pc[q] \in {"store", "email"} => q \in notified /\ Told(q)
  /\ pc[q] = "email" => (q \in stored <=> <<q, "notification">> \notin missed)
  /\ pc[q] = "publish" =>
       /\ q \in notified <=> Told(q)
       /\ q \in rung <=> Told(q)
       /\ q \in stored <=> Told(q) /\ <<q, "notification">> \notin missed
       /\ EmailsOf(q) = IF Told(q) THEN Emails(q) ELSE {}

AnnouncedOK == \A q \in Requests : Announced(q)

IInv == TablesOK /\ LocalsOK /\ TrackedOK /\ LogOK /\ AnnouncedOK /\ AnnouncedAsAnswered

-----------------------------------------------------------------------------
(* The steps of a request. *)

Step(q) ==
  \/ Refuse(q) \/ Crash(q)
  \/ \E r \in Reqs, n \in NewRows : Insert(q, r, n)
  \/ LogCreated(q)
  \/ \E r \in Reqs, b \in Bodies : Read(q, r, b)
  \/ Track(q) \/ Update(q)
  \/ \E r \in Reqs : ReadForDelete(q, r)
  \/ Delete(q)
  \/ Notify(q) \/ Store(q) \/ Email(q) \/ Publish(q)

(* A step of one request leaves the locals of the others, and what they      *)
(* have announced, alone.                                                    *)
LEMMA OthersKept ==
  ASSUME LocalsOK, NEW q \in Requests, Step(q), NEW o \in Requests, o # q
  PROVE  /\ pc'[o] = pc[o] /\ ask'[o] = ask[o] /\ next'[o] = next[o]
         /\ tracked'[o] = tracked[o] /\ answer'[o] = answer[o]
         /\ o \in notified' <=> o \in notified
         /\ o \in published' <=> o \in published
         /\ o \in stored' <=> o \in stored
         /\ o \in rung' <=> o \in rung
         /\ \A w : <<o, w>> \in missed' <=> <<o, w>> \in missed
         /\ EmailsOf(o)' = EmailsOf(o)
<1> USE DEF LocalsOK
<1>1. /\ pc'[o] = pc[o] /\ ask'[o] = ask[o] /\ next'[o] = next[o]
      /\ tracked'[o] = tracked[o] /\ answer'[o] = answer[o]
  BY DEF Step, Refuse, Crash, Insert, LogCreated, Read, Track, Update, ReadForDelete, Delete,
         Notify, Store, Email, Publish, Finish, Continue, Goto, locals
<1>2. /\ o \in notified' <=> o \in notified
      /\ o \in published' <=> o \in published
      /\ o \in stored' <=> o \in stored
      /\ o \in rung' <=> o \in rung
      /\ \A w : <<o, w>> \in missed' <=> <<o, w>> \in missed
  BY DEF Step, Refuse, Crash, Insert, LogCreated, Read, Track, Update, ReadForDelete, Delete,
         Notify, Store, Email, Publish, outputs, history
<1>3. emailed' = emailed \/ emailed' = emailed \cup Emails(q)
  BY DEF Step, Refuse, Crash, Insert, LogCreated, Read, Track, Update, ReadForDelete, Delete,
         Notify, Store, Email, Publish, outputs
<1>4. \A e \in Emails(q) : e[1] = q
  BY DEF Emails
<1>5. EmailsOf(o)' = EmailsOf(o)
  BY <1>3, <1>4 DEF EmailsOf
<1> QED
  BY <1>1, <1>2, <1>5

(* Rows are created once and never come back. *)
LEMMA BaseGrows ==
  ASSUME TablesOK, NEW q \in Requests, Step(q)
  PROVE  DOMAIN base \subseteq DOMAIN base' /\ \A r \in DOMAIN base : base'[r] = base[r]
<1>1. ASSUME NEW r \in Reqs, NEW n \in NewRows, Insert(q, r, n)
      PROVE  DOMAIN base \subseteq DOMAIN base' /\ \A s \in DOMAIN base : base'[s] = base[s]
  BY <1>1 DEF Insert, With
<1> QED
  BY <1>1 DEF Step, Refuse, Crash, LogCreated, Read, Track, Update, ReadForDelete, Delete,
              Notify, Store, Email, Publish, history

LEMMA LocalsStep ==
  ASSUME TablesOK, LocalsOK, NEW q \in Requests, Step(q)
  PROVE  LocalsOK'
<1> USE RequisitionsAssumption DEF LocalsOK
<1>1. DOMAIN ask' = Requests
  BY DEF Step, Refuse, Crash, Insert, LogCreated, Read, Track, Update, ReadForDelete, Delete,
         Notify, Store, Email, Publish, locals
<1>7. pc' \in [Requests -> Labels] /\ answer' \in [Requests -> Codes]
  <2> USE DEF Finish, Continue, Goto, Labels, Codes
  <2>1. CASE Refuse(q) \/ Crash(q) \/ LogCreated(q) \/ Delete(q)
    BY <2>1 DEF Refuse, Crash, LogCreated, Delete
  <2>2. CASE Notify(q) \/ Store(q) \/ Email(q) \/ Publish(q)
    BY <2>2 DEF Notify, Store, Email, Publish
  <2>3. CASE Track(q)
    BY <2>3 DEF Track
  <2>6. CASE Update(q)
    BY <2>6 DEF Update
  <2>4. ASSUME NEW r \in Reqs, ReadForDelete(q, r) \/ \E n \in NewRows : Insert(q, r, n)
        PROVE  pc' \in [Requests -> Labels] /\ answer' \in [Requests -> Codes]
    BY <2>4 DEF ReadForDelete, Insert
  <2>5. ASSUME NEW r \in Reqs, NEW b \in Bodies, Read(q, r, b)
        PROVE  pc' \in [Requests -> Labels] /\ answer' \in [Requests -> Codes]
    BY <2>5 DEF Read
  <2> QED
    BY <2>1, <2>2, <2>3, <2>4, <2>5, <2>6 DEF Step
<1>4. next' \in [Requests -> Nat] /\ tracked' \in [Requests -> SUBSET Fields]
  <2>1. CASE Track(q)
    <3>1. Tracked[next[q]] \in Fields
      BY <2>1 DEF Track, Fields, ToSet, RequestOK
    <3> QED
      BY <2>1, <3>1 DEF Track
  <2>2. CASE ~Track(q)
    BY <2>2 DEF Step, Refuse, Crash, Insert, LogCreated, Read, Update, ReadForDelete, Delete,
                Notify, Store, Email, Publish, locals
  <2> QED
    BY <2>1, <2>2
<1>2. RequestOK(q)'
  <2> USE DEF RequestOK, Labels, Finish, Continue, Goto, locals
  <2>1. CASE Refuse(q) \/ Crash(q) \/ LogCreated(q) \/ Delete(q) \/ Notify(q) \/ Store(q)
               \/ Email(q) \/ Publish(q)
    BY <2>1, BaseGrows DEF Refuse, Crash, LogCreated, Delete, Notify, Store, Email, Publish
  <2>2. ASSUME NEW r \in Reqs, NEW n \in NewRows, Insert(q, r, n) PROVE RequestOK(q)'
    BY <2>2, BaseGrows DEF Insert
  <2>3. ASSUME NEW r \in Reqs, NEW b \in Bodies, Read(q, r, b) PROVE RequestOK(q)'
    BY <2>3 DEF Read, TablesOK, history
  <2>4. CASE Track(q)
    BY <2>4 DEF Track, Fields, ToSet
  <2>5. CASE Update(q)
    BY <2>5 DEF Update
  <2>6. ASSUME NEW r \in Reqs, ReadForDelete(q, r) PROVE RequestOK(q)'
    BY <2>6 DEF ReadForDelete
  <2> QED
    BY <2>1, <2>2, <2>3, <2>4, <2>5, <2>6 DEF Step
<1>3. ASSUME NEW o \in Requests, o # q PROVE RequestOK(o)'
  BY <1>3, OthersKept, BaseGrows DEF RequestOK
<1> QED
  BY <1>1, <1>2, <1>3, <1>4, <1>7

LEMMA TrackedStep ==
  ASSUME TablesOK, LocalsOK, TrackedOK, NEW q \in Requests, Step(q)
  PROVE  TrackedOK'
<1> USE DEF LocalsOK
<1>1. ASSUME NEW o \in Requests, o # q, pc'[o] = "track"
      PROVE  tracked'[o] = {Tracked[i] : i \in {j \in DOMAIN Tracked :
                                                  j < next'[o] /\ Differs(o, Tracked[j])'}}
  BY <1>1, OthersKept DEF TrackedOK, Differs
<1>2. ASSUME pc'[q] = "track"
      PROVE  tracked'[q] = {Tracked[i] : i \in {j \in DOMAIN Tracked :
                                                  j < next'[q] /\ Differs(q, Tracked[j])'}}
  <2>1. (\E r \in Reqs, b \in Bodies : Read(q, r, b)) \/ Track(q)
    BY <1>2 DEF Step, Refuse, Crash, Insert, LogCreated, Update, ReadForDelete, Delete,
                Notify, Store, Email, Publish, Finish, Continue, Goto
  <2>2. ASSUME NEW r \in Reqs, NEW b \in Bodies, Read(q, r, b)
        PROVE  next'[q] = 1 /\ tracked'[q] = {}
    BY <2>2 DEF Read, RequestOK
  <2>3. CASE Track(q)
    <3> DEFINE f == Tracked[next[q]]
    <3>1. /\ UNCHANGED ask /\ next'[q] = next[q] + 1 /\ next[q] \in DOMAIN Tracked
          /\ pc[q] = "track"
      BY <2>3, RequisitionsAssumption DEF Track, RequestOK
    <3>2. tracked'[q] = IF Differs(q, f) THEN tracked[q] \cup {f} ELSE tracked[q]
      BY <2>3 DEF Track, Differs
    <3>3. \A j \in DOMAIN Tracked : j < next'[q] <=> j < next[q] \/ j = next[q]
      BY <3>1, RequisitionsAssumption
    <3>4. \A j \in DOMAIN Tracked : Differs(q, Tracked[j])' <=> Differs(q, Tracked[j])
      BY <3>1 DEF Differs
    <3>5. tracked[q] = {Tracked[i] : i \in {j \in DOMAIN Tracked :
                                              j < next[q] /\ Differs(q, Tracked[j])}}
      BY <3>1 DEF TrackedOK
    <3> QED
      BY <3>1, <3>2, <3>3, <3>4, <3>5
  <2>4. \A j \in DOMAIN Tracked : ~(j < 1)
    BY RequisitionsAssumption
  <2> QED
    BY <2>1, <2>2, <2>3, <2>4
<1> QED
  BY <1>1, <1>2 DEF TrackedOK

-----------------------------------------------------------------------------
(* The change log. *)

(* The texts of a field that are logged. *)
LEMMA FieldTexts ==
  ASSUME NEW f \in Fields, NEW v \in Values
  PROVE  Text[f][v] \in Texts
  BY DEF Texts

(* One more change of a field. *)
LEMMA LogAppended ==
  ASSUME NEW s \in Seq(Entries), NEW e \in Entries
  PROVE  /\ Append(s, e) \in Seq(Entries) /\ Append(s, e) # <<>>
         /\ DOMAIN Append(s, e) = 1 .. Len(s) + 1 /\ DOMAIN s = 1 .. Len(s)
         /\ Len(s) \in Nat /\ s # <<>> => Len(s) > 0
         /\ Last(Append(s, e)) = e /\ Last(s) = s[Len(s)]
         /\ \A i \in 1 .. Len(s) : Append(s, e)[i] = s[i]
         /\ Append(s, e)[Len(s) + 1] = e
  BY DEF Last

LEMMA LogExtended ==
  ASSUME TablesOK, NEW r, NEW f \in Logged, NEW e \in Entries,
         changes' = [changes EXCEPT ![r][f] = Append(@, e)]
  PROVE  /\ changes' \in [Reqs -> [Logged -> Seq(Entries)]]
         /\ \A s \in Reqs, g \in Logged :
              changes'[s][g] = IF s = r /\ g = f THEN Append(changes[s][g], e) ELSE changes[s][g]
<1>1. changes \in [Reqs -> [Logged -> Seq(Entries)]]
  BY DEF TablesOK
<1>2. ASSUME NEW s \in Reqs, NEW g \in Logged
      PROVE  changes'[s][g] = IF s = r /\ g = f THEN Append(changes[s][g], e) ELSE changes[s][g]
  BY <1>1
<1>3. \A t \in Seq(Entries) : Append(t, e) \in Seq(Entries)
  OBVIOUS
<1>4. \A s \in Reqs, g \in Logged : changes'[s][g] \in Seq(Entries)
  BY <1>1, <1>2, <1>3
<1>5. DOMAIN changes' = Reqs
  BY <1>1
<1>6. \A s \in Reqs : changes'[s] = [g \in Logged |-> changes'[s][g]]
  BY <1>1
<1> QED
  BY <1>2, <1>4, <1>5, <1>6

(* What Track records about a field whose text differs. *)
EntryOf(q, f) ==
  [by |-> q, old |-> Text[f][ask[q].seen[f]], new |-> Text[f][ask[q].body[f]]]

LEMMA EntryTyped ==
  ASSUME TablesOK, LocalsOK, NEW q \in Requests, NEW f \in Fields, ask[q].kind = "update",
         f \in DOMAIN ask[q].body
  PROVE  /\ EntryOf(q, f) \in Entries
         /\ ask[q].body[f] \in Values /\ ask[q].seen[f] \in Values
<1>1. /\ ask[q].body \in Bodies /\ ask[q].seen \in Rows
  BY DEF LocalsOK, RequestOK
<1>2. f \in Columns
  BY DEF Columns, Fields
<1>3. ask[q].body[f] \in Values /\ ask[q].seen[f] \in Values
  BY <1>1, <1>2, RequisitionsAssumption DEF Rows
<1> QED
  BY <1>3, FieldTexts DEF EntryOf, Entries

(* What Track does, in one formula. *)
LEMMA TrackFacts ==
  ASSUME TablesOK, LocalsOK, NEW q \in Requests, Track(q)
  PROVE  \E f \in Fields :
           /\ f = Tracked[next[q]] /\ next[q] \in DOMAIN Tracked
           /\ pc[q] = "track" /\ ask[q].kind = "update"
           /\ UNCHANGED <<row, base, pc, ask, outputs, missed>>
           /\ tracked' = IF Differs(q, f) THEN [tracked EXCEPT ![q] = @ \cup {f}] ELSE tracked
           /\ \/ Differs(q, f) /\ ask[q].req \in DOMAIN row /\ UNCHANGED disturbed
                 /\ changes' = [changes EXCEPT ![ask[q].req][f] = Append(@, EntryOf(q, f))]
              \/ Differs(q, f) /\ UNCHANGED changes
                 /\ disturbed' = disturbed \cup {<<ask[q].req, f>>}
              \/ ~Differs(q, f) /\ UNCHANGED <<changes, disturbed>>
<1> DEFINE f == Tracked[next[q]]
<1>1. pc[q] = "track" /\ ask[q].kind = "update" /\ next[q] \in DOMAIN Tracked
  BY RequisitionsAssumption DEF Track, LocalsOK, RequestOK
<1>2. f \in Fields
  BY <1>1 DEF Fields, ToSet
<1>3. ask[q].req \in Reqs /\ f \in Logged
  BY <1>1, <1>2 DEF LocalsOK, RequestOK, TablesOK, Logged
<1>4. Differs(q, f) /\ ask[q].req \in DOMAIN row
        /\ changes' = [changes EXCEPT ![ask[q].req][f] = Append(@, EntryOf(q, f))]
      => changes' # changes
  <2> SUFFICES ASSUME Differs(q, f),
                      changes' = [changes EXCEPT ![ask[q].req][f] = Append(@, EntryOf(q, f))]
               PROVE  changes' # changes
    OBVIOUS
  <2>1. changes'[ask[q].req][f] = Append(changes[ask[q].req][f], EntryOf(q, f))
    BY <1>3 DEF TablesOK
  <2>2. changes[ask[q].req][f] \in Seq(Entries)
    BY <1>3 DEF TablesOK
  <2>3. EntryOf(q, f) \in Entries
    BY <1>1, <1>2, EntryTyped DEF Differs
  <2> DEFINE s == changes[ask[q].req][f]
             e == EntryOf(q, f)
  <2>4. Len(Append(s, e)) = Len(s) + 1 /\ Len(s) \in Nat
    <3> HIDE DEF s, e
    <3> QED
      BY <2>2, <2>3 DEF s, e
  <2>5. Append(s, e) # s
    BY <2>4
  <2> QED
    BY <2>1, <2>5
<1>5. /\ UNCHANGED <<row, base, pc, ask, outputs, missed>>
      /\ tracked' = IF Differs(q, f) THEN [tracked EXCEPT ![q] = @ \cup {f}] ELSE tracked
      /\ \/ Differs(q, f) /\ ask[q].req \in DOMAIN row /\ UNCHANGED disturbed
            /\ changes' = [changes EXCEPT ![ask[q].req][f] = Append(@, EntryOf(q, f))]
         \/ Differs(q, f) /\ UNCHANGED changes
            /\ disturbed' = disturbed \cup {<<ask[q].req, f>>}
         \/ ~Differs(q, f) /\ UNCHANGED <<changes, disturbed>>
  BY <1>4 DEF Track, Record, Differs, EntryOf
<1>6. WITNESS f \in Fields
<1> QED
  BY <1>1, <1>5

LEMMA TablesStep ==
  ASSUME TablesOK, LocalsOK, NEW q \in Requests, Step(q)
  PROVE  TablesOK'
<1> USE RequisitionsAssumption DEF TablesOK
<1>0. UNCHANGED <<tables, base>> => TablesOK'
  BY DEF tables
<1>1. CASE Refuse(q) \/ Crash(q) \/ Notify(q) \/ Store(q) \/ Email(q) \/ Publish(q)
  BY <1>0, <1>1 DEF Refuse, Crash, Notify, Store, Email, Publish, history
<1>2. ASSUME NEW r \in Reqs, NEW n \in NewRows, Insert(q, r, n) PROVE TablesOK'
  <2>1. n \in Rows /\ r \notin DOMAIN base /\ UNCHANGED changes
    BY <1>2 DEF Insert, Rows
  <2>2. CASE row' = With(row, r, n) /\ base' = With(base, r, n)
    <3>1. DOMAIN row' = DOMAIN row \cup {r} /\ DOMAIN base' = DOMAIN base \cup {r}
      BY <2>2 DEF With
    <3>2. row' \in [DOMAIN row' -> Rows] /\ base' \in [DOMAIN base' -> Rows]
      BY <2>1, <2>2 DEF With
    <3> QED
      BY <2>1, <3>1, <3>2
  <2> QED
    BY <1>0, <1>2, <2>2 DEF Insert, tables
<1>3. CASE LogCreated(q)
  <2> DEFINE e == [by |-> q, old |-> "-", new |-> "-"]
  <2>1. e \in Entries
    BY DEF Entries, Texts
  <2>2. UNCHANGED <<row, base>>
    BY <1>3 DEF LogCreated, history
  <2> HIDE DEF e
  <2>3. CASE changes' = [changes EXCEPT ![ask[q].req]["-"] = Append(@, e)]
    <3>1. changes' \in [Reqs -> [Logged -> Seq(Entries)]]
      BY <2>1, <2>3, LogExtended DEF Logged
    <3>2. \A r \in Reqs, f \in Fields : changes'[r][f] = changes[r][f]
      BY <2>1, <2>3, LogExtended DEF Logged, Fields, Columns
    <3> QED
      BY <2>2, <3>1, <3>2
  <2>4. CASE UNCHANGED changes
    BY <1>0, <2>2, <2>4 DEF tables
  <2> QED
    BY <1>3, <2>3, <2>4 DEF LogCreated, Record, e
<1>4. ASSUME NEW r \in Reqs, NEW b \in Bodies, Read(q, r, b) PROVE TablesOK'
  BY <1>0, <1>4 DEF Read, history
<1>5. CASE Track(q)
  <2>1. PICK f \in Fields :
          /\ UNCHANGED <<row, base>> /\ ask[q].kind = "update" /\ pc[q] = "track"
          /\ \/ Differs(q, f)
                /\ changes' = [changes EXCEPT ![ask[q].req][f] = Append(@, EntryOf(q, f))]
             \/ UNCHANGED changes
    BY <1>5, TrackFacts
  <2>2. CASE UNCHANGED changes
    BY <1>0, <2>1, <2>2 DEF tables
  <2>3. CASE Differs(q, f)
             /\ changes' = [changes EXCEPT ![ask[q].req][f] = Append(@, EntryOf(q, f))]
    <3>1. EntryOf(q, f) \in Entries /\ ask[q].req \in DOMAIN base
      BY <2>1, <2>3, EntryTyped DEF Differs, LocalsOK, RequestOK
    <3>2. changes' \in [Reqs -> [Logged -> Seq(Entries)]]
      BY <2>3, <3>1, LogExtended DEF Logged
    <3>3. \A r \in Reqs \ DOMAIN base : changes'[r] = changes[r]
      BY <2>3, <3>1
    <3> QED
      BY <2>1, <3>2, <3>3
  <2> QED
    BY <2>1, <2>2, <2>3
<1>6. CASE Update(q)
  <2>1. UNCHANGED <<base, changes>> /\ pc[q] = "track" /\ ask[q].body \in Bodies
    BY <1>6 DEF Update, LocalsOK, RequestOK
  <2>2. CASE UNCHANGED row
    BY <1>0, <2>1, <2>2 DEF tables
  <2> DEFINE r == ask[q].req
             b == ask[q].body
  <2>3. CASE r \in DOMAIN row
             /\ row' = [row EXCEPT ![r] =
                          [f \in Columns |-> IF f \in DOMAIN b THEN b[f] ELSE @[f]]]
    <3>1. \A f \in Columns : (IF f \in DOMAIN b THEN b[f] ELSE row[r][f]) \in Values
      BY <2>1, <2>3 DEF Rows
    <3>2. [f \in Columns |-> IF f \in DOMAIN b THEN b[f] ELSE row[r][f]] \in Rows
      BY <3>1 DEF Rows
    <3>3. DOMAIN row' = DOMAIN row /\ row' \in [DOMAIN row -> Rows]
      BY <2>3, <3>2
    <3> QED
      BY <2>1, <3>3
  <2>4. \/ UNCHANGED row
        \/ /\ r \in DOMAIN row
           /\ row' = [row EXCEPT ![r] =
                        [f \in Columns |-> IF f \in DOMAIN b THEN b[f] ELSE @[f]]]
    BY <1>6 DEF Update
  <2> QED
    BY <2>2, <2>3, <2>4
<1>7. ASSUME NEW r \in Reqs, ReadForDelete(q, r) PROVE TablesOK'
  BY <1>0, <1>7 DEF ReadForDelete, history
<1>8. CASE Delete(q)
  <2>1. UNCHANGED base
    BY <1>8 DEF Delete, history
  <2>2. CASE UNCHANGED tables
    BY <1>0, <2>1, <2>2 DEF tables
  <2>3. ASSUME NEW r \in DOMAIN row, row' = [s \in DOMAIN row \ {r} |-> row[s]],
               changes' = [changes EXCEPT ![r] = [f \in Logged |-> <<>>]]
        PROVE  TablesOK'
    <3>1. [f \in Logged |-> <<>>] \in [Logged -> Seq(Entries)]
      OBVIOUS
    <3>2. changes' \in [Reqs -> [Logged -> Seq(Entries)]]
      BY <2>3, <3>1
    <3>3. \A s \in Reqs \ DOMAIN base : \A f \in Fields : changes'[s][f] = <<>>
      BY <2>3
    <3>4. DOMAIN row' = DOMAIN row \ {r} /\ row' \in [DOMAIN row' -> Rows]
      BY <2>3
    <3> QED
      BY <2>1, <3>2, <3>3, <3>4
  <2> QED
    BY <1>8, <2>2, <2>3 DEF Delete
<1> QED
  BY <1>1, <1>2, <1>3, <1>4, <1>5, <1>6, <1>7, <1>8 DEF Step

(* Steps that change neither the row nor the log of a hiring request, nor    *)
(* who is updating it.                                                       *)
LEMMA ExplainedKept ==
  ASSUME NEW r \in DOMAIN row, NEW f \in Fields, Explained(r, f),
         changes'[r][f] = changes[r][f], base'[r] = base[r], row'[r][f] = row[r][f],
         \A q \in Requests : Updating(q, r, f)' => Updating(q, r, f) /\ ask'[q] = ask[q],
         Recorders(r, f)' = Recorders(r, f)
  PROVE  Explained(r, f)'
<1>1. LastText(r, f)' = LastText(r, f) /\ Chained(r, f)' = Chained(r, f)
  BY DEF LastText, Chained, BaseText
<1>2. \A q \in Requests : Recorders(r, f)' = {q} => Updating(q, r, f)'
  BY DEF Recorders
<1> QED
  BY <1>1, <1>2 DEF Explained

(* A request that is not at its updates before and after the step ...        *)
LEMMA OutsideUpdate ==
  ASSUME LocalsOK, NEW q \in Requests, Step(q), NEW r, NEW f \in Fields,
         pc[q] # "track", pc'[q] # "track"
  PROVE  /\ \A o \in Requests : Updating(o, r, f)' => Updating(o, r, f) /\ ask'[o] = ask[o]
         /\ Recorders(r, f)' = Recorders(r, f)
<1>1. \A o \in Requests : o # q =>
        /\ Updating(o, r, f)' <=> Updating(o, r, f)
        /\ ask'[o] = ask[o] /\ tracked'[o] = tracked[o]
  BY OthersKept DEF Updating
<1>2. ~Updating(q, r, f) /\ ~Updating(q, r, f)'
  BY DEF Updating
<1> QED
  BY <1>1, <1>2 DEF Recorders

(* ... and one that leaves them.                                             *)
LEMMA LeavesUpdate ==
  ASSUME LocalsOK, NEW q \in Requests, Step(q), NEW r, NEW f \in Fields, pc'[q] # "track"
  PROVE  /\ \A o \in Requests : Updating(o, r, f)' => Updating(o, r, f) /\ ask'[o] = ask[o]
         /\ Recorders(r, f)' = Recorders(r, f) \ {q}
<1>1. \A o \in Requests : o # q =>
        /\ Updating(o, r, f)' <=> Updating(o, r, f)
        /\ ask'[o] = ask[o] /\ tracked'[o] = tracked[o]
  BY OthersKept DEF Updating
<1>2. ~Updating(q, r, f)'
  BY DEF Updating
<1> QED
  BY <1>1, <1>2 DEF Recorders

LEMMA CrashLog ==
  ASSUME TablesOK, LocalsOK, LogOK, NEW q \in Requests, Crash(q)
  PROVE  LogOK'
<1> SUFFICES ASSUME NEW r \in DOMAIN row', NEW f \in Fields, <<r, f>> \notin disturbed'
             PROVE  Explained(r, f)'
  BY DEF LogOK
<1>1. /\ UNCHANGED <<row, changes, base, ask, tracked>> /\ pc'[q] = "dead"
      /\ disturbed \subseteq disturbed'
      /\ pc[q] = "track" => {ask[q].req} \X tracked[q] \subseteq disturbed'
  BY DEF Crash, tables, locals, Goto, LocalsOK
<1>2. Explained(r, f) /\ r \in DOMAIN row
  BY <1>1 DEF LogOK
<1>3. q \notin Recorders(r, f)
  BY <1>1 DEF Recorders, Updating
<1>4. Step(q)
  BY DEF Step
<1> QED
  BY <1>1, <1>2, <1>3, <1>4, LeavesUpdate, ExplainedKept

LEMMA ReadLog ==
  ASSUME TablesOK, LocalsOK, LogOK, NEW q \in Requests, NEW s \in Reqs, NEW b \in Bodies,
         Read(q, s, b)
  PROVE  LogOK'
<1> SUFFICES ASSUME NEW r \in DOMAIN row', NEW f \in Fields, <<r, f>> \notin disturbed'
             PROVE  Explained(r, f)'
  BY DEF LogOK
<1>1. UNCHANGED <<row, changes, base, tracked, disturbed>> /\ pc[q] = "idle"
  BY DEF Read, tables, history
<1>2. Explained(r, f) /\ r \in DOMAIN row
  BY <1>1 DEF LogOK
<1>3. /\ \A o \in Requests : o # q =>
           /\ Updating(o, r, f)' <=> Updating(o, r, f)
           /\ ask'[o] = ask[o] /\ tracked'[o] = tracked[o]
      /\ tracked'[q] = {} /\ ~Updating(q, r, f)
  BY <1>1, OthersKept DEF Step, Updating, LocalsOK, RequestOK
<1>4. Recorders(r, f)' = Recorders(r, f)
  BY <1>1, <1>3 DEF Recorders
<1>5. Updating(q, r, f)' => ask'[q].seen[f] = row'[r][f]
  BY <1>1 DEF Read, Updating, LocalsOK, Finish, Continue, Goto
<1>6. LastText(r, f)' = LastText(r, f) /\ Chained(r, f)' = Chained(r, f)
  BY <1>1 DEF LastText, Chained, BaseText
<1>7. \A o \in Requests : Recorders(r, f) = {o} => o # q
  BY <1>3 DEF Recorders
<1> QED
  BY <1>1, <1>2, <1>3, <1>4, <1>5, <1>6, <1>7 DEF Explained

(* The log of a field grows by the change the one recorder is about to write. *)
LEMMA TrackLog ==
  ASSUME TablesOK, LocalsOK, TrackedOK, LogOK, NEW q \in Requests, Track(q)
  PROVE  LogOK'
<1> SUFFICES ASSUME NEW r \in DOMAIN row', NEW f \in Fields, <<r, f>> \notin disturbed'
             PROVE  Explained(r, f)'
  BY DEF LogOK
<1>1. PICK g \in Fields :
           /\ g = Tracked[next[q]] /\ next[q] \in DOMAIN Tracked
           /\ pc[q] = "track" /\ ask[q].kind = "update"
           /\ UNCHANGED <<row, base, pc, ask, outputs, missed>>
           /\ tracked' = IF Differs(q, g) THEN [tracked EXCEPT ![q] = @ \cup {g}] ELSE tracked
           /\ \/ Differs(q, g) /\ ask[q].req \in DOMAIN row /\ UNCHANGED disturbed
                 /\ changes' = [changes EXCEPT ![ask[q].req][g] = Append(@, EntryOf(q, g))]
              \/ Differs(q, g) /\ UNCHANGED changes
                 /\ disturbed' = disturbed \cup {<<ask[q].req, g>>}
              \/ ~Differs(q, g) /\ UNCHANGED <<changes, disturbed>>
  BY TrackFacts
<1>2. Explained(r, f) /\ r \in DOMAIN row /\ r \in Reqs /\ f \in Logged /\ g \in Logged
  BY <1>1 DEF LogOK, TablesOK, Logged
<1>3. \A o \in Requests : Updating(o, r, f)' <=> Updating(o, r, f)
  BY <1>1 DEF Updating
<1>4. CASE ~(ask[q].req = r /\ g = f /\ Differs(q, g))
  <2>1. changes'[r][f] = changes[r][f]
    <3>1. CASE UNCHANGED changes
      BY <3>1
    <3>2. CASE Differs(q, g)
               /\ changes' = [changes EXCEPT ![ask[q].req][g] = Append(@, EntryOf(q, g))]
      BY <1>1, <1>2, <1>4, <3>2, EntryTyped, LogExtended DEF Differs
    <3> QED
      BY <1>1, <3>1, <3>2
  <2>2. Recorders(r, f)' = Recorders(r, f)
    BY <1>1, <1>3, <1>4 DEF Recorders, Updating, LocalsOK
  <2> QED
    BY <1>1, <1>2, <1>3, <2>1, <2>2, ExplainedKept
<1>5. CASE ask[q].req = r /\ g = f /\ Differs(q, g)
  <2>1. changes' = [changes EXCEPT ![r][f] = Append(@, EntryOf(q, f))]
    BY <1>1, <1>5
  <2> DEFINE s == changes[r][f]
             e == EntryOf(q, f)
  <2>2. e \in Entries /\ s \in Seq(Entries)
    BY <1>1, <1>2, <1>5, EntryTyped DEF Differs, TablesOK
  <2>3. changes'[r][f] = Append(s, e)
    BY <1>2, <2>1, <2>2, LogExtended
  <2>4. f \notin tracked[q]
    <3>1. \A i \in DOMAIN Tracked : Tracked[i] = f => i = next[q]
      BY <1>1, <1>5, RequisitionsAssumption
    <3>2. next[q] \in Nat
      BY DEF LocalsOK
    <3>3. \A i \in DOMAIN Tracked : i < next[q] => Tracked[i] # f
      BY <3>1, <3>2
    <3> QED
      BY <1>1, <3>3 DEF TrackedOK
  <2>5. Updating(q, r, f) /\ q \in Recorders(r, f)' /\ q \notin Recorders(r, f)
    BY <1>1, <1>5, <2>4 DEF Updating, Differs, Recorders, LocalsOK
  <2>6. Recorders(r, f)' = Recorders(r, f) \cup {q}
    BY <1>1, <1>3, <2>5 DEF Recorders, LocalsOK
  <2>7. ASSUME Recorders(r, f) = {}
        PROVE  LastText(r, f)' = Text[f][ask[q].body[f]] /\ Chained(r, f)'
    <3>1. LastText(r, f) = Text[f][ask[q].seen[f]] /\ Chained(r, f)
      BY <1>2, <2>5, <2>7 DEF Explained
    <3>2. BaseText(r, f)' = BaseText(r, f)
      BY <1>1 DEF BaseText
    <3>3. e.old = LastText(r, f) /\ e.new = Text[f][ask[q].body[f]]
      BY <3>1 DEF EntryOf
    <3> HIDE DEF e, s
    <3>4. /\ Append(s, e) # <<>> /\ Last(Append(s, e)) = e
          /\ DOMAIN Append(s, e) = 1 .. Len(s) + 1 /\ DOMAIN s = 1 .. Len(s)
          /\ Len(s) \in Nat /\ s # <<>> => Len(s) > 0
          /\ Last(s) = s[Len(s)]
          /\ \A i \in 1 .. Len(s) : Append(s, e)[i] = s[i]
          /\ Append(s, e)[Len(s) + 1] = e
      BY <2>2, LogAppended
    <3>5. LastText(r, f)' = e.new
      BY <2>3, <3>4 DEF LastText
    <3>6. e.old = IF Len(s) = 0 THEN BaseText(r, f) ELSE s[Len(s)].new
      BY <2>2, <3>3, <3>4 DEF LastText, s
    <3>7. ASSUME NEW i \in 1 .. Len(s) + 1
          PROVE  Append(s, e)[i].old =
                   IF i = 1 THEN BaseText(r, f) ELSE Append(s, e)[i - 1].new
      <4>1. CASE i = Len(s) + 1
        <5>1. Append(s, e)[i] = e
          BY <3>4, <4>1
        <5>2. Len(s) = 0 => i = 1
          BY <4>1
        <5>3. Len(s) # 0 => i # 1 /\ Append(s, e)[i - 1] = s[Len(s)]
          <6>1. i - 1 = Len(s) /\ (Len(s) # 0 => i # 1 /\ Len(s) \in 1 .. Len(s))
            BY <3>4, <4>1
          <6> QED
            BY <3>4, <6>1
        <5> QED
          BY <3>6, <5>1, <5>2, <5>3
      <4>2. CASE i \in 1 .. Len(s)
        <5>1. s[i].old = IF i = 1 THEN BaseText(r, f) ELSE s[i - 1].new
          BY <3>1, <3>4, <4>2 DEF Chained, s
        <5> QED
          BY <3>4, <4>2, <5>1
      <4> QED
        BY <3>4, <4>1, <4>2
    <3>8. Chained(r, f)'
      BY <2>3, <3>2, <3>4, <3>7 DEF Chained
    <3> QED
      BY <3>3, <3>5, <3>8
  <2>8. \A o \in Requests : Recorders(r, f)' = {o} => o = q /\ Recorders(r, f) = {}
    BY <2>5, <2>6
  <2>9. Recorders(r, f)' # {}
    BY <2>5
  <2> QED
    BY <1>1, <1>2, <1>3, <2>7, <2>8, <2>9 DEF Explained
<1> QED
  BY <1>4, <1>5

(* The write is what its changes announced, or the field is disturbed.       *)
LEMMA UpdateLog ==
  ASSUME TablesOK, LocalsOK, TrackedOK, LogOK, NEW q \in Requests, Update(q)
  PROVE  LogOK'
<1> SUFFICES ASSUME NEW r \in DOMAIN row', NEW f \in Fields, <<r, f>> \notin disturbed'
             PROVE  Explained(r, f)'
  BY DEF LogOK
<1> DEFINE b == ask[q].body
<1>1. /\ UNCHANGED <<base, changes, ask, tracked>> /\ pc[q] = "track"
      /\ pc'[q] # "track" /\ ask[q].kind = "update" /\ next[q] = Len(Tracked) + 1
      /\ disturbed \subseteq disturbed' /\ b \in Bodies
  BY DEF Update, locals, LocalsOK, RequestOK, Finish, Continue, Goto
<1>2. Step(q) /\ f \in Columns
  BY DEF Step, Columns, Fields
<1>3. \/ /\ {ask[q].req} \X tracked[q] \subseteq disturbed' /\ UNCHANGED row
      \/ /\ {ask[q].req} \X Overlapped(q) \subseteq disturbed'
         /\ \/ UNCHANGED row /\ ask[q].req \notin DOMAIN row
            \/ /\ DOMAIN row' = DOMAIN row
               /\ \A s \in DOMAIN row : row'[s][f] =
                    IF s = ask[q].req /\ f \in DOMAIN b THEN b[f] ELSE row[s][f]
  BY <1>2 DEF Update, TablesOK
<1>4. Explained(r, f) /\ r \in DOMAIN row
  BY <1>1, <1>3 DEF LogOK
<1>5. /\ \A o \in Requests : Updating(o, r, f)' => Updating(o, r, f) /\ ask'[o] = ask[o]
      /\ Recorders(r, f)' = Recorders(r, f) \ {q}
  BY <1>1, <1>2, LeavesUpdate
<1>6. CASE row'[r][f] = row[r][f] /\ q \notin Recorders(r, f)
  BY <1>1, <1>4, <1>5, <1>6, ExplainedKept
<1>7. CASE ask[q].req # r \/ f \notin DOMAIN b
  <2>1. q \notin Recorders(r, f)
    BY <1>7 DEF Recorders, Updating
  <2> QED
    BY <1>3, <1>4, <1>6, <1>7, <2>1
<1>8. CASE {ask[q].req} \X tracked[q] \subseteq disturbed' /\ UNCHANGED row
  <2>1. q \notin Recorders(r, f)
    BY <1>8 DEF Recorders, Updating
  <2> QED
    BY <1>6, <1>8, <2>1
<1>9. CASE /\ ask[q].req = r /\ f \in DOMAIN b
           /\ {ask[q].req} \X Overlapped(q) \subseteq disturbed'
           /\ row'[r][f] = b[f]
  <2>1. \A o \in Requests \ {q} : ~Updating(o, r, f)
    BY <1>2, <1>9 DEF Updating, Overlapped
  <2>2. Updating(q, r, f) /\ ask[q].seen[f] = row[r][f]
    BY <1>1, <1>4, <1>9 DEF Updating, Explained
  <2>3. Recorders(r, f) = IF f \in tracked[q] THEN {q} ELSE {}
    BY <2>1, <2>2 DEF Recorders
  <2>4. LastText(r, f) = Text[f][b[f]] /\ Chained(r, f)
    <3>1. CASE f \in tracked[q]
      BY <1>4, <2>3, <3>1 DEF Explained
    <3>2. CASE f \notin tracked[q]
      <4>1. PICK j \in DOMAIN Tracked : f = Tracked[j]
        BY DEF Fields, ToSet
      <4>2. j < next[q]
        BY <1>1, <4>1, RequisitionsAssumption
      <4>3. Text[f][ask[q].seen[f]] = Text[f][b[f]]
        BY <1>1, <1>9, <3>2, <4>1, <4>2 DEF TrackedOK, Differs
      <4> QED
        BY <1>4, <2>2, <2>3, <3>2, <4>3 DEF Explained
    <3> QED
      BY <3>1, <3>2
  <2>5. LastText(r, f)' = LastText(r, f) /\ Chained(r, f)' = Chained(r, f)
    BY <1>1 DEF LastText, Chained, BaseText
  <2>6. Recorders(r, f)' = {} /\ \A o \in Requests : ~Updating(o, r, f)'
    BY <1>1, <1>5, <2>1, <2>3 DEF Updating
  <2> QED
    BY <1>9, <2>4, <2>5, <2>6 DEF Explained
<1> QED
  BY <1>3, <1>4, <1>7, <1>8, <1>9

LEMMA LogStep ==
  ASSUME TablesOK, LocalsOK, TrackedOK, LogOK, NEW q \in Requests, Step(q)
  PROVE  LogOK'
<1>1. CASE Crash(q)
  BY <1>1, CrashLog
<1>2. ASSUME NEW s \in Reqs, NEW b \in Bodies, Read(q, s, b) PROVE LogOK'
  BY <1>2, ReadLog
<1>3. CASE Track(q) \/ Update(q)
  BY <1>3, TrackLog, UpdateLog
<1>4. ASSUME pc[q] # "track", pc'[q] # "track", UNCHANGED disturbed,
             \A r \in DOMAIN row', f \in Fields :
               \/ /\ r \in DOMAIN row /\ row'[r] = row[r] /\ base'[r] = base[r]
                  /\ changes'[r][f] = changes[r][f]
               \/ r \notin DOMAIN base /\ row'[r] = base'[r] /\ changes'[r][f] = <<>>
      PROVE  LogOK'
  <2> SUFFICES ASSUME NEW r \in DOMAIN row', NEW f \in Fields, <<r, f>> \notin disturbed'
               PROVE  Explained(r, f)'
    BY DEF LogOK
  <2>1. /\ \A o \in Requests : Updating(o, r, f)' => Updating(o, r, f) /\ ask'[o] = ask[o]
        /\ Recorders(r, f)' = Recorders(r, f)
    BY <1>4, OutsideUpdate
  <2>2. CASE /\ r \in DOMAIN row /\ row'[r] = row[r] /\ base'[r] = base[r]
             /\ changes'[r][f] = changes[r][f]
    BY <1>4, <2>1, <2>2, ExplainedKept DEF LogOK
  <2>3. CASE r \notin DOMAIN base /\ row'[r] = base'[r] /\ changes'[r][f] = <<>>
    <3>1. \A o \in Requests : ~Updating(o, r, f)
      BY <2>3 DEF Updating, LocalsOK, RequestOK
    <3>2. Recorders(r, f)' = {}
      BY <2>1, <3>1 DEF Recorders
    <3>3. LastText(r, f)' = Text[f][row'[r][f]] /\ Chained(r, f)'
      BY <2>3 DEF LastText, Chained, BaseText
    <3> QED
      BY <2>1, <3>1, <3>2, <3>3 DEF Explained
  <2> QED
    BY <1>4, <2>2, <2>3
<1>5. CASE Refuse(q) \/ Notify(q) \/ Store(q) \/ Email(q) \/ Publish(q)
           \/ \E r \in Reqs : ReadForDelete(q, r)
  <2>1. UNCHANGED <<row, changes, base, disturbed>> /\ pc[q] # "track" /\ pc'[q] # "track"
    BY <1>5 DEF Refuse, Notify, Store, Email, Publish, ReadForDelete, tables, history,
                Finish, Continue, Goto, LocalsOK
  <2> QED
    BY <1>4, <2>1
<1>6. ASSUME NEW s \in Reqs, NEW n \in NewRows, Insert(q, s, n) PROVE LogOK'
  <2>1. UNCHANGED <<changes, disturbed>> /\ pc[q] # "track" /\ pc'[q] # "track"
        /\ s \notin DOMAIN base
    BY <1>6 DEF Insert, Finish, Continue, Goto, LocalsOK
  <2>2. CASE row' = With(row, s, n) /\ base' = With(base, s, n)
    BY <1>4, <2>1, <2>2 DEF With, TablesOK
  <2>3. CASE UNCHANGED <<row, base>>
    BY <1>4, <2>1, <2>3
  <2> QED
    BY <1>6, <2>2, <2>3 DEF Insert
<1>7. CASE LogCreated(q)
  <2>1. UNCHANGED <<row, base, disturbed>> /\ pc[q] # "track" /\ pc'[q] # "track"
    BY <1>7 DEF LogCreated, history, Continue, Goto, LocalsOK
  <2>2. [by |-> q, old |-> "-", new |-> "-"] \in Entries
    BY DEF Entries, Texts
  <2>3. \A r \in Reqs, f \in Fields : changes'[r][f] = changes[r][f]
    <3>1. CASE changes' = [changes EXCEPT ![ask[q].req]["-"] =
                             Append(@, [by |-> q, old |-> "-", new |-> "-"])]
      BY <2>2, <3>1, LogExtended, RequisitionsAssumption DEF Logged, Fields, Columns
    <3> QED
      BY <1>7, <3>1 DEF LogCreated, Record
  <2> QED
    BY <1>4, <2>1, <2>3 DEF TablesOK
<1>8. CASE Delete(q)
  <2>1. UNCHANGED <<base, disturbed>> /\ pc[q] # "track" /\ pc'[q] # "track"
    BY <1>8 DEF Delete, history, Finish, Continue, Goto, LocalsOK
  <2>2. \A r \in DOMAIN row' : r \in DOMAIN row /\ row'[r] = row[r] /\ changes'[r] = changes[r]
    BY <1>8 DEF Delete, tables, TablesOK
  <2> QED
    BY <1>4, <2>1, <2>2
<1> QED
  BY <1>1, <1>2, <1>3, <1>5, <1>6, <1>7, <1>8 DEF Step

-----------------------------------------------------------------------------
(* What is announced. *)

(* What AnnouncedAsAnswered says of one request. *)
Effect(q) ==
  /\ answer[q] \in {"200", "201"}
  /\ ask[q].kind = "update" => tracked[q] # {}
  /\ Known(q)
AsAnswered(q) ==
  pc[q] = "done" => LET told == Effect(q) /\ Told(q)
                    IN  /\ q \in published <=> Effect(q)
                        /\ q \in notified <=> told
                        /\ q \in rung <=> told
                        /\ q \in stored <=> told /\ <<q, "notification">> \notin missed
                        /\ EmailsOf(q) = IF told THEN Emails(q) ELSE {}

LEMMA PerRequest == AnnouncedAsAnswered <=> \A q \in Requests : AsAnswered(q)
  BY DEF AnnouncedAsAnswered, AsAnswered, Effect, Told, EmailsOf

LEMMA AnnounceStep ==
  ASSUME LocalsOK, AnnouncedOK, AnnouncedAsAnswered, NEW q \in Requests, Step(q)
  PROVE  AnnouncedOK' /\ AnnouncedAsAnswered'
<1>1. ASSUME NEW o \in Requests, o # q PROVE Announced(o)' /\ AsAnswered(o)'
  <2>1. Announced(o) /\ AsAnswered(o)
    BY PerRequest DEF AnnouncedOK
  <2>2. /\ pc'[o] = pc[o] /\ ask'[o] = ask[o] /\ tracked'[o] = tracked[o]
        /\ answer'[o] = answer[o]
        /\ o \in notified' <=> o \in notified
        /\ o \in published' <=> o \in published
        /\ o \in stored' <=> o \in stored
        /\ o \in rung' <=> o \in rung
        /\ \A w : <<o, w>> \in missed' <=> <<o, w>> \in missed
        /\ EmailsOf(o)' = EmailsOf(o)
    BY <1>1, OthersKept
  <2>3. (Told(o)' <=> Told(o)) /\ Emails(o)' = Emails(o) /\ (Effect(o)' <=> Effect(o))
    BY <2>2 DEF Told, Emails, Effect, Known
  <2> QED
    BY <2>1, <2>2, <2>3 DEF Announced, AsAnswered
<1>2. Announced(q)' /\ AsAnswered(q)'
  <2> USE DEF LocalsOK, RequestOK, Goto, Finish, Continue
  <2>0. Announced(q) /\ AsAnswered(q)
    BY PerRequest DEF AnnouncedOK
  <2>1. ASSUME pc[q] \in Before, UNCHANGED outputs, UNCHANGED missed,
               \/ pc'[q] \in Before \ {"notify"} \/ pc'[q] = "dead"
               \/ pc'[q] = "notify" /\ (ask'[q].kind = "update" => tracked'[q] # {})
               \/ pc'[q] = "done" /\ ~Effect(q)'
        PROVE  Announced(q)' /\ AsAnswered(q)'
    BY <2>0, <2>1 DEF outputs, Before, Announced, AsAnswered, EmailsOf
  <2>2. CASE Refuse(q) \/ LogCreated(q) \/ Delete(q)
    BY <2>1, <2>2 DEF Refuse, LogCreated, Delete, Before, locals, history, Effect
  <2>3. ASSUME NEW r \in Reqs, NEW n \in NewRows, Insert(q, r, n)
        PROVE  Announced(q)' /\ AsAnswered(q)'
    BY <2>1, <2>3 DEF Insert, Before, Effect
  <2>4. ASSUME NEW r \in Reqs, NEW b \in Bodies, Read(q, r, b)
        PROVE  Announced(q)' /\ AsAnswered(q)'
    BY <2>1, <2>4 DEF Read, Before, history, Effect
  <2>5. CASE Track(q) \/ Update(q)
    BY <2>1, <2>5 DEF Track, Update, Before, locals, Effect
  <2>6. ASSUME NEW r \in Reqs, ReadForDelete(q, r)
        PROVE  Announced(q)' /\ AsAnswered(q)'
    BY <2>1, <2>6 DEF ReadForDelete, Before, history
  <2>7. CASE Crash(q)
    BY <2>7 DEF Crash, Announced, AsAnswered, Before
  <2>8. CASE Notify(q)
    BY <2>0, <2>8 DEF Notify, locals, Announced, AsAnswered, Before, Told, EmailsOf, Known
  <2>11. CASE Store(q)
    BY <2>0, <2>11 DEF Store, locals, Announced, AsAnswered, Before, Told, EmailsOf, Known
  <2>9. CASE Email(q)
    <3>1. \A e \in Emails(q) : e[1] = q
      BY DEF Emails
    <3>2. EmailsOf(q)' = EmailsOf(q) \cup Emails(q)
      BY <2>9, <3>1 DEF Email, EmailsOf
    <3> QED
      BY <2>0, <2>9, <3>2
         DEF Email, locals, history, Announced, AsAnswered, Before, Told, Emails, Known
  <2>10. CASE Publish(q)
    BY <2>0, <2>10
       DEF Publish, locals, history, Announced, AsAnswered, Before, Told, Effect, EmailsOf,
           Emails, Known
  <2> QED
    BY <2>2, <2>3, <2>4, <2>5, <2>6, <2>7, <2>8, <2>9, <2>10, <2>11 DEF Step
<1>3. \A o \in Requests : Announced(o)' /\ AsAnswered(o)'
  BY <1>1, <1>2
<1>5. AnnouncedAsAnswered' <=> \A o \in Requests : AsAnswered(o)'
  BY DEF AnnouncedAsAnswered, AsAnswered, Effect, Told, EmailsOf
<1> QED
  BY <1>3, <1>5 DEF AnnouncedOK

-----------------------------------------------------------------------------
(* The theorems. *)

LEMMA InitInv == Init => IInv
<1> SUFFICES ASSUME Init PROVE IInv
  OBVIOUS
<1> USE RequisitionsAssumption DEF Init
<1>1. TablesOK
  BY DEF TablesOK, Rows, Logged
<1>2. LocalsOK
  BY DEF LocalsOK, RequestOK, Labels, Codes, Nothing
<1>3. TrackedOK /\ AnnouncedOK /\ AnnouncedAsAnswered
  BY DEF TrackedOK, AnnouncedOK, Announced, AnnouncedAsAnswered, EmailsOf, Before
<1>4. LogOK
  <2> SUFFICES ASSUME NEW r \in DOMAIN row, NEW f \in Fields PROVE Explained(r, f)
    BY DEF LogOK
  <2>1. changes[r][f] = <<>> /\ base = row
    BY DEF Logged
  <2>2. \A q \in Requests : ~Updating(q, r, f)
    BY DEF Updating
  <2>3. Recorders(r, f) = {}
    BY <2>2 DEF Recorders
  <2> QED
    BY <2>1, <2>2, <2>3 DEF Explained, LastText, Chained, BaseText
<1> QED
  BY <1>1, <1>2, <1>3, <1>4 DEF IInv

LEMMA NextInv == IInv /\ [Next]_vars => IInv'
<1> SUFFICES ASSUME IInv, [Next]_vars PROVE IInv'
  OBVIOUS
<1>1. ASSUME NEW q \in Requests, Step(q) PROVE IInv'
  BY <1>1, TablesStep, LocalsStep, TrackedStep, LogStep, AnnounceStep DEF IInv
<1>2. CASE UNCHANGED vars
  <2> USE <1>2 DEF vars, tables, locals, outputs, history, IInv
  <2>1. TablesOK' /\ LocalsOK' /\ TrackedOK'
    BY DEF TablesOK, LocalsOK, RequestOK, TrackedOK, Differs
  <2>2. AnnouncedOK' /\ AnnouncedAsAnswered'
    BY DEF AnnouncedOK, Announced, AnnouncedAsAnswered, EmailsOf, Told, Known, Emails
  <2>3. LogOK'
    BY DEF LogOK, Explained, Updating, Recorders, LastText, Chained, BaseText
  <2> QED
    BY <2>1, <2>2, <2>3
<1> QED
  BY <1>1, <1>2 DEF Next, Step

(* The inductive invariant holds of every reachable state: requests that     *)
(* overlap in any way, statements that fail, pods that die between them.     *)
THEOREM Invariance == Spec => []IInv
<1>1. Init => IInv
  BY InitInv
<1>2. IInv /\ [Next]_vars => IInv'
  BY NextInv
<1> QED
  BY <1>1, <1>2, PTL DEF Spec

(* The change log of a hiring request, replayed from the row it started as,  *)
(* ends at its row, for every field that no overlap, lost record, failed     *)
(* write or death of a pod has disturbed (UpdateRequisition).                *)
THEOREM LogExplains == Spec => []LogExplainsRow
<1>1. ASSUME IInv PROVE LogExplainsRow
  <2> SUFFICES ASSUME NEW r \in DOMAIN row, ~InFlight(r), NEW f \in Fields,
                      <<r, f>> \notin disturbed
               PROVE  LastText(r, f) = Text[f][row[r][f]] /\ Chained(r, f)
    BY DEF LogExplainsRow
  <2>1. Recorders(r, f) = {}
    BY DEF Recorders, Updating, InFlight
  <2> QED
    BY <1>1, <2>1 DEF IInv, LogOK, Explained
<1> QED
  BY <1>1, Invariance, PTL

(* A request answered with success has announced what it recorded, on every  *)
(* channel, but for the failed lookups and the failed insert of the          *)
(* notification, which it ignores; one answered with an error has announced  *)
(* nothing.                                                                  *)
THEOREM Announces == Spec => []AnnouncedAsAnswered
<1>1. IInv => AnnouncedAsAnswered
  BY DEF IInv
<1> QED
  BY <1>1, Invariance, PTL
=============================================================================
