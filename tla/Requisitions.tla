---------------------------- MODULE Requisitions ----------------------------
(***************************************************************************)
(* Create, update and delete of hiring requests in the gateway              *)
(* (handlers/requisitions.go) with the change log (table RequisitionChange) *)
(* and what each of them announces: the in-app notification, the emails and *)
(* the SNS event.  Each database statement commits on its own and is a step *)
(* of its own; requests run concurrently and a request may die with its pod *)
(* between two statements.                                                  *)
(*                                                                          *)
(* A field value is compared, and logged, as the text it is formatted to:   *)
(* rates and budgets with two decimals, so that two stored values can have  *)
(* one text.  The column "notes" is updated but not tracked.                *)
(***************************************************************************)
EXTENDS Naturals, SequencesExt

CONSTANTS
  Requests,   \* HTTP requests, each served once
  Reqs,       \* ids (uuid) of hiring requests
  Existing,   \* those that are in the table at the start
  Managed,    \* those whose category has a sourcing manager
  Tracked,    \* the tracked fields, in the order UpdateRequisition goes through them
  Untracked,  \* fields that are updated without a change record
  Values,
  Text,       \* Text[f][v]: value v of field f as it is compared and logged
  Storable,   \* Storable[f]: the values the column of f accepts
  NewRows,    \* bound: the rows requests create
  Bodies,     \* bound: the bodies of update requests, functions from some fields to values
  DbFaults    \* may statements fail that have no reason to?

Columns == ToSet(Tracked) \cup Untracked

ASSUME RequisitionsAssumption ==
  /\ Existing \subseteq Reqs /\ Managed \subseteq Reqs
  /\ "status" \in ToSet(Tracked)
  /\ \A i, j \in DOMAIN Tracked : Tracked[i] = Tracked[j] => i = j
  /\ ToSet(Tracked) \cap Untracked = {} /\ "-" \notin Columns
  /\ Tracked \in Seq(ToSet(Tracked))
  /\ NewRows \subseteq [Columns -> Values]
  /\ \A b \in Bodies : DOMAIN b \subseteq Columns /\ \A f \in DOMAIN b : b[f] \in Values
  /\ DbFaults \in BOOLEAN

VARIABLES
  row,           \* table Requisition: a function on the ids of its rows
  changes,       \* table RequisitionChange, in the order of insertion, for each
                 \* hiring request and field
  pc,            \* where each request stands
  ask,           \* what it asks for and, for an update, the row it read
  next,          \* index of the field UpdateRequisition tracks next
  tracked,       \* the fields for which it has recorded a change
  answer,        \* the HTTP status
  notified, stored, rung,   \* announced, by which request: by the broadcast of the change,
                            \* by a row of table Notification, by the broadcast of that
  emailed, published,       \* notification, by NotifyManagerEmail, by PublishChange
  base,          \* history: each row as it was created or found
  disturbed,     \* history: fields of rows whose change log has been falsified
  missed         \* history: lookups of the manager and inserts of a notification that
                 \* failed, by request

tables  == <<row, changes>>
locals  == <<ask, next, tracked>>
outputs == <<notified, stored, rung, emailed, published>>
history == <<base, disturbed, missed>>
vars == <<tables, pc, locals, answer, outputs, history>>

Fields == ToSet(Tracked)
Logged == Fields \cup {"-"}      \* "-": the record of the creation
Nothing == [kind |-> "none"]

Init ==
  /\ row \in [Existing -> NewRows]
  /\ base = row
  /\ changes = [r \in Reqs |-> [f \in Logged |-> <<>>]]
  /\ pc      = [q \in Requests |-> "idle"]
  /\ ask     = [q \in Requests |-> Nothing]
  /\ next    = [q \in Requests |-> 1]
  /\ tracked = [q \in Requests |-> {}]
  /\ answer  = [q \in Requests |-> "none"]
  /\ notified = {} /\ stored = {} /\ rung = {} /\ emailed = {} /\ published = {}
  /\ disturbed = {} /\ missed = {}

-----------------------------------------------------------------------------
(* Steps shared by the handlers *)

Goto(q, label) == pc' = [pc EXCEPT ![q] = label]

(* The handler writes its answer and returns. *)
Finish(q, code) == Goto(q, "done") /\ answer' = [answer EXCEPT ![q] = code]

Continue(q, label) == Goto(q, label) /\ UNCHANGED answer

(* An insert into the change log, whose result nobody looks at: the foreign  *)
(* key refuses it when the hiring request is gone.                           *)
Record(r, f, entry) ==
  \/ r \in DOMAIN row /\ changes' = [changes EXCEPT ![r][f] = Append(@, entry)]
  \/ (r \notin DOMAIN row \/ DbFaults) /\ UNCHANGED changes

(* The body does not bind (400) or checkManagerAuth refuses (403): one code   *)
(* stands for both.  For an update or a deletion a read goes before it.      *)
Refuse(q) ==
  /\ pc[q] = "idle"
  /\ Finish(q, "403")
  /\ UNCHANGED <<tables, locals, outputs, history>>

(* The pod dies in the middle of the request. *)
Crash(q) ==
  /\ pc[q] \notin {"idle", "done", "dead"}
  /\ Goto(q, "dead")
  /\ disturbed' = disturbed \cup
       (IF pc[q] = "track" THEN {ask[q].req} \X tracked[q] ELSE {})
  /\ UNCHANGED <<tables, locals, answer, outputs, base, missed>>

-----------------------------------------------------------------------------
(* A table with one more row. *)
With(t, r, n) == [s \in DOMAIN t \cup {r} |-> IF s = r THEN n ELSE t[s]]

(* CreateRequisition: the INSERT, which fails when the generated human-      *)
(* readable id has been taken meanwhile.                                     *)
Insert(q, r, n) ==
  /\ pc[q] = "idle"
  /\ r \notin DOMAIN base
  /\ \/ /\ row'  = With(row, r, n)
        /\ base' = With(base, r, n)
        /\ ask'  = [ask EXCEPT ![q] = [kind |-> "create", req |-> r]]
        /\ Continue(q, "logCreated")
     \/ Finish(q, "500") /\ UNCHANGED <<row, base, ask>>
  /\ UNCHANGED <<changes, next, tracked, outputs, disturbed, missed>>

(* The CREATED row of the change log. *)
LogCreated(q) ==
  /\ pc[q] = "logCreated"
  /\ Record(ask[q].req, "-", [by |-> q, old |-> "-", new |-> "-"])
  /\ Continue(q, "notify")
  /\ UNCHANGED <<row, locals, outputs, history>>

-----------------------------------------------------------------------------
(* UpdateRequisition: read the current values ... *)
Read(q, r, b) ==
  /\ pc[q] = "idle"
  /\ \/ /\ r \in DOMAIN row
        /\ ask' = [ask EXCEPT ![q] =
                     [kind |-> "update", req |-> r, body |-> b, seen |-> row[r]]]
        /\ Continue(q, "track")
     \/ r \notin DOMAIN row /\ Finish(q, "404") /\ UNCHANGED ask
     \/ DbFaults /\ Finish(q, "500") /\ UNCHANGED ask
  /\ UNCHANGED <<tables, next, tracked, outputs, history>>

(* Mutation of Track: old and new value are swapped in the record. *)
TrackSwapped(q) ==
  /\ pc[q] = "track"
  /\ next[q] <= Len(Tracked)
  /\ LET r   == ask[q].req
         f   == Tracked[next[q]]
         old == Text[f][ask[q].seen[f]]
         new == Text[f][ask[q].body[f]]
     IN  IF f \in DOMAIN ask[q].body /\ old # new
         THEN /\ Record(r, f, [by |-> q, old |-> new, new |-> old])
              /\ tracked' = [tracked EXCEPT ![q] = @ \cup {f}]
              /\ disturbed' = IF changes' = changes THEN disturbed \cup {<<r, f>>} ELSE disturbed
         ELSE UNCHANGED <<changes, tracked, disturbed>>
  /\ next' = [next EXCEPT ![q] = @ + 1]
  /\ UNCHANGED <<row, pc, ask, answer, outputs, base, missed>>

(* ... go through the fields, recording a change of each field of the body   *)
(* whose text differs from the one read ...                                  *)
Track(q) ==
  /\ pc[q] = "track"
  /\ next[q] <= Len(Tracked)
  /\ LET r   == ask[q].req
         f   == Tracked[next[q]]
         old == Text[f][ask[q].seen[f]]
         new == Text[f][ask[q].body[f]]
     IN  IF f \in DOMAIN ask[q].body /\ old # new
         THEN /\ Record(r, f, [by |-> q, old |-> old, new |-> new])
              /\ tracked' = [tracked EXCEPT ![q] = @ \cup {f}]
              /\ disturbed' = IF changes' = changes THEN disturbed \cup {<<r, f>>} ELSE disturbed
         ELSE UNCHANGED <<changes, tracked, disturbed>>
  /\ next' = [next EXCEPT ![q] = @ + 1]
  /\ UNCHANGED <<row, pc, ask, answer, outputs, base, missed>>

(* The fields q writes while another update of them is between its read and  *)
(* its write.                                                                *)
Overlapped(q) ==
  {f \in Fields \cap DOMAIN ask[q].body :
     \E o \in Requests \ {q} : /\ pc[o] = "track" /\ ask[o].req = ask[q].req
                              /\ f \in DOMAIN ask[o].body}

(* ... and write the body.  A value the column does not accept fails the     *)
(* statement, after the changes have been recorded; a hiring request that    *)
(* was deleted meanwhile makes it a statement without effect.                *)
Update(q) ==
  /\ pc[q] = "track"
  /\ next[q] = Len(Tracked) + 1
  /\ LET r == ask[q].req
         b == ask[q].body
     IN  \/ /\ \A f \in DOMAIN b : b[f] \in Storable[f]
            /\ row' = IF r \in DOMAIN row
                      THEN [row EXCEPT ![r] =
                              [f \in Columns |-> IF f \in DOMAIN b THEN b[f] ELSE @[f]]]
                      ELSE row
            /\ disturbed' = disturbed \cup ({r} \X Overlapped(q))
            /\ IF tracked[q] = {} THEN Finish(q, "200") ELSE Continue(q, "notify")
         \/ /\ DbFaults \/ \E f \in DOMAIN b : b[f] \notin Storable[f]
            /\ disturbed' = disturbed \cup ({r} \X tracked[q])
            /\ Finish(q, "500")
            /\ UNCHANGED row
  /\ UNCHANGED <<changes, locals, outputs, base, missed>>

-----------------------------------------------------------------------------
(* DeleteRequisition: the details are read for the announcements; that they  *)
(* are absent, or that the read failed, is not looked at ...                 *)
ReadForDelete(q, r) ==
  /\ pc[q] = "idle"
  /\ \E known \in BOOLEAN :
       /\ known => r \in DOMAIN row
       /\ ~known => r \notin DOMAIN row \/ DbFaults
       /\ ask' = [ask EXCEPT ![q] = [kind |-> "delete", req |-> r, known |-> known]]
  /\ Continue(q, "delete")
  /\ UNCHANGED <<tables, next, tracked, outputs, history>>

(* ... and the row is deleted, with its change log (ON DELETE CASCADE). *)
Delete(q) ==
  /\ pc[q] = "delete"
  /\ LET r == ask[q].req
     IN  \/ /\ r \in DOMAIN row
            /\ row' = [s \in DOMAIN row \ {r} |-> row[s]]
            /\ changes' = [changes EXCEPT ![r] = [f \in Logged |-> <<>>]]
            /\ Continue(q, "notify")
         \/ r \notin DOMAIN row /\ Finish(q, "404") /\ UNCHANGED tables
         \/ DbFaults /\ Finish(q, "500") /\ UNCHANGED tables
  /\ UNCHANGED <<locals, outputs, history>>

-----------------------------------------------------------------------------
(* What the three handlers announce at the end: the change is broadcast to   *)
(* the manager, a notification is stored and broadcast, one email is due per *)
(* mutation or, for an update, per recorded change, and the SNS event is     *)
(* published.  The manager is found by the category that was read.           *)
Known(q) == ask[q].kind = "delete" => ask[q].known

(* Mutation of Notify: without a manager the handler returns at once. *)
NotifyOrReturn(q) ==
  /\ pc[q] = "notify"
  /\ IF ask[q].req \in Managed
     THEN notified' = notified \cup {q} /\ Continue(q, "store")
     ELSE UNCHANGED notified /\ Finish(q, "200")
  /\ UNCHANGED <<tables, locals, stored, rung, emailed, published, history>>

(* The lookup of the manager, whose error is not looked at, and the          *)
(* broadcast of the change.                                                  *)
Notify(q) ==
  /\ pc[q] = "notify"
  /\ LET manager == Known(q) /\ ask[q].req \in Managed
     IN  \/ /\ manager
            /\ notified' = notified \cup {q}
            /\ Continue(q, "store")
            /\ UNCHANGED missed
         \/ /\ ~manager \/ DbFaults
            /\ missed' = IF manager THEN missed \cup {<<q, "manager">>} ELSE missed
            /\ Continue(q, "publish")
            /\ UNCHANGED notified
  /\ UNCHANGED <<tables, locals, stored, rung, emailed, published, base, disturbed>>

(* INSERT INTO "Notification", whose error is not looked at. *)
Store(q) ==
  /\ pc[q] = "store"
  /\ \/ stored' = stored \cup {q} /\ UNCHANGED missed
     \/ DbFaults /\ missed' = missed \cup {<<q, "notification">>} /\ UNCHANGED stored
  /\ Continue(q, "email")
  /\ UNCHANGED <<tables, locals, notified, rung, emailed, published, base, disturbed>>

Emails(q) == {q} \X (IF ask[q].kind = "update" THEN tracked[q] ELSE {"status"})

(* The broadcast of the notification, stored or not, and the emails. *)
Email(q) ==
  /\ pc[q] = "email"
  /\ rung' = rung \cup {q}
  /\ emailed' = emailed \cup Emails(q)
  /\ Continue(q, "publish")
  /\ UNCHANGED <<tables, locals, notified, stored, published, history>>

Publish(q) ==
  /\ pc[q] = "publish"
  /\ published' = IF Known(q) THEN published \cup {q} ELSE published
  /\ Finish(q, IF ask[q].kind = "create" THEN "201" ELSE "200")
  /\ UNCHANGED <<tables, locals, notified, stored, rung, emailed, history>>

-----------------------------------------------------------------------------
Next ==
  \E q \in Requests :
    \/ Refuse(q) \/ Crash(q)
    \/ \E r \in Reqs, n \in NewRows : Insert(q, r, n)
    \/ LogCreated(q)
    \/ \E r \in Reqs, b \in Bodies : Read(q, r, b)
    \/ Track(q) \/ Update(q)
    \/ \E r \in Reqs : ReadForDelete(q, r)
    \/ Delete(q)
    \/ Notify(q) \/ Store(q) \/ Email(q) \/ Publish(q)

Spec == Init /\ [][Next]_vars

-----------------------------------------------------------------------------
(* Properties *)

BaseText(r, f) == Text[f][base[r][f]]
LastText(r, f) == IF changes[r][f] = <<>> THEN BaseText(r, f) ELSE Last(changes[r][f]).new

(* Each change starts from the value the one before it ended at. *)
Chained(r, f) ==
  \A i \in DOMAIN changes[r][f] :
    changes[r][f][i].old = IF i = 1 THEN BaseText(r, f) ELSE changes[r][f][i - 1].new

InFlight(r) == \E q \in Requests : pc[q] = "track" /\ ask[q].req = r

(* When no update of a hiring request is under way, its change log replayed  *)
(* from the row it started as ends at the current value of every tracked     *)
(* field, each change starting from the value the one before it ended at.    *)
(* Only four things break this, per field: two updates of the field          *)
(* that overlap, a change record that could not be inserted, an UPDATE that  *)
(* failed after its changes were recorded, and a pod that died between them. *)
LogExplainsRow ==
  \A r \in DOMAIN row : ~InFlight(r) =>
    \A f \in Fields : <<r, f>> \notin disturbed =>
      LastText(r, f) = Text[f][row[r][f]] /\ Chained(r, f)

(* A request that is answered with success has announced exactly what it     *)
(* recorded, on every channel, and one answered with an error announced      *)
(* nothing.  Only three failed statements break this, silently: the read of  *)
(* the manager costs the notification and the emails, the read of the        *)
(* details before a deletion every announcement of it, and the insert of the *)
(* notification the stored one, while its broadcast and the emails go out.   *)
AnnouncedAsAnswered ==
  \A q \in Requests : pc[q] = "done" =>
    LET effect == /\ answer[q] \in {"200", "201"}
                  /\ ask[q].kind = "update" => tracked[q] # {}
                  /\ Known(q)
        told   == effect /\ ask[q].req \in Managed /\ <<q, "manager">> \notin missed
    IN  /\ q \in published <=> effect
        /\ q \in notified <=> told
        /\ q \in rung <=> told
        /\ q \in stored <=> told /\ <<q, "notification">> \notin missed
        /\ {e \in emailed : e[1] = q} = IF told THEN Emails(q) ELSE {}

==============================================================================
