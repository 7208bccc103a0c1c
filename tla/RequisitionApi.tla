--------------------------- MODULE RequisitionApi ---------------------------
(***************************************************************************)
(* The Next.js API routes on hiring requests: create, update, delete, the   *)
(* CSV import and the reads (frontend/app/api).  They are what serves the   *)
(* pages where no ingress sends /api to the gateway.  Each Prisma call      *)
(* commits on its own and is a step of its own; requests run concurrently.  *)
(*                                                                          *)
(* A row keeps the columns that behave differently: the number in its       *)
(* human-readable id, its category, a status (an enumeration), the rate and *)
(* the headcount the budget is computed from, and one text that stands for  *)
(* vendor, location and team.  A year of work is one hour: budgets are      *)
(* rate * headcount.  An absent text is "", an unreadable number -1.        *)
(***************************************************************************)
EXTENDS Integers, SequencesExt

CONSTANTS
  Requests,      \* HTTP requests, each served once
  Keys,          \* primary keys; bound: the rows that ever exist
  Start,         \* the table at the start, a function on some keys
  Categories,    \* the categories; each has a manager but those of Unmanaged
  Unmanaged,
  Statuses,      \* the values the enumeration accepts
  Closed,        \* those the statistics leave out (COMPLETED, CANCELLED)
  Base, Cut,     \* digits of a number; the first number wider than the padding (1000)
  NewRows,       \* bound: the bodies of create requests
  Bodies,        \* bound: the bodies of update requests, functions on some fields
  Files,         \* bound: the parsed CSV files, sequences of rows
  Reads,         \* bound: which read requests are made, and for which category
  Faults         \* may a statement throw, or the process end, for no reason?

Fields == {"status", "rate", "head", "budget", "text"}
Columns == Fields \cup {"cat", "num"}
Logged  == Fields \cup {"-"}       \* "-": the row was created or imported

(* The table is finite and its budgets are those it was filled with, by the  *)
(* seed or by creations: rate times headcount.  Category and status are      *)
(* enumerations of the database; a read that names no category is of "all".  *)
ASSUME ApiAssumption ==
  /\ IsFiniteSet(DOMAIN Start)
  /\ \A k \in DOMAIN Start :
       /\ DOMAIN Start[k] = Columns /\ Start[k].num \in Nat
       /\ Start[k].budget = Start[k].rate * Start[k].head
       /\ Start[k].cat \in Categories /\ Start[k].status \in Statuses
  /\ \A b \in NewRows : DOMAIN b = Columns \ {"num", "budget"}
  /\ IsFiniteSet(Categories) /\ "all" \notin Categories /\ IsFiniteSet(Statuses)
  /\ DOMAIN Start \subseteq Keys /\ Unmanaged \subseteq Categories /\ Closed \subseteq Statuses
  /\ Base \in Nat \ {0, 1} /\ Cut \in Nat \ {0}
  /\ \A b \in Bodies : DOMAIN b \subseteq Fields
  /\ \A f \in Files : Len(f) \in Nat
  /\ Faults \in BOOLEAN

VARIABLES
  row,        \* table Requisition, a function on the keys of its rows
  changes,    \* table RequisitionChange: the new values per request and field, in order
  unread,     \* table Notification: <<category of the manager, request>>, unread ones
  pc,         \* the statement each request executes next
  ask,        \* what it asks for
  loc,        \* its local variables: key, row as read, number, values read, tally of an import
  answer,     \* the HTTP status
  base,       \* history: each row as it was found or created
  disturbed,  \* history: <<key, field>> whose change log has been falsified
  told,       \* history: every notification ever created
  raced,      \* history: requests whose category got a row since they read its largest number
  moved       \* history: writes committed while each read was being served

tables  == <<row, changes, unread>>
history == <<base, disturbed, told>>
watch   == <<raced, moved>>
vars == <<tables, pc, ask, loc, answer, history, watch>>

Local0 == [key |-> "none", seen |-> <<>>, num |-> 0, got |-> <<>>, line |-> 1,
           created |-> 0, updated |-> 0, errors |-> 0, made |-> {}]

Unlogged == [f \in Logged |-> <<>>]

Init ==
  /\ row = Start /\ base = Start
  /\ changes = [k \in Keys |-> Unlogged] /\ unread = {} /\ told = {}
  /\ pc     = [q \in Requests |-> "idle"]
  /\ ask    = [q \in Requests |-> [op |-> "none"]]
  /\ loc    = [q \in Requests |-> Local0]
  /\ answer = [q \in Requests |-> "none"]
  /\ disturbed = {} /\ raced = {}
  /\ moved  = [q \in Requests |-> 0]

-----------------------------------------------------------------------------
(* Steps shared by the routes *)

Goto(q, label) == pc' = [pc EXCEPT ![q] = label] /\ UNCHANGED answer
Finish(q, code) == pc' = [pc EXCEPT ![q] = "done"] /\ answer' = [answer EXCEPT ![q] = code]
Set(q, l) == loc' = [loc EXCEPT ![q] = l]

(* A statement of q writes a table: reads under way may see it or not. *)
Moves(q) == moved' = [o \in Requests |->
                        IF pc[o] = "read" /\ o # q THEN moved[o] + 1 ELSE moved[o]]

(* The object f over the object g: the values of g where f has none. *)
Over(f, g) == [x \in DOMAIN f \cup DOMAIN g |-> IF x \in DOMAIN f THEN f[x] ELSE g[x]]

(* requisitionChange.create(Many): new[f] for each field f of the request k. *)
Record(k, new) ==
  changes' = [changes EXCEPT ![k] =
                [f \in Logged |-> IF f \in DOMAIN new THEN Append(@[f], new[f]) ELSE @[f]]]

(* The order of the human-readable ids is that of texts: padStart pads to    *)
(* three digits, so that "1000" comes before "999".                          *)
Lead(n) == IF n < Cut THEN n ELSE n \div Base
Rest(n) == IF n < Cut THEN -1 ELSE n % Base
TextLeq(m, n) == Lead(m) < Lead(n) \/ (Lead(m) = Lead(n) /\ Rest(m) <= Rest(n))

Numbers(c) == {row[k].num : k \in {j \in DOMAIN row : row[j].cat = c}}

(* Mutation of NextNumber: the first number is 0, and the last is reused. *)
NextNumberSame(c) ==
  IF Numbers(c) = {} THEN 1
  ELSE CHOOSE n \in Numbers(c) : \A m \in Numbers(c) : TextLeq(m, n)

(* findFirst in descending order of the ids of the category, plus one. *)
NextNumber(c) ==
  IF Numbers(c) = {} THEN 1
  ELSE 1 + CHOOSE n \in Numbers(c) : \A m \in Numbers(c) : TextLeq(m, n)

(* The key of the next new row. *)
Fresh == CHOOSE k \in Keys \ DOMAIN base : TRUE

(* prisma.requisition.create: the unique index and the column types refuse.  *)
Storable(r) ==
  r.cat \in Categories /\ r.status \in Statuses /\ r.rate >= 0 /\ r.head >= 0
Taken(r) == \E k \in DOMAIN row : row[k].cat = r.cat /\ row[k].num = r.num

Add(q, k, r) ==
  /\ Storable(r) /\ ~Taken(r)
  /\ DOMAIN base # Keys
  /\ row'  = Over(row, [j \in {k} |-> r])
  /\ base' = Over(base, [j \in {k} |-> r])
  /\ raced' = raced \cup {o \in Requests \ {q} : pc[o] = "insert" /\ loc[o].seen.cat = r.cat}
  /\ Moves(q)

(* A statement throws, or the process ends: the route answers 500 (the proxy *)
(* 502) and undoes nothing.                                                  *)
Throw(q) ==
  /\ Faults
  /\ pc[q] \notin {"idle", "done"}
  /\ Finish(q, "500")
  /\ disturbed' = disturbed \cup
       (IF pc[q] = "log" THEN {<<loc[q].key, f>> : f \in DOMAIN ask[q].body} ELSE {})
  /\ UNCHANGED <<tables, ask, loc, base, told, watch>>

-----------------------------------------------------------------------------
(* POST /api/requisitions: the number, the row with its budget, the record.  *)
Create(q, b) ==
  /\ pc[q] = "idle"
  /\ ask' = [ask EXCEPT ![q] = [op |-> "create"]]
  /\ Set(q, [loc[q] EXCEPT !.num = NextNumber(b.cat),
               !.seen = Over(b, [num |-> NextNumber(b.cat), budget |-> b.rate * b.head])])
  /\ Goto(q, "insert")
  /\ UNCHANGED <<tables, history, watch>>

Insert(q) ==
  /\ pc[q] = "insert" /\ ask[q].op = "create"
  /\ \/ /\ Add(q, Fresh, loc[q].seen)
        /\ Set(q, [loc[q] EXCEPT !.key = Fresh])
        /\ Goto(q, "record")
     \/ /\ Taken(loc[q].seen) \/ ~Storable(loc[q].seen)
        /\ Finish(q, "500")
        /\ UNCHANGED <<row, base, loc, watch>>
  /\ UNCHANGED <<changes, unread, ask, disturbed, told>>

RecordCreated(q) ==
  /\ pc[q] = "record"
  /\ IF loc[q].key \in DOMAIN row
     THEN Record(loc[q].key, [f \in {"-"} |-> "created"]) /\ Moves(q) /\ Finish(q, "201")
     ELSE Finish(q, "500") /\ UNCHANGED <<changes, moved>>
  /\ UNCHANGED <<row, unread, ask, loc, history, raced>>

-----------------------------------------------------------------------------
(* PUT /api/requisitions/:id: the row is read, 404 without one ...           *)
ReadRow(q, k, b) ==
  /\ pc[q] = "idle"
  /\ ask' = [ask EXCEPT ![q] = [op |-> "update", body |-> b]]
  /\ IF k \in DOMAIN row
     THEN Set(q, [loc[q] EXCEPT !.key = k, !.seen = row[k]]) /\ Goto(q, "write")
     ELSE Finish(q, "404") /\ UNCHANGED loc
  /\ UNCHANGED <<tables, history, watch>>

(* ... the fields of the body that differ from it are the changes ... *)
Diff(q) == {f \in DOMAIN ask[q].body : ask[q].body[f] # loc[q].seen[f]}

Or(b, f, default) == IF f \in DOMAIN b THEN b[f] ELSE default

(* Mutation of Budget: the product takes the headcount that was read. *)
BudgetOfRead(b, seen) == Or(b, "rate", seen.rate) * seen.head

Budget(b, seen) == Or(b, "rate", seen.rate) * Or(b, "head", seen.head)

(* ... the budget is computed from the rate and the headcount, of the body   *)
(* or else as read, and an empty status or text does not count ...           *)
Data(q) ==
  LET b == ask[q].body
      sent == {f \in DOMAIN b : f \in {"rate", "head", "budget"} \/ b[f] # ""}
      priced == DOMAIN b \cap {"rate", "head"} # {}
  IN  [f \in sent \cup (IF priced THEN {"budget"} ELSE {}) |->
         IF f = "budget" /\ priced THEN Budget(b, loc[q].seen) ELSE b[f]]

(* Is another update of field f of the row between its read and its record? *)
Overlapped(q, f) ==
  \/ row[loc[q].key][f] # loc[q].seen[f]
  \/ \E o \in Requests \ {q} : pc[o] = "log" /\ loc[o].key = loc[q].key /\ f \in DOMAIN ask[o].body

(* The fields that the log, or for the budget rate and headcount, will not   *)
(* explain after the write.                                                  *)
Unexplained(q) ==
  LET b == ask[q].body
      priced == DOMAIN b \cap {"rate", "head"}
      stale == \E f \in {"rate", "head"} \ priced : row[loc[q].key][f] # loc[q].seen[f]
  IN  {f \in DOMAIN b \ {"budget"} : f \notin DOMAIN Data(q) \/ Overlapped(q, f)}
      \cup (IF IF priced = {} THEN "budget" \in DOMAIN b ELSE stale THEN {"budget"} ELSE {})

Write(q) ==
  /\ pc[q] = "write"
  /\ LET k == loc[q].key
         d == Data(q)
         fits == "status" \in DOMAIN d => d.status \in Statuses
     IN  \/ /\ k \in DOMAIN row /\ fits
            /\ row' = [row EXCEPT ![k] = Over(d, @)]
            /\ disturbed' = disturbed \cup ({k} \X Unexplained(q))
            /\ Moves(q)
            /\ IF Diff(q) = {} THEN Finish(q, "200") ELSE Goto(q, "log")
         \/ /\ k \notin DOMAIN row \/ ~fits
            /\ Finish(q, "500")
            /\ UNCHANGED <<row, disturbed, moved>>
  /\ UNCHANGED <<changes, unread, ask, loc, base, told, raced>>

(* Mutation of LogChanges: only the first change is recorded. *)
LogOneChange(q) ==
  /\ pc[q] = "log"
  /\ LET first == CHOOSE f \in Diff(q) : TRUE
     IN  Record(loc[q].key, [f \in {first} |-> ask[q].body[f]])
  /\ Goto(q, "tell") /\ Moves(q)
  /\ UNCHANGED <<row, unread, ask, loc, history, raced>>

(* ... the changes are recorded by one statement, after the write ... *)
LogChanges(q) ==
  /\ pc[q] = "log"
  /\ IF loc[q].key \in DOMAIN row
     THEN Record(loc[q].key, [f \in Diff(q) |-> ask[q].body[f]]) /\ Goto(q, "tell") /\ Moves(q)
     ELSE Finish(q, "500") /\ UNCHANGED <<changes, moved>>
  /\ UNCHANGED <<row, unread, ask, loc, history, raced>>

(* ... and the manager of the category is told. *)
Tell(q) ==
  /\ pc[q] = "tell"
  /\ LET due == {<<c, q>> : c \in {loc[q].seen.cat} \ Unmanaged}
     IN  unread' = unread \cup due /\ told' = told \cup due
  /\ Finish(q, "200") /\ Moves(q)
  /\ UNCHANGED <<row, changes, ask, loc, base, disturbed, raced>>

-----------------------------------------------------------------------------
(* DELETE /api/requisitions/:id *)
FindForDelete(q, k) ==
  /\ pc[q] = "idle"
  /\ ask' = [ask EXCEPT ![q] = [op |-> "delete"]]
  /\ Set(q, [loc[q] EXCEPT !.key = k])
  /\ IF k \in DOMAIN row THEN Goto(q, "delete") ELSE Finish(q, "404")
  /\ UNCHANGED <<tables, history, watch>>

Delete(q) ==
  /\ pc[q] = "delete"
  /\ LET k == loc[q].key
     IN  IF k \in DOMAIN row
         THEN /\ row' = [j \in DOMAIN row \ {k} |-> row[j]]
              /\ changes' = [changes EXCEPT ![k] = Unlogged]
              /\ Finish(q, "200") /\ Moves(q)
         ELSE Finish(q, "500") /\ UNCHANGED <<row, changes, moved>>
  /\ UNCHANGED <<unread, ask, loc, history, raced>>

(* PUT /api/notifications: the given ones, those of a manager, or all. *)
Mark(q, which) ==
  /\ pc[q] = "idle"
  /\ ask' = [ask EXCEPT ![q] = [op |-> "mark"]]
  /\ unread' = unread \ which
  /\ Finish(q, "200") /\ Moves(q)
  /\ UNCHANGED <<row, changes, loc, history, raced>>

-----------------------------------------------------------------------------
(* POST /api/requisitions/upload: the rows of the file, one after another.   *)
Upload(q, file) ==
  /\ pc[q] = "idle"
  /\ ask' = [ask EXCEPT ![q] = [op |-> "import", file |-> file]]
  /\ Goto(q, "row")
  /\ UNCHANGED <<tables, loc, history, watch>>

Line(q) == ask[q].file[loc[q].line]
More(q) == ask[q].op = "import" /\ loc[q].line <= Len(ask[q].file)
Valid(r) == r.cat \in Categories /\ r.titled

(* The row ends in one of the three counters of the answer. *)
NextRow(q, tally) == Set(q, [loc[q] EXCEPT ![tally] = @ + 1, !.line = @ + 1]) /\ Goto(q, "row")

(* Mutation of FailRow: an invalid row is skipped without a word. *)
FailRowSilently(q) ==
  /\ pc[q] \in {"row", "change", "insert", "logUpdated", "logRow"} /\ More(q)
  /\ ~Valid(Line(q))
  /\ Set(q, [loc[q] EXCEPT !.line = @ + 1]) /\ Goto(q, "row")
  /\ UNCHANGED <<tables, ask, history, watch>>

(* An unknown category, no title, or a statement of the row throws: the next *)
(* row goes on; what the row has written stays.                              *)
FailRow(q) ==
  /\ pc[q] \in {"row", "change", "insert", "logUpdated", "logRow"} /\ More(q)
  /\ ~Valid(Line(q)) \/ Faults
  /\ NextRow(q, "errors")
  /\ UNCHANGED <<tables, ask, history, watch>>

(* A row with the id of an existing hiring request updates it ... *)
WithId(id) == {k \in DOMAIN row : <<row[k].cat, row[k].num>> = id}

FindRow(q) ==
  /\ pc[q] = "row" /\ More(q) /\ Valid(Line(q))
  /\ \E k \in WithId(Line(q).id) : Set(q, [loc[q] EXCEPT !.key = k, !.seen = row[k]])
  /\ Goto(q, "change")
  /\ UNCHANGED <<tables, ask, history, watch>>

(* ... with its texts, or the ones that were read, and its positive numbers; *)
(* the budget stays.                                                         *)
ChangeRow(q) ==
  /\ pc[q] = "change"
  /\ LET r == Line(q)
         given == {f \in {"rate", "head"} : r[f] > 0} \cup {f \in {"status"} : r[f] # ""}
         new == [f \in {"text"} \cup given |->
                   IF f = "text" /\ r.text = "" THEN loc[q].seen.text ELSE r[f]]
     IN  IF WithId(r.id) # {} /\ ("status" \in DOMAIN new => new.status \in Statuses)
         THEN \E k \in WithId(r.id) :
                /\ row' = [row EXCEPT ![k] = Over(new, @)]
                /\ disturbed' = disturbed \cup ({k} \X (DOMAIN new \cup {"budget"}))
                /\ Set(q, [loc[q] EXCEPT !.made = @ \cup {loc[q].line}])
                /\ Goto(q, "logUpdated") /\ Moves(q)
         ELSE NextRow(q, "errors") /\ UNCHANGED <<row, disturbed, moved>>
  /\ UNCHANGED <<changes, unread, ask, base, told, raced>>

(* ... and any other row gets a number and is added.  A headcount, a status  *)
(* and texts it does not have get defaults before.                           *)
NumberRow(q) ==
  /\ pc[q] = "row" /\ More(q) /\ Valid(Line(q))
  /\ WithId(Line(q).id) = {}
  /\ LET r == Line(q)
     IN  Set(q, [loc[q] EXCEPT !.seen =
           [cat |-> r.cat, num |-> NextNumber(r.cat), text |-> r.text, rate |-> r.rate,
            head |-> r.head, budget |-> r.rate * r.head,
            status |-> IF r.status = "" THEN "OPEN" ELSE r.status]])
  /\ Goto(q, "insert")
  /\ raced' = raced \ {q}
  /\ UNCHANGED <<tables, ask, history, moved>>

InsertRow(q) ==
  /\ pc[q] = "insert" /\ ask[q].op = "import"
  /\ \/ /\ Add(q, Fresh, loc[q].seen)
        /\ Set(q, [loc[q] EXCEPT !.key = Fresh, !.made = @ \cup {loc[q].line}])
        /\ Goto(q, "logRow")
     \/ /\ Taken(loc[q].seen) \/ ~Storable(loc[q].seen)
        /\ NextRow(q, "errors")
        /\ UNCHANGED <<row, base, watch>>
  /\ UNCHANGED <<changes, unread, ask, disturbed, told>>

(* The record of the row: without it a row that is in the table is an error. *)
LogRow(q) ==
  /\ pc[q] \in {"logUpdated", "logRow"}
  /\ IF loc[q].key \in DOMAIN row
     THEN /\ Record(loc[q].key, [f \in {"-"} |-> "imported"])
          /\ NextRow(q, IF pc[q] = "logRow" THEN "created" ELSE "updated") /\ Moves(q)
     ELSE NextRow(q, "errors") /\ UNCHANGED <<changes, moved>>
  /\ UNCHANGED <<row, unread, ask, history, raced>>

(* The managers of the categories in the file are told, one by one, those of *)
(* rows without a title included.                                            *)
Affected(q) == {c \in Categories \ Unmanaged : \E i \in DOMAIN ask[q].file : ask[q].file[i].cat = c}

TellAffected(q) ==
  /\ pc[q] = "row" /\ ask[q].op = "import" /\ ~More(q)
  /\ LET due == (Affected(q) \X {q}) \ told
     IN  IF due = {} THEN Finish(q, "200") /\ UNCHANGED <<unread, told, moved>>
         ELSE \E n \in due : /\ unread' = unread \cup {n} /\ told' = told \cup {n}
                             /\ Moves(q) /\ UNCHANGED <<pc, answer>>
  /\ UNCHANGED <<row, changes, ask, loc, base, disturbed, raced>>

-----------------------------------------------------------------------------
(* The reads: the rounds of statements a route awaits together.  Those of    *)
(* one round run in any order, each at its own moment.                       *)
Rounds(kind) ==
  CASE kind = "stats" -> <<{"total", "byCategory", "byStatus"}>>
    [] kind = "managers" -> <<{"unread"}, {"byCategory"}>>
    [] OTHER -> <<{"page", "count"}>>

InScope(c) == {k \in DOMAIN row : c = "all" \/ row[k].cat = c}
Active(c)  == {k \in InScope(c) : row[k].status \notin Closed}

ChangesIn(c) ==
  SumFunction([k \in InScope(c) |-> SumFunction([f \in Logged |-> Len(changes[k][f])])])

(* Mutation of Value: the breakdown by category counts closed ones too. *)
ValueUnfiltered(r, s) ==
  CASE s = "total" -> Cardinality(Active(r.scope))
    [] s = "byCategory" -> [c \in Categories |-> Cardinality(InScope(r.scope) \cap InScope(c))]
    [] s = "byStatus" ->
         [t \in Statuses |-> Cardinality({k \in InScope(r.scope) : row[k].status = t})]
    [] OTHER -> 0

Value(r, s) ==
  CASE s = "total" -> Cardinality(Active(r.scope))
    [] s = "byCategory" -> [c \in Categories |-> Cardinality(Active(r.scope) \cap InScope(c))]
    [] s = "byStatus" ->
         [t \in Statuses |-> Cardinality({k \in InScope(r.scope) : row[k].status = t})]
    [] s = "unread" -> [c \in Categories |-> Cardinality({n \in unread : n[1] = c})]
    [] r.kind = "changes" -> ChangesIn(r.scope)
    [] r.kind = "notifications" ->
         Cardinality({n \in unread : r.scope = "all" \/ n[1] = r.scope})
    [] OTHER -> Cardinality(InScope(r.scope))

BeginRead(q, r) ==
  /\ pc[q] = "idle"
  /\ ask' = [ask EXCEPT ![q] = [op |-> "read", read |-> r]]
  /\ Goto(q, "read")
  /\ UNCHANGED <<tables, loc, history, watch>>

(* The statements that are still to be answered in the current round. *)
Pending(q) ==
  LET left == {i \in DOMAIN Rounds(ask[q].read.kind) :
                 ~(Rounds(ask[q].read.kind)[i] \subseteq DOMAIN loc[q].got)}
  IN  IF left = {} THEN {}
      ELSE Rounds(ask[q].read.kind)[CHOOSE i \in left : \A j \in left : i <= j]
           \ DOMAIN loc[q].got

Statement(q) ==
  /\ pc[q] = "read"
  /\ \E s \in Pending(q) :
       Set(q, [loc[q] EXCEPT !.got = Over([t \in {s} |-> Value(ask[q].read, t)], @)])
  /\ UNCHANGED <<tables, pc, ask, answer, history, watch>>

AnswerRead(q) ==
  /\ pc[q] = "read" /\ Pending(q) = {}
  /\ Finish(q, "200")
  /\ UNCHANGED <<tables, ask, loc, history, watch>>

-----------------------------------------------------------------------------
Next ==
  \E q \in Requests :
    \/ \E b \in NewRows : Create(q, b)
    \/ Insert(q) \/ RecordCreated(q)
    \/ \E k \in DOMAIN base : FindForDelete(q, k) \/ \E b \in Bodies : ReadRow(q, k, b)
    \/ Write(q) \/ LogChanges(q) \/ Tell(q)
    \/ Delete(q)
    \/ \E m \in Categories \cup {"all"} : Mark(q, {n \in unread : m \in {n[1], "all"}})
    \/ \E f \in Files : Upload(q, f)
    \/ FailRow(q) \/ FindRow(q) \/ ChangeRow(q) \/ NumberRow(q) \/ InsertRow(q) \/ LogRow(q)
    \/ TellAffected(q)
    \/ \E r \in Reads : BeginRead(q, r)
    \/ Statement(q) \/ AnswerRead(q)
    \/ Throw(q)

Spec == Init /\ [][Next]_vars

-----------------------------------------------------------------------------
(* The change log explains the table: the value of a tracked field is the    *)
(* one of its last record, or the original one.  Not so while an update is   *)
(* between its write and its records; after two updates of a field have      *)
(* overlapped; after an update that threw in between, an import, or an empty *)
(* text, which is recorded but not stored.                                   *)
Latest(k, f) ==
  IF changes[k][f] = <<>> THEN base[k][f] ELSE Last(changes[k][f])

LogExplainsRow ==
  \A k \in DOMAIN row : \A f \in Fields \ {"budget"} :
    \/ row[k][f] = Latest(k, f)
    \/ <<k, f>> \in disturbed
    \/ \E q \in Requests : pc[q] = "log" /\ loc[q].key = k /\ f \in Diff(q)

(* The budget is rate times headcount, but for a budget that was given, an   *)
(* import, which leaves it, and an update computed from a rate or headcount  *)
(* another update has changed since it was read.                             *)
BudgetExplained ==
  \A k \in DOMAIN row :
    row[k].budget = row[k].rate * row[k].head \/ <<k, "budget">> \in disturbed

(* A generated number is refused only if another request took it in between, *)
(* or the category has used up the numbers of the padded width: from then on *)
(* the largest by text is not the largest.                                   *)
NumberIsFree ==
  \A q \in Requests :
    pc[q] = "insert" /\ q \notin raced /\ (\A n \in Numbers(loc[q].seen.cat) : n < Cut)
      => ~Taken(loc[q].seen)

(* The answer of an import accounts for every row once, and for every row    *)
(* that it wrote: one that is reported as an error may be in the table, one  *)
(* that is reported as created or updated has been.                          *)
ImportCounts ==
  \A q \in Requests : ask[q].op = "import" =>
    LET l == loc[q]
    IN  /\ l.created + l.updated + l.errors = l.line - 1
        /\ answer[q] = "200" => l.line = Len(ask[q].file) + 1
        /\ pc[q] \in {"row", "done"} =>
             /\ Cardinality(l.made) >= l.created + l.updated
             /\ \A i \in l.made : Valid(ask[q].file[i])

(* The figures of one answer differ by no more than the writes committed     *)
(* while it was put together: the total of the statistics from the sum over  *)
(* the categories and from that over the statuses that count, a page of the  *)
(* hiring requests from the count beside it.  One write adds or removes many *)
(* changes or notifications: there page and count agree without a write.     *)
Near(a, b, d) == a - b <= d /\ b - a <= d

ReadsAgree ==
  \A q \in Requests : pc[q] = "done" /\ ask[q].op = "read" /\ answer[q] = "200" =>
    LET g == loc[q].got
        kind == ask[q].read.kind
    IN  /\ kind = "stats" =>
             /\ Near(g.total, SumFunctionOnSet(g.byCategory, Categories), moved[q])
             /\ Near(g.total, SumFunctionOnSet(g.byStatus, Statuses \ Closed), moved[q])
        /\ kind = "list" => Near(g.page, g["count"], moved[q])
        /\ kind \in {"changes", "notifications"} /\ moved[q] = 0 => g.page = g["count"]

=============================================================================
