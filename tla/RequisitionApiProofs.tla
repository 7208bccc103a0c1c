------------------------ MODULE RequisitionApiProofs ------------------------
(****************************************************************************)
(* Proofs about RequisitionApi, for any requests, tables, files and faults: *)
(* what the answer of an import says of its rows, when a generated number   *)
(* is refused, when a budget is not rate times headcount, when a field is   *)
(* not what the change log says, and how far apart the figures of a read    *)
(* can be.                                                                  *)
(****************************************************************************)
EXTENDS RequisitionApi, FiniteSetTheorems, SequenceTheorems, WellFoundedInduction, TLAPS

-----------------------------------------------------------------------------
(* Where a request can be that asks for an import, and where its current     *)
(* line has been found valid, or written.                                    *)
ImportSteps == {"row", "change", "insert", "logUpdated", "logRow", "done"}
LineSteps   == {"change", "insert", "logUpdated", "logRow"}
Written     == {"logUpdated", "logRow"}

Mapped ==
  DOMAIN pc = Requests /\ DOMAIN ask = Requests /\ DOMAIN loc = Requests /\ DOMAIN answer = Requests

Whole(l) == DOMAIN l = DOMAIN Local0

(* The three counters add up to the lines done; the lines that wrote cover   *)
(* those that are counted as created or updated, and the current one once it *)
(* has written.                                                              *)
Tallied(l, step) ==
  /\ Whole(l)
  /\ l.line \in Nat \ {0} /\ l.created \in Nat /\ l.updated \in Nat /\ l.errors \in Nat
  /\ l.created + l.updated + l.errors = l.line - 1
  /\ IsFiniteSet(l.made)
  /\ Cardinality(l.made) >= l.created + l.updated + (IF step \in Written THEN 1 ELSE 0)
  /\ step \notin Written \cup {"done"} => \A i \in l.made : i \in Nat /\ i < l.line
  /\ \A i \in l.made : i \in Nat /\ i <= l.line

(* An import goes through the lines of one of the files.                     *)
InFile(l, step, a, code) ==
  /\ step \in {"row", "change", "logUpdated", "logRow"} => a.op = "import"
  /\ step = "idle" => l = Local0
  /\ step # "done" => code = "none"
  /\ a.op = "import" =>
       /\ step \in ImportSteps
       /\ a.file \in Files
       /\ l.line <= Len(a.file) + 1
       /\ step \in LineSteps => l.line <= Len(a.file) /\ Valid(a.file[l.line])
       /\ \A i \in l.made : Valid(a.file[i])
       /\ code = "200" => l.line = Len(a.file) + 1

Served(q) == Tallied(loc[q], pc[q]) /\ InFile(loc[q], pc[q], ask[q], answer[q])

ImportInv == Mapped /\ \A q \in Requests : Served(q)

LEMMA ImportInitInv == Init => ImportInv
<1> SUFFICES ASSUME Init PROVE ImportInv
  OBVIOUS
<1>1. Mapped
  BY DEF Init, Mapped
<1>2. ASSUME NEW q \in Requests PROVE Served(q)
  <2>1. loc[q] = Local0 /\ pc[q] = "idle" /\ ask[q] = [op |-> "none"] /\ answer[q] = "none"
    BY DEF Init
  <2>2. Tallied(Local0, "idle")
    BY FS_EmptySet DEF Tallied, Whole, Local0, Written
  <2> QED BY <2>1, <2>2 DEF Served, InFile, Local0
<1> QED BY <1>1, <1>2 DEF ImportInv

(* The invariant is kept if it is kept for the request that takes the step.  *)
Alone(q) ==
  /\ Mapped'
  /\ \A o \in Requests \ {q} : /\ pc'[o] = pc[o] /\ ask'[o] = ask[o]
                               /\ loc'[o] = loc[o] /\ answer'[o] = answer[o]

LEMMA OneServed ==
  ASSUME ImportInv, NEW q \in Requests, Alone(q), Served(q)'
  PROVE  ImportInv'
<1>1. ASSUME NEW o \in Requests \ {q} PROVE Served(o)'
  BY <1>1 DEF ImportInv, Alone, Served
<1> QED BY <1>1 DEF ImportInv, Alone

-----------------------------------------------------------------------------
(* The steps of imports.                                                     *)
LEMMA NextRowServed ==
  ASSUME ImportInv, NEW q \in Requests, NEW tally \in {"created", "updated", "errors"},
         NextRow(q, tally), UNCHANGED ask, More(q), pc[q] # "done",
         tally # "errors" => pc[q] \in Written
  PROVE  Alone(q) /\ Served(q)'
<1> DEFINE l == loc[q]
           f == ask[q].file
<1>1. Mapped /\ Tallied(l, pc[q]) /\ InFile(l, pc[q], ask[q], answer[q])
  BY DEF ImportInv, Served
<1>2. /\ ask[q].op = "import" /\ l.line <= Len(f)
      /\ loc' = [loc EXCEPT ![q] = [l EXCEPT ![tally] = l[tally] + 1, !.line = l.line + 1]]
      /\ pc' = [pc EXCEPT ![q] = "row"] /\ UNCHANGED <<ask, answer>>
  BY DEF NextRow, Set, Goto, More
<1>3. Alone(q)
  BY <1>1, <1>2 DEF Alone, Mapped
<1>4. pc'[q] = "row" /\ answer'[q] = answer[q] /\ ask'[q] = ask[q]
  BY <1>1, <1>2 DEF Mapped
<1>5. DOMAIN l = {"key", "seen", "num", "got", "line", "created", "updated", "errors", "made"}
  BY <1>1 DEF Tallied, Whole, Local0
<1>6. /\ Whole(loc'[q]) /\ loc'[q].line = l.line + 1 /\ loc'[q].made = l.made
      /\ loc'[q].created = (IF tally = "created" THEN l.created + 1 ELSE l.created)
      /\ loc'[q].updated = (IF tally = "updated" THEN l.updated + 1 ELSE l.updated)
      /\ loc'[q].errors = (IF tally = "errors" THEN l.errors + 1 ELSE l.errors)
  BY <1>1, <1>2, <1>5 DEF Mapped, Whole, Local0
<1>7. Cardinality(l.made) \in Nat
  BY <1>1, FS_CardinalityType DEF Tallied
<1>8. Tallied(loc'[q], "row")
  BY <1>1, <1>6, <1>7 DEF Tallied, Written
<1>9. Len(f) \in Nat
  BY <1>1, <1>2, ApiAssumption DEF InFile
<1>10. InFile(loc'[q], "row", ask[q], answer[q])
  <2>0. l.line \in Nat /\ l.line <= Len(f)
    BY <1>1, <1>2 DEF Tallied
  <2>1. l.line + 1 <= Len(f) + 1
    BY <1>9, <2>0
  <2>2. answer[q] = "none" /\ f \in Files /\ \A i \in l.made : Valid(f[i])
    BY <1>1, <1>2 DEF InFile
  <2>3. "row" \in ImportSteps /\ "row" \notin LineSteps /\ "row" # "idle"
    BY DEF ImportSteps, LineSteps
  <2> QED BY <1>2, <1>6, <2>1, <2>2, <2>3 DEF InFile
<1> QED BY <1>3, <1>4, <1>8, <1>10 DEF Served

(* A line that is being served moves on without having written.              *)
LEMMA LineServed ==
  ASSUME ImportInv, NEW q \in Requests,
         UNCHANGED <<ask, answer>>, pc' = [pc EXCEPT ![q] = pc'[q]],
         loc' = [loc EXCEPT ![q] = loc'[q]], DOMAIN loc'[q] = DOMAIN loc[q],
         \A f \in {"line", "created", "updated", "errors", "made"} : loc'[q][f] = loc[q][f],
         pc[q] = "row", pc'[q] \in {"change", "insert"}, More(q), Valid(Line(q))
  PROVE  Alone(q) /\ Served(q)'
<1> USE DEF ImportInv
<1>1. Mapped /\ Tallied(loc[q], "row") /\ InFile(loc[q], "row", ask[q], answer[q])
  BY DEF Served
<1>2. Alone(q)
  BY <1>1 DEF Alone, Mapped
<1>3. Tallied(loc'[q], pc'[q])
  BY <1>1 DEF Tallied, Whole, Written
<1>4. InFile(loc'[q], pc'[q], ask[q], answer[q])
  BY <1>1 DEF InFile, ImportSteps, LineSteps, More, Line
<1> QED BY <1>2, <1>3, <1>4 DEF Served

LEMMA FindRowServed ==
  ASSUME ImportInv, NEW q \in Requests, FindRow(q) \/ NumberRow(q)
  PROVE  Alone(q) /\ Served(q)'
<1>1. Mapped /\ Whole(loc[q])
  BY DEF ImportInv, Served, Tallied
<1>2. pc[q] = "row" /\ More(q) /\ Valid(Line(q)) /\ UNCHANGED <<ask, answer>>
  BY DEF FindRow, NumberRow, Goto
<1>3. pc' = [pc EXCEPT ![q] = pc'[q]] /\ pc'[q] \in {"change", "insert"}
  BY <1>1 DEF FindRow, NumberRow, Goto, Mapped
<1>4. /\ loc' = [loc EXCEPT ![q] = loc'[q]] /\ DOMAIN loc'[q] = DOMAIN loc[q]
      /\ \A f \in {"line", "created", "updated", "errors", "made"} : loc'[q][f] = loc[q][f]
  <2>1. CASE FindRow(q)
    <3>1. PICK k \in WithId(Line(q).id) :
            loc' = [loc EXCEPT ![q] = [loc[q] EXCEPT !.key = k, !.seen = row[k]]]
      BY <2>1 DEF FindRow, Set
    <3> QED BY <1>1, <3>1 DEF Mapped, Whole, Local0
  <2>2. CASE NumberRow(q)
    <3>1. PICK r : loc' = [loc EXCEPT ![q] = [loc[q] EXCEPT !.seen = r]]
      BY <2>2 DEF NumberRow, Set
    <3> QED BY <1>1, <3>1 DEF Mapped, Whole, Local0
  <2> QED BY <2>1, <2>2
<1> QED BY <1>2, <1>3, <1>4, LineServed

(* A line writes its row.                                                    *)
LEMMA WroteServed ==
  ASSUME ImportInv, NEW q \in Requests, NEW k,
         UNCHANGED <<ask, answer>>, Goto(q, pc'[q]), pc'[q] \in Written,
         loc' = [loc EXCEPT ![q] = [loc[q] EXCEPT !.key = k, !.made = @ \cup {loc[q].line}]],
         pc[q] \in {"change", "insert"}, ask[q].op = "import"
  PROVE  Alone(q) /\ Served(q)'
<1> DEFINE l == loc[q]
<1>1. Mapped /\ Tallied(l, pc[q]) /\ InFile(l, pc[q], ask[q], answer[q])
  BY DEF ImportInv, Served
<1>2. pc' = [pc EXCEPT ![q] = pc'[q]]
  BY DEF Goto
<1>3. Alone(q)
  BY <1>1, <1>2 DEF Alone, Mapped
<1>4. DOMAIN l = {"key", "seen", "num", "got", "line", "created", "updated", "errors", "made"}
  BY <1>1 DEF Tallied, Whole, Local0
<1>5. /\ Whole(loc'[q]) /\ loc'[q].made = l.made \cup {l.line}
      /\ \A f \in {"line", "created", "updated", "errors"} : loc'[q][f] = l[f]
  BY <1>1, <1>4 DEF Mapped, Whole, Local0
<1>6. l.line \notin l.made /\ IsFiniteSet(l.made) /\ Cardinality(l.made) \in Nat
  BY <1>1, FS_CardinalityType DEF Tallied, Written
<1>7. /\ IsFiniteSet(l.made \cup {l.line})
      /\ Cardinality(l.made \cup {l.line}) = Cardinality(l.made) + 1
  BY <1>6, FS_AddElement
<1>8. Tallied(loc'[q], pc'[q])
  <2>1. /\ loc'[q].line = l.line /\ loc'[q].created = l.created
        /\ loc'[q].updated = l.updated /\ loc'[q].errors = l.errors
    BY <1>5
  <2>2. /\ l.line \in Nat \ {0} /\ l.created \in Nat /\ l.updated \in Nat /\ l.errors \in Nat
        /\ l.created + l.updated + l.errors = l.line - 1
        /\ Cardinality(l.made) >= l.created + l.updated
        /\ \A i \in l.made : i \in Nat /\ i <= l.line
    BY <1>1 DEF Tallied, Written
  <2>3. /\ Cardinality(loc'[q].made) >= l.created + l.updated + 1
        /\ \A i \in loc'[q].made : i \in Nat /\ i <= l.line
    <3> DEFINE n == Cardinality(l.made)
               m == l.made \cup {l.line}
    <3>1. n \in Nat /\ n >= l.created + l.updated /\ Cardinality(m) = n + 1
      BY <1>6, <1>7, <2>2
    <3> HIDE DEF n
    <3>2. Cardinality(m) >= l.created + l.updated + 1
      BY <2>2, <3>1
    <3>3. \A i \in m : i \in Nat /\ i <= l.line
      BY <2>2
    <3> QED BY <1>5, <3>2, <3>3
  <2> QED BY <1>5, <1>7, <2>1, <2>2, <2>3 DEF Tallied
<1>9. InFile(loc'[q], pc'[q], ask[q], answer[q])
  BY <1>1, <1>5 DEF InFile, ImportSteps, LineSteps, Written
<1> QED BY <1>3, <1>8, <1>9 DEF Served

LEMMA RowServed ==
  ASSUME ImportInv, NEW q \in Requests,
         FailRow(q) \/ ChangeRow(q) \/ InsertRow(q) \/ LogRow(q)
  PROVE  Alone(q) /\ Served(q)'
<1>1. InFile(loc[q], pc[q], ask[q], answer[q])
  BY DEF ImportInv, Served
<1>2. CASE FailRow(q)
  BY <1>2, NextRowServed DEF FailRow
<1>3. CASE ChangeRow(q)
  <2>1. pc[q] = "change" /\ UNCHANGED ask
    BY <1>3 DEF ChangeRow
  <2>2. ask[q].op = "import" /\ More(q)
    BY <1>1, <2>1 DEF InFile, LineSteps, More
  <2>3. CASE NextRow(q, "errors")
    BY <2>1, <2>2, <2>3, NextRowServed
  <2>4. CASE ~NextRow(q, "errors")
    <3>1. /\ loc' = [loc EXCEPT ![q] = [loc[q] EXCEPT !.made = @ \cup {loc[q].line}]]
          /\ Goto(q, "logUpdated")
      BY <1>3, <2>4 DEF ChangeRow, Set
    <3>2. pc'[q] = "logUpdated" /\ UNCHANGED answer
      BY <3>1 DEF Goto, ImportInv, Mapped
    <3>3. loc' = [loc EXCEPT ![q] =
                    [loc[q] EXCEPT !.key = loc[q].key, !.made = @ \cup {loc[q].line}]]
      BY <3>1 DEF ImportInv, Served, Tallied, Whole, Local0
    <3> QED BY <2>1, <2>2, <3>1, <3>2, <3>3, WroteServed DEF Written
  <2> QED BY <2>3, <2>4
<1>4. CASE InsertRow(q)
  <2>1. pc[q] = "insert" /\ ask[q].op = "import" /\ UNCHANGED ask
    BY <1>4 DEF InsertRow
  <2>2. More(q)
    BY <1>1, <2>1 DEF InFile, LineSteps, More
  <2>3. CASE NextRow(q, "errors")
    BY <2>1, <2>2, <2>3, NextRowServed
  <2>4. CASE ~NextRow(q, "errors")
    <3>1. /\ loc' = [loc EXCEPT ![q] =
                       [loc[q] EXCEPT !.key = Fresh, !.made = @ \cup {loc[q].line}]]
          /\ Goto(q, "logRow")
      BY <1>4, <2>4 DEF InsertRow, Set
    <3>2. pc'[q] = "logRow" /\ UNCHANGED answer
      BY <3>1 DEF Goto, ImportInv, Mapped
    <3> QED BY <2>1, <3>1, <3>2, WroteServed DEF Written
  <2> QED BY <2>3, <2>4
<1>5. CASE LogRow(q)
  <2>1. pc[q] \in Written /\ UNCHANGED ask
    BY <1>5 DEF LogRow, Written
  <2>2. ask[q].op = "import" /\ More(q)
    BY <1>1, <2>1 DEF InFile, LineSteps, More, Written
  <2>3. PICK t \in {"created", "updated", "errors"} : NextRow(q, t)
    BY <1>5 DEF LogRow
  <2> QED BY <2>1, <2>2, <2>3, NextRowServed DEF Written
<1> QED BY <1>2, <1>3, <1>4, <1>5

(* The import begins, and ends when every line is done.                      *)
LEMMA UploadServed ==
  ASSUME ImportInv, NEW q \in Requests, NEW f \in Files, Upload(q, f)
  PROVE  Alone(q) /\ Served(q)'
<1>1. Mapped /\ Tallied(loc[q], "idle") /\ InFile(loc[q], "idle", ask[q], answer[q])
  BY DEF ImportInv, Served, Upload
<1>2. /\ Mapped' /\ Alone(q) /\ pc'[q] = "row" /\ UNCHANGED <<loc, answer>>
      /\ ask'[q] = [op |-> "import", file |-> f]
  BY <1>1 DEF Upload, Goto, Alone, Mapped
<1>3. loc[q] = Local0 /\ answer[q] = "none" /\ Len(f) \in Nat
  BY <1>1, ApiAssumption DEF InFile
<1>4. Tallied(loc[q], "row")
  BY <1>1, <1>3 DEF Tallied, Written, Local0
<1>5. InFile(Local0, "row", [op |-> "import", file |-> f], "none")
  BY <1>3 DEF InFile, Local0, ImportSteps, LineSteps
<1> QED BY <1>2, <1>3, <1>4, <1>5 DEF Served

LEMMA TellAffectedServed ==
  ASSUME ImportInv, NEW q \in Requests, TellAffected(q)
  PROVE  Alone(q) /\ Served(q)'
<1>1. /\ Mapped /\ Tallied(loc[q], "row") /\ InFile(loc[q], "row", ask[q], answer[q])
      /\ UNCHANGED <<ask, loc>> /\ ask[q].op = "import" /\ ~(loc[q].line <= Len(ask[q].file))
  BY DEF ImportInv, Served, TellAffected, More
<1>2. CASE UNCHANGED <<pc, answer>>
  BY <1>1, <1>2 DEF TellAffected, ImportInv, Alone, Served, Mapped
<1>3. CASE Finish(q, "200")
  <2>1. Alone(q) /\ pc'[q] = "done" /\ answer'[q] = "200"
    BY <1>1, <1>3 DEF Finish, Alone, Mapped
  <2>2. Len(ask[q].file) \in Nat /\ loc[q].line \in Nat
    BY <1>1, ApiAssumption DEF InFile, Tallied
  <2>3. loc[q].line = Len(ask[q].file) + 1
    BY <1>1, <2>2 DEF InFile
  <2>4. Tallied(loc[q], "done")
    BY <1>1 DEF Tallied, Written
  <2>5. InFile(loc[q], "done", ask[q], "200")
    BY <1>1, <2>3 DEF InFile, ImportSteps, LineSteps
  <2> QED BY <1>1, <2>1, <2>4, <2>5 DEF Served
<1> QED BY <1>2, <1>3 DEF TellAffected

-----------------------------------------------------------------------------
(* The steps of the other requests leave the tally alone.                    *)
LEMMA OtherServed ==
  ASSUME ImportInv, NEW q \in Requests, Alone(q), ask'[q].op # "import",
         pc[q] \notin Written, pc'[q] \notin {"row", "change", "logUpdated", "logRow", "idle"},
         pc'[q] # "done" => answer'[q] = "none", pc[q] # "done", DOMAIN loc'[q] = DOMAIN loc[q],
         \A f \in {"line", "created", "updated", "errors", "made"} : loc'[q][f] = loc[q][f]
  PROVE  Served(q)'
<1>1. Tallied(loc[q], pc[q])
  BY DEF ImportInv, Served
<1>2. Tallied(loc'[q], pc'[q])
  BY <1>1 DEF Tallied, Whole, Written
<1>3. InFile(loc'[q], pc'[q], ask'[q], answer'[q])
  BY DEF InFile
<1> QED BY <1>2, <1>3 DEF Served

LEMMA ThrowServed ==
  ASSUME ImportInv, NEW q \in Requests, Throw(q)
  PROVE  Alone(q) /\ Served(q)'
<1>1. Mapped /\ Tallied(loc[q], pc[q]) /\ InFile(loc[q], pc[q], ask[q], answer[q])
  BY DEF ImportInv, Served
<1>2. Alone(q) /\ pc'[q] = "done" /\ answer'[q] = "500" /\ UNCHANGED <<loc, ask>>
  BY <1>1 DEF Throw, Finish, Alone, Mapped
<1>3. Cardinality(loc[q].made) \in Nat
  BY <1>1, FS_CardinalityType DEF Tallied
<1>4. Tallied(loc[q], "done")
  BY <1>1, <1>3 DEF Tallied, Written
<1>5. InFile(loc[q], "done", ask[q], "500")
  BY <1>1 DEF InFile, ImportSteps, LineSteps
<1> QED BY <1>2, <1>4, <1>5 DEF Served

(* What Set does to the local variables of a request that is no import.      *)
Tally == {"line", "created", "updated", "errors", "made"}
Keeps(q) == DOMAIN loc'[q] = DOMAIN loc[q] /\ \A f \in Tally : loc'[q][f] = loc[q][f]

LEMMA StartServed ==
  ASSUME ImportInv, NEW q \in Requests, NEW k, NEW b, NEW m, NEW r,
         Create(q, b) \/ ReadRow(q, k, b) \/ FindForDelete(q, k) \/ Mark(q, m) \/ BeginRead(q, r)
  PROVE  Alone(q) /\ Served(q)'
<1>1. /\ Mapped /\ Whole(loc[q]) /\ pc[q] = "idle" /\ answer[q] = "none"
  BY DEF ImportInv, Served, Tallied, InFile, Create, ReadRow, FindForDelete, Mark, BeginRead
<1>2. Keeps(q) /\ ask'[q].op # "import" /\ Alone(q)
      /\ pc'[q] \in {"insert", "write", "delete", "read", "done"}
      /\ (pc'[q] # "done" => UNCHANGED answer)
  <2>1. CASE Create(q, b)
    BY <1>1, <2>1 DEF Create, Set, Goto, Mapped, Whole, Local0, Keeps, Tally, Alone
  <2>2. CASE ReadRow(q, k, b)
    <3>1. UNCHANGED loc \/ loc' = [loc EXCEPT ![q] = [loc[q] EXCEPT !.key = k, !.seen = row[k]]]
      BY <2>2 DEF ReadRow, Set
    <3>2. Keeps(q) /\ DOMAIN loc' = Requests /\ \A o \in Requests \ {q} : loc'[o] = loc[o]
      <4>1. CASE UNCHANGED loc
        BY <1>1, <4>1 DEF Mapped, Keeps
      <4>2. ASSUME NEW v, loc' = [loc EXCEPT ![q] = [loc[q] EXCEPT !.key = k, !.seen = v]]
            PROVE  Keeps(q) /\ DOMAIN loc' = Requests
                   /\ \A o \in Requests \ {q} : loc'[o] = loc[o]
        BY <1>1, <4>2 DEF Mapped, Whole, Local0, Keeps, Tally
      <4> QED BY <3>1, <4>1, <4>2
    <3>3. /\ ask' = [ask EXCEPT ![q] = [op |-> "update", body |-> b]]
          /\ Goto(q, "write") \/ Finish(q, "404")
      BY <2>2 DEF ReadRow
    <3> QED BY <1>1, <3>2, <3>3 DEF Goto, Finish, Mapped, Alone
  <2>3. CASE FindForDelete(q, k)
    BY <1>1, <2>3 DEF FindForDelete, Set, Goto, Finish, Mapped, Whole, Local0, Keeps, Tally, Alone
  <2>4. CASE Mark(q, m)
    BY <1>1, <2>4 DEF Mark, Finish, Mapped, Keeps, Tally, Alone
  <2>5. CASE BeginRead(q, r)
    BY <1>1, <2>5 DEF BeginRead, Goto, Mapped, Keeps, Tally, Alone
  <2> QED BY <2>1, <2>2, <2>3, <2>4, <2>5
<1> QED BY <1>1, <1>2, OtherServed DEF Keeps, Tally, Written

LEMMA StatementServed ==
  ASSUME ImportInv, NEW q \in Requests,
         \/ Insert(q) \/ RecordCreated(q) \/ Write(q) \/ LogChanges(q) \/ Tell(q)
         \/ Delete(q) \/ Statement(q) \/ AnswerRead(q)
  PROVE  Alone(q) /\ Served(q)'
<1>1. /\ Mapped /\ Whole(loc[q]) /\ InFile(loc[q], pc[q], ask[q], answer[q])
  BY DEF ImportInv, Served, Tallied
<1>2. /\ pc[q] \in {"insert", "record", "write", "log", "tell", "delete", "read"}
      /\ pc[q] = "insert" => ask[q].op = "create"
      /\ UNCHANGED ask
  BY DEF Insert, RecordCreated, Write, LogChanges, Tell, Delete, Statement, AnswerRead
<1>3. ask[q].op # "import" /\ answer[q] = "none"
  BY <1>1, <1>2 DEF InFile, ImportSteps
<1>4. /\ Keeps(q) /\ Alone(q) /\ pc'[q] \in {"record", "log", "tell", "read", "done"}
      /\ pc'[q] # "done" => UNCHANGED answer
  <2>1. CASE Insert(q)
    BY <1>1, <2>1 DEF Insert, Set, Goto, Finish, Mapped, Whole, Local0, Keeps, Tally, Alone
  <2>2. CASE RecordCreated(q) \/ Write(q) \/ LogChanges(q) \/ Tell(q) \/ Delete(q)
    <3>1. UNCHANGED <<loc, ask>> /\ \E c : Finish(q, c) \/ Goto(q, "log") \/ Goto(q, "tell")
      BY <2>2 DEF RecordCreated, Write, LogChanges, Tell, Delete
    <3> QED BY <1>1, <3>1 DEF Goto, Finish, Mapped, Keeps, Tally, Alone
  <2>3. CASE Statement(q)
    <3>1. PICK g : loc' = [loc EXCEPT ![q] = [loc[q] EXCEPT !.got = g]]
      BY <2>3 DEF Statement, Set
    <3>2. pc[q] = "read" /\ UNCHANGED <<pc, ask, answer>>
      BY <2>3 DEF Statement
    <3> QED BY <1>1, <3>1, <3>2 DEF Mapped, Whole, Local0, Keeps, Tally, Alone
  <2>4. CASE AnswerRead(q)
    BY <1>1, <2>4 DEF AnswerRead, Finish, Mapped, Keeps, Tally, Alone
  <2> QED BY <2>1, <2>2, <2>3, <2>4
<1> QED BY <1>2, <1>3, <1>4, OtherServed DEF Keeps, Tally, Written

LEMMA ImportNextInv == ImportInv /\ [Next]_vars => ImportInv'
<1> SUFFICES ASSUME ImportInv, [Next]_vars PROVE ImportInv'
  OBVIOUS
<1>1. CASE UNCHANGED vars
  BY <1>1 DEF vars, ImportInv, Mapped, Served
<1>2. CASE Next
  <2>1. PICK q \in Requests : Next!(q)
    BY <1>2 DEF Next
  <2>2. Alone(q) /\ Served(q)'
    BY <2>1, StartServed, StatementServed, UploadServed, RowServed, FindRowServed,
       TellAffectedServed, ThrowServed
  <2> QED BY <2>2, OneServed
<1> QED BY <1>1, <1>2

(* The inductive invariant of the tallies of an import, line by line.        *)
THEOREM ImportInvariance == Spec => []ImportInv
  BY ImportInitInv, ImportNextInv, PTL DEF Spec

(* For any file and faults: the answer of an import accounts for every line  *)
(* once, and for every line that it wrote.                                   *)
THEOREM ImportsAccounted == Spec => []ImportCounts
<1>1. ImportInv => ImportCounts
  <2> SUFFICES ASSUME ImportInv, NEW q \in Requests, ask[q].op = "import"
               PROVE  LET l == loc[q]
                      IN  /\ l.created + l.updated + l.errors = l.line - 1
                          /\ answer[q] = "200" => l.line = Len(ask[q].file) + 1
                          /\ pc[q] \in {"row", "done"} =>
                               /\ Cardinality(l.made) >= l.created + l.updated
                               /\ \A i \in l.made : Valid(ask[q].file[i])
    BY DEF ImportCounts
  <2>1. Tallied(loc[q], pc[q]) /\ InFile(loc[q], pc[q], ask[q], answer[q])
    BY DEF ImportInv, Served
  <2> QED BY <2>1 DEF Tallied, InFile, Written
<1> QED BY <1>1, ImportInvariance, PTL

-----------------------------------------------------------------------------
(* The order of the ids as texts is total, so that a finite set of numbers   *)
(* has a largest one: of those with the fewest above them, any.              *)
LEMMA TextOrder ==
  /\ \A m, n \in Nat : TextLeq(m, n) \/ TextLeq(n, m)
  /\ \A m, n, o \in Nat : TextLeq(m, n) /\ TextLeq(n, o) => TextLeq(m, o)
<1>1. \A n \in Nat : Lead(n) \in Int /\ Rest(n) \in Int
  BY ApiAssumption DEF Lead, Rest
<1> QED BY <1>1 DEF TextLeq

LEMMA LargestByText ==
  ASSUME NEW S \in SUBSET Nat, IsFiniteSet(S), S # {}
  PROVE  \E n \in S : \A m \in S : TextLeq(m, n)
<1> DEFINE above(x) == {y \in S : ~TextLeq(y, x)}
           A == {above(x) : x \in S}
<1>1. \A x \in S : above(x) \in FiniteSubsetsOf(S)
  BY FS_Subset DEF FiniteSubsetsOf
<1>2. A \subseteq FiniteSubsetsOf(S) /\ A # {}
  BY <1>1
<1>3. PICK x \in S : \A y \in S : ~ (<<above(y), above(x)>> \in StrictSubsetOrdering(S))
  <2> HIDE DEF A
  <2>1. \E a \in A : \A b \in A : ~ (<<b, a>> \in StrictSubsetOrdering(S))
    BY <1>2, FS_StrictSubsetOrderingWellFounded, WFMin
  <2> QED BY <2>1 DEF A
<1>4. ASSUME NEW y \in S, ~TextLeq(y, x) PROVE FALSE
  <2>1. TextLeq(x, y) /\ TextLeq(y, y)
    BY <1>4, TextOrder
  <2>2. above(y) \subseteq above(x)
    BY <2>1, TextOrder
  <2>3. y \in above(x) /\ y \notin above(y)
    BY <1>4, <2>1
  <2> QED BY <1>3, <2>2, <2>3 DEF StrictSubsetOrdering
<1> QED BY <1>4

-----------------------------------------------------------------------------
(* The table and what the requests are about to write into it.               *)
Priced(r) == r.budget = r.rate * r.head

Rows ==
  /\ IsFiniteSet(DOMAIN row)
  /\ \A k \in DOMAIN row :
       /\ DOMAIN row[k] = Columns /\ row[k].num \in Nat
       /\ Priced(row[k]) \/ <<k, "budget">> \in disturbed

(* A number follows one that no number of the category comes after.          *)
Following(r) ==
  \/ r.num = 1 /\ Numbers(r.cat) = {}
  \/ \E n \in Nat : r.num = n + 1 /\ \A m \in Numbers(r.cat) : TextLeq(m, n)

Ready(q) ==
  /\ pc[q] = "insert" =>
       LET r == loc[q].seen
       IN  DOMAIN r = Columns /\ r.num \in Nat /\ Priced(r) /\ (q \notin raced => Following(r))
  /\ pc[q] = "write" => ask[q].body \in Bodies

TableInv == ImportInv /\ Rows /\ \A q \in Requests : Ready(q)

LEMMA NumbersFinite ==
  ASSUME Rows, NEW c PROVE Numbers(c) \in SUBSET Nat /\ IsFiniteSet(Numbers(c))
<1> DEFINE K == {j \in DOMAIN row : row[j].cat = c}
<1>1. Numbers(c) = {row[k].num : k \in K} /\ IsFiniteSet(K)
  BY FS_Subset DEF Numbers, Rows
<1> DEFINE f == [k \in K |-> row[k].num]
<1>2. f \in Surjection(K, Numbers(c))
  BY <1>1 DEF Surjection
<1> HIDE DEF K, f
<1>3. IsFiniteSet(Numbers(c))
  BY <1>1, <1>2, FS_Surjection
<1> QED BY <1>3 DEF Rows, Numbers

LEMMA NextFollows ==
  ASSUME Rows, NEW c
  PROVE  /\ NextNumber(c) \in Nat
         /\ \/ NextNumber(c) = 1 /\ Numbers(c) = {}
            \/ \E n \in Nat : NextNumber(c) = n + 1 /\ \A m \in Numbers(c) : TextLeq(m, n)
<1>1. CASE Numbers(c) = {}
  BY <1>1 DEF NextNumber
<1>2. CASE Numbers(c) # {}
  <2> DEFINE n == CHOOSE n \in Numbers(c) : \A m \in Numbers(c) : TextLeq(m, n)
  <2>1. n \in Numbers(c) /\ \A m \in Numbers(c) : TextLeq(m, n)
    BY <1>2, NumbersFinite, LargestByText
  <2>2. NextNumber(c) = 1 + n
    BY <1>2 DEF NextNumber
  <2>3. n \in Nat
    BY <2>1, NumbersFinite
  <2> HIDE DEF n
  <2> QED BY <2>1, <2>2, <2>3
<1> QED BY <1>1, <1>2

(* A number that follows the others is free while they fit the padding.      *)
LEMMA FollowingIsFree ==
  ASSUME NEW r, Following(r), \A n \in Numbers(r.cat) : n \in Nat /\ n < Cut
  PROVE  ~Taken(r)
<1> SUFFICES ASSUME r.num \in Numbers(r.cat) PROVE FALSE
  BY DEF Taken, Numbers
<1>1. PICK n \in Nat : r.num = n + 1 /\ TextLeq(n + 1, n)
  BY DEF Following
<1>2. n + 1 < Cut /\ Cut \in Nat
  BY <1>1, ApiAssumption
<1>3. n < Cut /\ Lead(n + 1) = n + 1 /\ Lead(n) = n
  BY <1>2 DEF Lead
<1> QED BY <1>1, <1>3 DEF TextLeq

(* Does a step add no number to the category? *)
NoneAdded(c) == \A j \in DOMAIN row' : row'[j].cat = c => row'[j].num \in Numbers(c)

(* The table and the categories keep the requests that do not take the step. *)
LEMMA OthersReady ==
  ASSUME TableInv, NEW q \in Requests, Alone(q),
         \A o \in Requests \ {q} : pc[o] = "insert" /\ o \notin raced' =>
            o \notin raced /\ NoneAdded(loc[o].seen.cat)
  PROVE  \A o \in Requests \ {q} : Ready(o)'
<1> SUFFICES ASSUME NEW o \in Requests \ {q} PROVE Ready(o)'
  OBVIOUS
<1>1. pc'[o] = pc[o] /\ ask'[o] = ask[o] /\ loc'[o] = loc[o] /\ Ready(o)
  BY DEF Alone, TableInv
<1>2. CASE pc[o] = "insert"
  <2> DEFINE r == loc[o].seen
  <2>1. DOMAIN r = Columns /\ r.num \in Nat /\ Priced(r) /\ (o \notin raced => Following(r))
    BY <1>1, <1>2 DEF Ready
  <2>2. o \notin raced' => Following(r) /\ NoneAdded(r.cat)
    BY <1>2, <2>1
  <2>3. ASSUME o \notin raced' PROVE Following(r)'
    <3>1. r' = r /\ Numbers(r.cat)' \subseteq Numbers(r.cat)
      BY <1>1, <2>2, <2>3 DEF NoneAdded, Numbers
    <3> HIDE DEF r
    <3> QED BY <2>2, <2>3, <3>1 DEF Following
  <2> QED BY <1>1, <1>2, <2>1, <2>3 DEF Ready, Priced
<1>3. CASE pc[o] # "insert"
  BY <1>1, <1>3 DEF Ready
<1> QED BY <1>2, <1>3

(* A step after which q is about to write nothing new into the table.        *)
LEMMA Unready ==
  ASSUME NEW q \in Requests, pc'[q] \notin {"insert", "write"} PROVE Ready(q)'
  BY DEF Ready

-----------------------------------------------------------------------------
(* The steps that leave the table as it is.                                  *)
Still == UNCHANGED row /\ disturbed \subseteq disturbed'

LEMMA StillTable ==
  ASSUME TableInv, NEW q \in Requests, Alone(q), Still, raced \ {q} \subseteq raced', Ready(q)'
  PROVE  Rows' /\ \A o \in Requests : Ready(o)'
<1>1. Rows'
  BY DEF TableInv, Rows, Still
<1>2. \A o \in Requests \ {q} : Ready(o)'
  <2>1. \A c : NoneAdded(c)
    BY DEF Still, Numbers, NoneAdded
  <2> QED BY <2>1, OthersReady
<1> QED BY <1>1, <1>2

LEMMA CreateReady ==
  ASSUME TableInv, NEW q \in Requests, NEW b \in NewRows, Create(q, b)
  PROVE  Still /\ UNCHANGED raced /\ Ready(q)'
<1> DEFINE n == NextNumber(b.cat)
           r == Over(b, [num |-> n, budget |-> b.rate * b.head])
<1>1. Mapped /\ Whole(loc[q]) /\ Rows
  BY DEF TableInv, ImportInv, Served, Tallied
<1>2. /\ UNCHANGED <<row, raced, disturbed>> /\ pc' = [pc EXCEPT ![q] = "insert"]
      /\ loc' = [loc EXCEPT ![q] = [loc[q] EXCEPT !.num = n, !.seen = r]]
  BY DEF Create, tables, history, watch, Goto, Set
<1> HIDE DEF r
<1>3. pc'[q] = "insert" /\ loc'[q].seen = r
  BY <1>1, <1>2 DEF Mapped, Whole, Local0
<1>4. /\ DOMAIN r = Columns /\ r.num = n /\ r.budget = b.rate * b.head
      /\ r.cat = b.cat /\ r.rate = b.rate /\ r.head = b.head
  BY ApiAssumption DEF r, Over, Columns, Fields
<1>5. n \in Nat /\ Following(r)
  BY <1>1, <1>4, NextFollows DEF Following
<1>6. \A c : Numbers(c)' = Numbers(c)
  BY <1>2 DEF Numbers
<1>7. Priced(r)
  BY <1>4 DEF Priced
<1> HIDE DEF n
<1> QED BY <1>2, <1>3, <1>4, <1>5, <1>6, <1>7 DEF Still, Ready, Priced, Following

LEMMA NumberRowReady ==
  ASSUME TableInv, NEW q \in Requests, NumberRow(q)
  PROVE  Still /\ raced' = raced \ {q} /\ Ready(q)'
<1> DEFINE l == Line(q)
           n == NextNumber(l.cat)
           r == [cat |-> l.cat, num |-> n, text |-> l.text, rate |-> l.rate, head |-> l.head,
                 budget |-> l.rate * l.head,
                 status |-> IF l.status = "" THEN "OPEN" ELSE l.status]
<1>1. Mapped /\ Whole(loc[q]) /\ Rows
  BY DEF TableInv, ImportInv, Served, Tallied
<1>2. /\ UNCHANGED <<row, disturbed>> /\ raced' = raced \ {q}
      /\ pc' = [pc EXCEPT ![q] = "insert"]
      /\ loc' = [loc EXCEPT ![q] = [loc[q] EXCEPT !.seen = r]]
  BY DEF NumberRow, tables, history, Goto, Set
<1>3. pc'[q] = "insert" /\ loc'[q].seen = r
  BY <1>1, <1>2 DEF Mapped, Whole, Local0
<1>4. DOMAIN r = Columns /\ Priced(r) /\ r.num = n /\ r.cat = l.cat
  BY DEF Columns, Fields, Priced
<1> HIDE DEF r, l
<1>5. n \in Nat /\ Following(r)
  BY <1>1, <1>4, NextFollows DEF Following
<1>6. \A c : Numbers(c)' = Numbers(c)
  BY <1>2 DEF Numbers
<1> QED BY <1>2, <1>3, <1>4, <1>5, <1>6 DEF Still, Ready, Priced, Following

LEMMA ReadRowReady ==
  ASSUME TableInv, NEW q \in Requests, NEW k, NEW b \in Bodies, ReadRow(q, k, b)
  PROVE  Still /\ UNCHANGED raced /\ Ready(q)'
<1>1. Mapped
  BY DEF TableInv, ImportInv
<1>2. pc'[q] \in {"write", "done"} /\ ask'[q].body = b
  BY <1>1 DEF ReadRow, Goto, Finish, Mapped
<1> QED BY <1>2 DEF ReadRow, tables, history, watch, Still, Ready

LEMMA IdleReady ==
  ASSUME TableInv, NEW q \in Requests, NEW k, NEW m, NEW f, NEW r,
         \/ RecordCreated(q) \/ LogChanges(q) \/ Tell(q) \/ FindForDelete(q, k) \/ Mark(q, m)
         \/ Upload(q, f) \/ FailRow(q) \/ FindRow(q) \/ LogRow(q) \/ TellAffected(q)
         \/ BeginRead(q, r) \/ Statement(q) \/ AnswerRead(q) \/ Throw(q)
  PROVE  Still /\ UNCHANGED raced /\ Ready(q)'
<1>1. UNCHANGED <<row, raced>> /\ disturbed \subseteq disturbed'
  BY DEF RecordCreated, LogChanges, Tell, FindForDelete, Mark, Upload, FailRow, FindRow, LogRow,
         TellAffected, BeginRead, Statement, AnswerRead, Throw, tables, history, watch
<1>2. Mapped
  BY DEF TableInv, ImportInv
<1>3. pc'[q] \notin {"insert", "write"}
  BY <1>2 DEF RecordCreated, LogChanges, Tell, FindForDelete, Mark, Upload, FailRow, FindRow,
              LogRow, NextRow, TellAffected, BeginRead, Statement, AnswerRead, Throw,
              Goto, Finish, Mapped
<1> QED BY <1>1, <1>3, Unready DEF Still

-----------------------------------------------------------------------------
(* The steps that write the table.                                           *)
Kept == Rows' /\ \A o \in Requests : Ready(o)'

LEMMA AddTable ==
  ASSUME TableInv, NEW q \in Requests, NEW k, Alone(q), Add(q, k, loc[q].seen),
         pc[q] = "insert", UNCHANGED disturbed, pc'[q] \notin {"insert", "write"}
  PROVE  Kept
<1> DEFINE r == loc[q].seen
<1>1. Rows /\ DOMAIN r = Columns /\ r.num \in Nat /\ Priced(r)
  BY DEF TableInv, Ready
<1> HIDE DEF r
<1>2. /\ DOMAIN row' = DOMAIN row \cup {k}
      /\ \A j \in DOMAIN row : row'[j] = row[j]
      /\ k \notin DOMAIN row => row'[k] = r
      /\ raced' = raced \cup {o \in Requests \ {q} : pc[o] = "insert" /\ loc[o].seen.cat = r.cat}
  BY DEF Add, Over, r
<1>3. Rows'
  <2>1. IsFiniteSet(DOMAIN row \cup {k})
    BY <1>1, FS_AddElement DEF Rows
  <2>2. \A j \in DOMAIN row' : row'[j] = r \/ (j \in DOMAIN row /\ row'[j] = row[j])
    BY <1>2
  <2>3. \A j \in DOMAIN row' :
          /\ DOMAIN row'[j] = Columns /\ row'[j].num \in Nat
          /\ Priced(row'[j]) \/ <<j, "budget">> \in disturbed
    BY <1>1, <2>2 DEF Rows
  <2> QED BY <1>2, <2>1, <2>3 DEF Rows, Priced
<1>4. ASSUME NEW o \in Requests \ {q}, pc[o] = "insert", o \notin raced'
      PROVE  o \notin raced /\ NoneAdded(loc[o].seen.cat)
  BY <1>2, <1>4 DEF NoneAdded, Numbers
<1>5. \A o \in Requests \ {q} : Ready(o)'
  BY <1>4, OthersReady
<1> QED BY <1>3, <1>5, Unready DEF Kept

(* A row that changes keeps its category and its number.                     *)
LEMMA RewriteTable ==
  ASSUME TableInv, NEW q \in Requests, Alone(q), NEW k \in DOMAIN row, NEW d,
         row' = [row EXCEPT ![k] = Over(d, row[k])], DOMAIN d \subseteq Fields,
         disturbed \subseteq disturbed', UNCHANGED raced, pc'[q] \notin {"insert", "write"},
         Priced(row[k]) => Priced(Over(d, row[k])) \/ <<k, "budget">> \in disturbed'
  PROVE  Kept
<1> DEFINE r == Over(d, row[k])
<1>1. Rows
  BY DEF TableInv
<1>2. DOMAIN r = Columns /\ r.num = row[k].num /\ r.cat = row[k].cat
  BY <1>1 DEF Over, Columns, Fields, Rows
<1> HIDE DEF r
<1>3. /\ DOMAIN row' = DOMAIN row /\ row'[k] = r
      /\ \A j \in DOMAIN row \ {k} : row'[j] = row[j]
  BY DEF r
<1>4. Priced(r) \/ <<k, "budget">> \in disturbed'
  BY <1>1 DEF r, Rows
<1>5. Rows'
  <2>1. ASSUME NEW j \in DOMAIN row
        PROVE  /\ DOMAIN row'[j] = Columns /\ row'[j].num \in Nat
               /\ Priced(row'[j]) \/ <<j, "budget">> \in disturbed'
    BY <1>1, <1>2, <1>3, <1>4 DEF Rows
  <2> QED BY <1>1, <1>3, <2>1 DEF Rows, Priced
<1>6. \A c : NoneAdded(c)
  BY <1>2, <1>3 DEF NoneAdded, Numbers
<1>7. \A o \in Requests \ {q} : Ready(o)'
  BY <1>6, OthersReady
<1> QED BY <1>5, <1>7, Unready DEF Kept

LEMMA WriteTable ==
  ASSUME TableInv, NEW q \in Requests, Alone(q), Write(q)
  PROVE  Kept
<1> DEFINE k == loc[q].key
           b == ask[q].body
           seen == loc[q].seen
           d == Data(q)
           priced == DOMAIN b \cap {"rate", "head"} # {}
<1>1. Mapped /\ b \in Bodies /\ DOMAIN b \subseteq Fields
  BY ApiAssumption DEF TableInv, ImportInv, Ready, Write
<1>2. pc'[q] \notin {"insert", "write"} /\ UNCHANGED raced
  BY <1>1 DEF Write, Goto, Finish, Mapped
<1>3. CASE k \in DOMAIN row /\ row' = [row EXCEPT ![k] = Over(d, @)]
           /\ disturbed' = disturbed \cup ({k} \X Unexplained(q))
  <2>1. DOMAIN d \subseteq Fields
    BY <1>1 DEF Data, Fields
  <2>2. /\ priced => "budget" \in DOMAIN d /\ d.budget = Budget(b, seen)
        /\ \A f \in {"rate", "head"} :
             (f \in DOMAIN d <=> f \in DOMAIN b) /\ (f \in DOMAIN b => d[f] = b[f])
        /\ ~priced /\ "budget" \notin DOMAIN b => "budget" \notin DOMAIN d
    BY DEF Data
  <2> HIDE DEF d
  <2>3. ASSUME Priced(row[k]), "budget" \notin Unexplained(q) PROVE Priced(Over(d, row[k]))
    <3>1. DOMAIN row[k] = Columns
      BY <1>3 DEF TableInv, Rows
    <3>2. /\ Over(d, row[k]).rate = Or(b, "rate", row[k].rate)
          /\ Over(d, row[k]).head = Or(b, "head", row[k].head)
      BY <2>2, <3>1 DEF Over, Or, Columns, Fields
    <3>3. CASE priced
      <4>1. \A f \in {"rate", "head"} : f \notin DOMAIN b => row[k][f] = seen[f]
        BY <2>3, <3>3 DEF Unexplained
      <4>2. Over(d, row[k]).budget = Budget(b, seen)
        BY <2>2, <3>1, <3>3 DEF Over, Columns, Fields
      <4> QED BY <3>2, <4>1, <4>2 DEF Priced, Budget, Or
    <3>4. CASE ~priced
      <4>1. "budget" \notin DOMAIN b
        BY <2>3, <3>4 DEF Unexplained
      <4>2. Over(d, row[k]).budget = row[k].budget
        BY <2>2, <3>1, <3>4, <4>1 DEF Over, Columns, Fields
      <4> QED BY <2>3, <3>2, <3>4, <4>2 DEF Priced, Or
    <3> QED BY <3>3, <3>4
  <2>4. "budget" \in Unexplained(q) => <<k, "budget">> \in disturbed'
    BY <1>3
  <2> QED BY <1>2, <1>3, <2>1, <2>3, <2>4, RewriteTable
<1>4. CASE UNCHANGED <<row, disturbed>>
  BY <1>2, <1>4, StillTable, Unready DEF Still, Kept
<1> QED BY <1>3, <1>4 DEF Write

LEMMA ChangeRowTable ==
  ASSUME TableInv, NEW q \in Requests, Alone(q), ChangeRow(q)
  PROVE  Kept
<1>1. Mapped
  BY DEF TableInv, ImportInv
<1>2. pc'[q] \notin {"insert", "write"} /\ UNCHANGED raced
  BY <1>1 DEF ChangeRow, NextRow, Goto, Mapped
<1>3. CASE UNCHANGED <<row, disturbed>>
  BY <1>2, <1>3, StillTable, Unready DEF Still, Kept
<1>4. ASSUME NEW k \in WithId(Line(q).id), NEW d, DOMAIN d \subseteq Fields,
             row' = [row EXCEPT ![k] = Over(d, @)],
             disturbed' = disturbed \cup ({k} \X (DOMAIN d \cup {"budget"}))
      PROVE  Kept
  BY <1>2, <1>4, RewriteTable DEF WithId
<1>5. CASE ~UNCHANGED <<row, disturbed>>
  <2> DEFINE r == Line(q)
             given == {f \in {"rate", "head"} : r[f] > 0} \cup {f \in {"status"} : r[f] # ""}
             d == [f \in {"text"} \cup given |->
                     IF f = "text" /\ r.text = "" THEN loc[q].seen.text ELSE r[f]]
  <2>1. PICK k \in WithId(r.id) :
          /\ row' = [row EXCEPT ![k] = Over(d, @)]
          /\ disturbed' = disturbed \cup ({k} \X (DOMAIN d \cup {"budget"}))
    BY <1>5 DEF ChangeRow
  <2>2. DOMAIN d \subseteq Fields
    BY DEF Fields
  <2> QED BY <2>1, <2>2, <1>4
<1> QED BY <1>3, <1>5

LEMMA DeleteTable ==
  ASSUME TableInv, NEW q \in Requests, Alone(q), Delete(q)
  PROVE  Kept
<1>1. Rows /\ Mapped
  BY DEF TableInv, ImportInv
<1>2. pc'[q] = "done" /\ UNCHANGED <<raced, disturbed>>
  BY <1>1 DEF Delete, Finish, history, Mapped
<1>3. DOMAIN row' \subseteq DOMAIN row /\ \A j \in DOMAIN row' : row'[j] = row[j]
  BY DEF Delete
<1>4. Rows'
  <2>1. IsFiniteSet(DOMAIN row')
    BY <1>1, <1>3, FS_Subset DEF Rows
  <2> QED BY <1>1, <1>2, <1>3, <2>1 DEF Rows, Priced
<1>5. \A c : NoneAdded(c)
  BY <1>3 DEF NoneAdded, Numbers
<1>6. \A o \in Requests \ {q} : Ready(o)'
  BY <1>2, <1>5, OthersReady
<1> QED BY <1>2, <1>4, <1>6, Unready DEF Kept

LEMMA InsertTable ==
  ASSUME TableInv, NEW q \in Requests, Alone(q), Insert(q) \/ InsertRow(q)
  PROVE  Kept
<1>1. Mapped
  BY DEF TableInv, ImportInv
<1>2. pc[q] = "insert" /\ pc'[q] \notin {"insert", "write"} /\ UNCHANGED disturbed
  BY <1>1 DEF Insert, InsertRow, NextRow, Goto, Finish, Mapped
<1>3. CASE Add(q, Fresh, loc[q].seen)
  BY <1>2, <1>3, AddTable
<1>4. CASE UNCHANGED <<row, raced>>
  BY <1>2, <1>4, StillTable, Unready DEF Still, Kept
<1> QED BY <1>3, <1>4 DEF Insert, InsertRow, watch

-----------------------------------------------------------------------------
LEMMA TableInitInv == Init => TableInv
<1> SUFFICES ASSUME Init PROVE TableInv
  OBVIOUS
<1>1. Rows
  BY ApiAssumption DEF Init, Rows, Priced
<1>2. \A q \in Requests : Ready(q)
  BY DEF Init, Ready
<1> QED BY <1>1, <1>2, ImportInitInv DEF TableInv

LEMMA TableNextInv == TableInv /\ [Next]_vars => TableInv'
<1> SUFFICES ASSUME TableInv, [Next]_vars PROVE TableInv'
  OBVIOUS
<1>0. ImportInv /\ ImportInv'
  BY ImportNextInv DEF TableInv
<1>1. CASE UNCHANGED vars
  <2>1. Rows' /\ \A q \in Requests : Ready(q)'
    <3>1. UNCHANGED <<row, disturbed, pc, ask, loc, raced>>
      BY <1>1 DEF vars, tables, history, watch
    <3>2. \A c : Numbers(c)' = Numbers(c)
      BY <3>1 DEF Numbers
    <3> QED BY <3>1, <3>2 DEF TableInv, Rows, Ready, Following, Priced
  <2> QED BY <1>0, <2>1 DEF TableInv
<1>2. CASE Next
  <2>1. PICK q \in Requests : Next!(q)
    BY <1>2 DEF Next
  <2>2. Alone(q)
    BY <1>0, <2>1, StartServed, StatementServed, UploadServed, RowServed, FindRowServed,
       TellAffectedServed, ThrowServed
  <2>3. CASE Still /\ raced \ {q} \subseteq raced' /\ Ready(q)'
    BY <1>0, <2>2, <2>3, StillTable DEF TableInv
  <2>4. CASE Kept
    BY <1>0, <2>4 DEF TableInv, Kept
  <2>5. CASE NumberRow(q) \/ \E b \in NewRows : Create(q, b)
    BY <2>3, <2>5, CreateReady, NumberRowReady
  <2>6. CASE \E k \in DOMAIN base : FindForDelete(q, k) \/ \E b \in Bodies : ReadRow(q, k, b)
    BY <2>3, <2>6, ReadRowReady, IdleReady
  <2>7. CASE \/ Insert(q) \/ InsertRow(q) \/ Write(q) \/ ChangeRow(q) \/ Delete(q)
    BY <2>2, <2>4, <2>7, InsertTable, WriteTable, ChangeRowTable, DeleteTable
  <2>8. CASE \/ RecordCreated(q) \/ LogChanges(q) \/ Tell(q) \/ FailRow(q) \/ FindRow(q)
             \/ LogRow(q) \/ TellAffected(q) \/ Statement(q) \/ AnswerRead(q) \/ Throw(q)
    BY <2>3, <2>8, IdleReady
  <2>9. CASE \/ \E m \in Categories \cup {"all"} : Mark(q, {n \in unread : m \in {n[1], "all"}})
             \/ \E f \in Files : Upload(q, f)
             \/ \E r \in Reads : BeginRead(q, r)
    BY <2>3, <2>9, IdleReady
  <2> QED BY <2>1, <2>5, <2>6, <2>7, <2>8, <2>9
<1> QED BY <1>1, <1>2

(* The inductive invariant of the table: every row has a natural number for  *)
(* its id and an explained budget, and what a request is about to insert     *)
(* carries a number that follows those of its category.                      *)
THEOREM TableInvariance == Spec => []TableInv
  BY TableInitInv, TableNextInv, PTL DEF Spec

(* For any requests and table: a number is refused only if another request   *)
(* took it in between or the padded width is used up.                        *)
THEOREM NumbersAreFree == Spec => []NumberIsFree
<1>1. TableInv => NumberIsFree
  <2> SUFFICES ASSUME TableInv, NEW q \in Requests, pc[q] = "insert", q \notin raced,
                      \A n \in Numbers(loc[q].seen.cat) : n < Cut
               PROVE  ~Taken(loc[q].seen)
    BY DEF NumberIsFree
  <2>1. Rows /\ Following(loc[q].seen)
    BY DEF TableInv, Ready
  <2>2. \A n \in Numbers(loc[q].seen.cat) : n \in Nat
    BY <2>1, NumbersFinite
  <2> QED BY <2>1, <2>2, FollowingIsFree
<1> QED BY <1>1, TableInvariance, PTL

(* For any requests and table: a budget is rate times headcount unless it    *)
(* was given, left by an import, or computed from a value changed since.     *)
THEOREM BudgetsExplained == Spec => []BudgetExplained
<1>1. TableInv => BudgetExplained
  BY DEF TableInv, Rows, Priced, BudgetExplained
<1> QED BY <1>1, TableInvariance, PTL

-----------------------------------------------------------------------------
(* The log of changes.  A key is used once, and has no record of a field     *)
(* before its row is there.                                                  *)
Tracked == Fields \ {"budget"}
Sent    == UNION {{b[f] : f \in DOMAIN b} : b \in Bodies}
Values  == Sent \cup {"created", "imported"}

Log ==
  /\ DOMAIN row \subseteq DOMAIN base /\ DOMAIN base \subseteq Keys
  /\ changes \in [Keys -> [Logged -> Seq(Values)]]
  /\ \A k \in Keys \ DOMAIN base : \A f \in Tracked : changes[k][f] = <<>>

(* A request between the write of its changes and their records.             *)
Owes(q, k, f) == pc[q] = "log" /\ loc[q].key = k /\ f \in DOMAIN ask[q].body

Owing(q) ==
  /\ pc[q] \in {"write", "log"} => ask[q].body \in Bodies
  /\ pc[q] = "log" => loc[q].key \in DOMAIN base

(* The field of a row is what the log says, or what a request that owes the  *)
(* record has written.                                                       *)
Explained(k, f) ==
  \/ row[k][f] = Latest(k, f)
  \/ <<k, f>> \in disturbed
  \/ \E q \in Requests : Owes(q, k, f) /\ f \in Diff(q)

Stands(q, k, f) == Owes(q, k, f) => row[k][f] = ask[q].body[f] \/ <<k, f>> \in disturbed

LogInv ==
  /\ TableInv /\ Log
  /\ \A q \in Requests : Owing(q)
  /\ \A k \in DOMAIN row, f \in Tracked :
       Explained(k, f) /\ \A q \in Requests : Stands(q, k, f)

LEMMA RecordKeeps ==
  ASSUME Log, NEW k \in Keys, NEW new, Record(k, new), \A f \in DOMAIN new : new[f] \in Values
  PROVE  /\ changes' \in [Keys -> [Logged -> Seq(Values)]]
         /\ \A j \in Keys, f \in Logged :
              changes'[j][f] = IF j = k /\ f \in DOMAIN new THEN Append(changes[j][f], new[f])
                               ELSE changes[j][f]
<1> DEFINE r == [f \in Logged |-> IF f \in DOMAIN new THEN Append(changes[k][f], new[f])
                                  ELSE changes[k][f]]
<1>1. changes \in [Keys -> [Logged -> Seq(Values)]] /\ changes' = [changes EXCEPT ![k] = r]
  BY DEF Log, Record
<1>2. ASSUME NEW f \in Logged PROVE r[f] \in Seq(Values)
  <2>1. CASE f \in DOMAIN new
    BY <1>1, <2>1, AppendProperties
  <2>2. CASE f \notin DOMAIN new
    BY <1>1, <2>2
  <2> QED BY <2>1, <2>2
<1>3. \A f \in Logged : r[f] = IF f \in DOMAIN new THEN Append(changes[k][f], new[f])
                               ELSE changes[k][f]
  OBVIOUS
<1>4. r \in [Logged -> Seq(Values)]
  BY <1>2
<1> HIDE DEF r
<1> QED BY <1>1, <1>3, <1>4

(* A field of a row stays explained if it is given up, if nothing changes    *)
(* for it, or if the step explains it.                                       *)
Untouched(q, k, f) ==
  /\ k \in DOMAIN row /\ row'[k][f] = row[k][f] /\ Latest(k, f)' = Latest(k, f)
  /\ ~(Owes(q, k, f) /\ f \in Diff(q)) /\ ~Owes(q, k, f)'

LEMMA LogKept ==
  ASSUME LogInv, TableInv', NEW q \in Requests, Alone(q), Log', Owing(q)',
         DOMAIN base \subseteq DOMAIN base', disturbed \subseteq disturbed',
         \A k \in DOMAIN row', f \in Tracked :
           \/ <<k, f>> \in disturbed'
           \/ Untouched(q, k, f)
           \/ Explained(k, f)' /\ \A o \in Requests : Stands(o, k, f)'
  PROVE  LogInv'
<1>1. ASSUME NEW o \in Requests \ {q}
      PROVE  /\ Owing(o)' /\ Diff(o)' = Diff(o)
             /\ \A k, f : Owes(o, k, f)' <=> Owes(o, k, f)
  <2>1. pc'[o] = pc[o] /\ ask'[o] = ask[o] /\ loc'[o] = loc[o] /\ Owing(o)
    BY DEF Alone, LogInv
  <2> QED BY <2>1 DEF Owing, Diff, Owes
<1>2. ASSUME NEW k \in DOMAIN row', NEW f \in Tracked
      PROVE  Explained(k, f)' /\ \A o \in Requests : Stands(o, k, f)'
  <2>1. CASE <<k, f>> \in disturbed'
    BY <2>1 DEF Explained, Stands
  <2>2. CASE Untouched(q, k, f)
    <3>1. k \in DOMAIN row /\ row'[k][f] = row[k][f] /\ ~Owes(q, k, f)'
      BY <2>2 DEF Untouched
    <3>2. Explained(k, f) /\ \A o \in Requests : Stands(o, k, f)
      BY <3>1 DEF LogInv
    <3>3. Explained(k, f)'
      <4>1. CASE row[k][f] = Latest(k, f)
        BY <2>2, <4>1 DEF Untouched, Explained
      <4>2. CASE <<k, f>> \in disturbed
        BY <4>2 DEF Explained
      <4>3. CASE \E o \in Requests : Owes(o, k, f) /\ f \in Diff(o)
        <5>1. PICK o \in Requests : Owes(o, k, f) /\ f \in Diff(o)
          BY <4>3
        <5>2. o # q
          BY <2>2, <5>1 DEF Untouched
        <5> QED BY <1>1, <5>1, <5>2 DEF Explained
      <4> QED BY <3>2, <4>1, <4>2, <4>3 DEF Explained
    <3>4. ASSUME NEW o \in Requests \ {q} PROVE Stands(o, k, f)'
      <4>1. ask'[o] = ask[o] /\ (Owes(o, k, f)' => Owes(o, k, f)) /\ Stands(o, k, f)
        BY <1>1, <3>2 DEF Alone
      <4> QED BY <3>1, <4>1 DEF Stands
    <3>5. Stands(q, k, f)'
      BY <3>1 DEF Stands
    <3> QED BY <3>3, <3>4, <3>5
  <2>3. CASE Explained(k, f)' /\ \A o \in Requests : Stands(o, k, f)'
    BY <2>3
  <2> QED BY <2>1, <2>2, <2>3
<1> QED BY <1>1, <1>2 DEF LogInv

(* A step of a request that owes no record, before and after, and touches    *)
(* neither the table nor the log.                                            *)
LEMMA QuietLog ==
  ASSUME LogInv, TableInv', NEW q \in Requests, Alone(q), Owing(q)',
         UNCHANGED <<row, base, changes>>, disturbed \subseteq disturbed',
         pc[q] # "log", pc'[q] # "log"
  PROVE  LogInv'
<1>1. Log'
  BY DEF LogInv, Log
<1>2. \A k \in DOMAIN row', f \in Tracked : Untouched(q, k, f)
  BY DEF Untouched, Latest, Owes
<1> QED BY <1>1, <1>2, LogKept

LEMMA SilentLog ==
  ASSUME LogInv, TableInv', NEW q \in Requests, Alone(q), NEW k, NEW b, NEW m, NEW f, NEW r,
         \/ b \in NewRows /\ Create(q, b)
         \/ b \in Bodies /\ ReadRow(q, k, b)
         \/ FindForDelete(q, k) \/ Mark(q, m) \/ Upload(q, f) \/ BeginRead(q, r)
         \/ Tell(q) \/ FailRow(q) \/ FindRow(q) \/ NumberRow(q) \/ TellAffected(q)
         \/ Statement(q) \/ AnswerRead(q)
  PROVE  LogInv'
<1>1. Mapped
  BY DEF LogInv, TableInv, ImportInv
<1>2. UNCHANGED <<row, base, changes, disturbed>> /\ pc[q] # "log"
  BY DEF Create, ReadRow, FindForDelete, Mark, Upload, BeginRead, Tell, FailRow, FindRow,
         NumberRow, TellAffected, Statement, AnswerRead, tables, history, watch
<1>3. pc'[q] \notin {"write", "log"} \/ (b \in Bodies /\ ReadRow(q, k, b))
  BY <1>1 DEF Create, FindForDelete, Mark, Upload, BeginRead, Tell, FailRow, FindRow,
              NumberRow, NextRow, TellAffected, Statement, AnswerRead, Goto, Finish, Mapped
<1>4. b \in Bodies /\ ReadRow(q, k, b) => pc'[q] # "log" /\ ask'[q].body \in Bodies
  BY <1>1 DEF ReadRow, Goto, Finish, Mapped
<1>5. Owing(q)' /\ pc'[q] # "log"
  BY <1>3, <1>4 DEF Owing
<1> QED BY <1>2, <1>5, QuietLog

(* A throw between the write and its records gives their fields up.          *)
LEMMA ThrowLog ==
  ASSUME LogInv, TableInv', NEW q \in Requests, Alone(q), Throw(q)
  PROVE  LogInv'
<1>1. UNCHANGED <<row, base, changes>> /\ disturbed \subseteq disturbed'
  BY DEF Throw, tables
<1>2. pc'[q] = "done" /\ Owing(q)'
  BY DEF Throw, Finish, Owing, LogInv, TableInv, ImportInv, Mapped
<1>3. CASE pc[q] # "log"
  BY <1>1, <1>2, <1>3, QuietLog
<1>4. CASE pc[q] = "log"
  <2>1. \A k, f : Owes(q, k, f) => <<k, f>> \in disturbed'
    BY <1>4 DEF Throw, Owes
  <2>2. \A k \in DOMAIN row', f \in Tracked :
          <<k, f>> \in disturbed' \/ Untouched(q, k, f)
    BY <1>1, <1>2, <2>1 DEF Untouched, Latest, Owes
  <2>3. Log'
    BY <1>1 DEF LogInv, Log
  <2> QED BY <1>1, <1>2, <2>2, <2>3, LogKept
<1> QED BY <1>3, <1>4

(* A new row is its own origin: nobody owes a record of it, and the log has  *)
(* none.                                                                     *)
LEMMA AddLog ==
  ASSUME LogInv, TableInv', NEW q \in Requests, Alone(q), Insert(q) \/ InsertRow(q)
  PROVE  LogInv'
<1>1. Mapped /\ Log /\ \A o \in Requests : Owing(o)
  BY DEF LogInv, TableInv, ImportInv
<1>2. pc[q] = "insert" /\ UNCHANGED <<changes, disturbed>>
  BY DEF Insert, InsertRow
<1>3. pc'[q] \notin {"write", "log"} /\ Owing(q)'
  BY <1>1 DEF Insert, InsertRow, NextRow, Goto, Finish, Owing, Mapped
<1>4. CASE UNCHANGED <<row, base>>
  BY <1>2, <1>3, <1>4, QuietLog
<1>5. CASE Add(q, Fresh, loc[q].seen)
  <2>1. Fresh \in Keys \ DOMAIN base
    BY <1>1, <1>5 DEF Add, Fresh, Log
  <2>2. PICK n : n = Fresh
    OBVIOUS
  <2>3. /\ n \in Keys \ DOMAIN base
        /\ DOMAIN row' = DOMAIN row \cup {n} /\ DOMAIN base' = DOMAIN base \cup {n}
        /\ row'[n] = base'[n]
        /\ \A k \in DOMAIN row : row'[k] = row[k] /\ base'[k] = base[k]
    BY <1>1, <1>5, <2>1, <2>2 DEF Add, Over, Log
  <2>4. Log'
    BY <1>1, <1>2, <2>3 DEF Log
  <2>5. ASSUME NEW k \in DOMAIN row, NEW f \in Tracked PROVE Untouched(q, k, f)
    BY <1>2, <1>3, <2>3 DEF Untouched, Latest, Owes
  <2>6. ASSUME NEW f \in Tracked
        PROVE  Explained(n, f)' /\ \A o \in Requests : Stands(o, n, f)'
    <3>1. changes'[n][f] = <<>>
      BY <1>1, <1>2, <2>3 DEF Log
    <3>2. Explained(n, f)'
      BY <2>3, <3>1 DEF Explained, Latest
    <3>3. \A o \in Requests : ~Owes(o, n, f)'
      BY <1>1, <1>3, <2>3 DEF Owes, Owing, Alone
    <3> QED BY <3>2, <3>3 DEF Stands
  <2> QED BY <1>2, <1>3, <2>3, <2>4, <2>5, <2>6, LogKept
<1> QED BY <1>4, <1>5 DEF Insert, InsertRow

LEMMA DeleteLog ==
  ASSUME LogInv, TableInv', NEW q \in Requests, Alone(q), Delete(q)
  PROVE  LogInv'
<1> DEFINE k == loc[q].key
<1>1. Mapped /\ Log
  BY DEF LogInv, TableInv, ImportInv
<1>2. pc[q] = "delete" /\ pc'[q] = "done" /\ UNCHANGED <<base, disturbed>> /\ Owing(q)'
  BY <1>1 DEF Delete, Finish, history, Owing, Mapped
<1>3. CASE UNCHANGED <<row, changes>>
  BY <1>2, <1>3, QuietLog
<1>4. CASE /\ k \in DOMAIN row /\ row' = [j \in DOMAIN row \ {k} |-> row[j]]
           /\ changes' = [changes EXCEPT ![k] = Unlogged]
  <2>1. Unlogged \in [Logged -> Seq(Values)] /\ \A f \in Logged : Unlogged[f] = <<>>
    BY DEF Unlogged
  <2>2. Log'
    <3>1. \A f \in Tracked : f \in Logged
      BY DEF Tracked, Logged
    <3>2. changes' \in [Keys -> [Logged -> Seq(Values)]]
      BY <1>1, <1>4, <2>1 DEF Log
    <3>3. \A j \in Keys \ DOMAIN base' : changes'[j] = changes[j]
      BY <1>1, <1>2, <1>4 DEF Log
    <3> QED BY <1>1, <1>2, <1>4, <3>1, <3>2, <3>3 DEF Log
  <2>3. ASSUME NEW j \in DOMAIN row', NEW f \in Tracked PROVE Untouched(q, j, f)
    <3>1. j \in DOMAIN row /\ j # k /\ row'[j] = row[j] /\ changes'[j] = changes[j]
      BY <1>1, <1>4 DEF Log
    <3> QED BY <1>2, <3>1 DEF Untouched, Latest, Owes
  <2> QED BY <1>2, <2>2, <2>3, LogKept
<1> QED BY <1>3, <1>4 DEF Delete

(* The record of a creation or of an import is of no field.                  *)
LEMMA RecordLog ==
  ASSUME LogInv, TableInv', NEW q \in Requests, Alone(q), RecordCreated(q) \/ LogRow(q)
  PROVE  LogInv'
<1>1. Mapped /\ Log
  BY DEF LogInv, TableInv, ImportInv
<1>2. pc[q] # "log" /\ pc'[q] \notin {"write", "log"}
      /\ UNCHANGED <<row, base, disturbed>> /\ Owing(q)'
  BY <1>1 DEF RecordCreated, LogRow, NextRow, Goto, Finish, history, Owing, Mapped
<1>3. CASE UNCHANGED changes
  BY <1>2, <1>3, QuietLog
<1>4. ASSUME loc[q].key \in DOMAIN row, NEW v \in {"created", "imported"},
             Record(loc[q].key, [f \in {"-"} |-> v])
      PROVE  LogInv'
  <2>0. v \in Values
    BY DEF Values
  <2>1. loc[q].key \in Keys
    BY <1>1, <1>4 DEF Log
  <2>2. /\ changes' \in [Keys -> [Logged -> Seq(Values)]]
        /\ \A j \in Keys, f \in Logged : f # "-" => changes'[j][f] = changes[j][f]
    BY <1>1, <1>4, <2>0, <2>1, RecordKeeps
  <2>3. \A f \in Tracked : f \in Logged /\ f # "-"
    BY DEF Tracked, Logged, Fields
  <2>4. Log'
    BY <1>1, <1>2, <2>2, <2>3 DEF Log
  <2>5. \A j \in DOMAIN row', f \in Tracked : Untouched(q, j, f)
    BY <1>1, <1>2, <2>2, <2>3 DEF Untouched, Latest, Owes, Log
  <2> QED BY <1>2, <2>4, <2>5, LogKept
<1> QED BY <1>3, <1>4 DEF RecordCreated, LogRow

(* A row takes the values of d; the fields of d that are not given up are    *)
(* explained by the step.                                                    *)
LEMMA RewriteLog ==
  ASSUME LogInv, TableInv', NEW q \in Requests, Alone(q), Owing(q)', NEW k \in DOMAIN row, NEW d,
         row' = [row EXCEPT ![k] = Over(d, row[k])], UNCHANGED <<base, changes>>,
         disturbed \subseteq disturbed', pc[q] # "log",
         \A f \in Tracked :
           \/ <<k, f>> \in disturbed'
           \/ f \notin DOMAIN d /\ ~Owes(q, k, f)'
           \/ Explained(k, f)' /\ \A o \in Requests : Stands(o, k, f)',
         pc'[q] = "log" => loc'[q].key = k
  PROVE  LogInv'
<1>1. Rows /\ Log
  BY DEF LogInv, TableInv
<1>2. Log'
  BY <1>1 DEF Log
<1>3. ASSUME NEW j \in DOMAIN row', NEW f \in Tracked, j # k
      PROVE  Untouched(q, j, f)
  BY <1>3 DEF Untouched, Latest, Owes
<1>4. ASSUME NEW f \in Tracked, f \notin DOMAIN d, ~Owes(q, k, f)'
      PROVE  Untouched(q, k, f)
  <2>1. row'[k][f] = row[k][f]
    BY <1>1, <1>4 DEF Rows, Over, Tracked, Columns
  <2> QED BY <1>4, <2>1 DEF Untouched, Latest, Owes
<1> QED BY <1>2, <1>3, <1>4, LogKept

LEMMA ChangeRowLog ==
  ASSUME LogInv, TableInv', NEW q \in Requests, Alone(q), ChangeRow(q)
  PROVE  LogInv'
<1>1. Mapped
  BY DEF LogInv, TableInv, ImportInv
<1>2. pc[q] # "log" /\ UNCHANGED <<base, changes>>
  BY DEF ChangeRow
<1>3. pc'[q] \notin {"write", "log"} /\ Owing(q)'
  BY <1>1 DEF ChangeRow, NextRow, Goto, Owing, Mapped
<1>4. CASE UNCHANGED <<row, disturbed>>
  BY <1>2, <1>3, <1>4, QuietLog
<1>5. CASE ~UNCHANGED <<row, disturbed>>
  <2> DEFINE r == Line(q)
             given == {f \in {"rate", "head"} : r[f] > 0} \cup {f \in {"status"} : r[f] # ""}
             new == [f \in {"text"} \cup given |->
                       IF f = "text" /\ r.text = "" THEN loc[q].seen.text ELSE r[f]]
  <2>1. PICK k \in WithId(r.id) : /\ row' = [row EXCEPT ![k] = Over(new, @)]
                                  /\ disturbed' = disturbed \cup ({k} \X (DOMAIN new \cup {"budget"}))
    BY <1>5 DEF ChangeRow
  <2>2. PICK d : d = new
    OBVIOUS
  <2>3. row' = [row EXCEPT ![k] = Over(d, row[k])] /\ k \in DOMAIN row
        /\ disturbed \subseteq disturbed' /\ \A f \in DOMAIN d : <<k, f>> \in disturbed'
    BY <2>1, <2>2 DEF WithId
  <2>4. \A f : ~Owes(q, k, f)'
    BY <1>3 DEF Owes
  <2> QED BY <1>2, <1>3, <2>3, <2>4, RewriteLog
<1> QED BY <1>4, <1>5

(* The write: a field of the body that is stored, and that nobody has        *)
(* written since it was read, has a record to come if it differs, and keeps  *)
(* the one it has if it does not.                                            *)
LEMMA WriteLog ==
  ASSUME LogInv, TableInv', NEW q \in Requests, Alone(q), Write(q)
  PROVE  LogInv'
<1> DEFINE b == ask[q].body
           seen == loc[q].seen
<1>1. /\ Mapped /\ Rows /\ Log /\ b \in Bodies /\ DOMAIN b \subseteq Fields
      /\ pc[q] = "write" /\ UNCHANGED <<ask, loc, base, changes>>
  BY ApiAssumption DEF LogInv, TableInv, ImportInv, Owing, Write
<1>2. CASE UNCHANGED <<row, disturbed>> /\ Finish(q, "500")
  <2>1. pc'[q] = "done" /\ Owing(q)'
    BY <1>1, <1>2 DEF Finish, Owing, Mapped
  <2> QED BY <1>1, <1>2, <2>1, QuietLog
<1>3. CASE /\ loc[q].key \in DOMAIN row
           /\ row' = [row EXCEPT ![loc[q].key] = Over(Data(q), @)]
           /\ disturbed' = disturbed \cup ({loc[q].key} \X Unexplained(q))
           /\ IF Diff(q) = {} THEN Finish(q, "200") ELSE Goto(q, "log")
  <2>1. PICK k, d, u : k = loc[q].key /\ d = Data(q) /\ u = Unexplained(q)
    OBVIOUS
  <2>2. /\ k \in DOMAIN row /\ row' = [row EXCEPT ![k] = Over(d, row[k])]
        /\ disturbed' = disturbed \cup ({k} \X u)
    BY <1>3, <2>1
  <2>3. pc'[q] = IF Diff(q) = {} THEN "done" ELSE "log"
    BY <1>1, <1>3 DEF Finish, Goto, Mapped
  <2>4. Owing(q)'
    BY <1>1, <2>1, <2>2, <2>3 DEF Owing, Log
  <2>5. \A f \in DOMAIN d \cap Tracked : f \in DOMAIN b /\ d[f] = b[f]
    BY <2>1 DEF Data, Tracked
  <2>6. ASSUME NEW f \in Tracked
        PROVE  \/ <<k, f>> \in disturbed'
               \/ f \notin DOMAIN d /\ ~Owes(q, k, f)'
               \/ Explained(k, f)' /\ \A o \in Requests : Stands(o, k, f)'
    <3>1. CASE f \notin DOMAIN b
      BY <1>1, <2>5, <3>1 DEF Owes
    <3>2. CASE f \in u
      BY <2>2, <3>2
    <3>3. CASE f \in DOMAIN b /\ f \notin u
      <4>1. f \in DOMAIN d /\ ~Overlapped(q, f)
        BY <2>1, <3>3 DEF Unexplained, Tracked
      <4>2. row[k][f] = seen[f] /\ \A o \in Requests \ {q} : ~Owes(o, k, f)
        BY <2>1, <4>1 DEF Overlapped, Owes
      <4>3. row'[k][f] = b[f]
        BY <1>1, <2>2, <2>5, <4>1 DEF Over, Rows
      <4>4. \A o \in Requests \ {q} : ~Owes(o, k, f)'
        BY <4>2 DEF Owes, Alone
      <4>5. \A o \in Requests : Stands(o, k, f)'
        BY <1>1, <4>3, <4>4 DEF Stands
      <4>6. CASE f \in Diff(q)
        <5>1. Owes(q, k, f)' /\ f \in Diff(q)'
          BY <1>1, <2>1, <2>3, <3>3, <4>6 DEF Owes, Diff
        <5> QED BY <4>5, <5>1 DEF Explained
      <4>7. CASE f \notin Diff(q)
        <5>1. row'[k][f] = row[k][f]
          BY <3>3, <4>2, <4>3, <4>7 DEF Diff
        <5>2. ~Owes(q, k, f)
          BY <1>1 DEF Owes
        <5>3. Explained(k, f)
          BY <2>2 DEF LogInv
        <5>4. row[k][f] = Latest(k, f) \/ <<k, f>> \in disturbed
          BY <4>2, <5>2, <5>3 DEF Explained
        <5>5. Latest(k, f)' = Latest(k, f) /\ disturbed \subseteq disturbed'
          BY <1>1, <2>2 DEF Latest
        <5> QED BY <4>5, <5>1, <5>4, <5>5 DEF Explained
      <4> QED BY <4>6, <4>7
    <3> QED BY <3>1, <3>2, <3>3
  <2>7. disturbed \subseteq disturbed' /\ pc[q] # "log" /\ loc'[q].key = k
    BY <1>1, <2>1, <2>2
  <2> QED BY <1>1, <2>2, <2>4, <2>6, <2>7, RewriteLog
<1> QED BY <1>2, <1>3 DEF Write

(* The records: each is of the value that the row still has, unless its      *)
(* field is given up.                                                        *)
LEMMA ChangesLog ==
  ASSUME LogInv, TableInv', NEW q \in Requests, Alone(q), LogChanges(q)
  PROVE  LogInv'
<1> DEFINE b == ask[q].body
<1>1. /\ Mapped /\ Log /\ b \in Bodies
      /\ pc[q] = "log" /\ UNCHANGED <<row, ask, loc, base, disturbed>>
  BY DEF LogInv, TableInv, ImportInv, Owing, LogChanges, history
<1>2. pc'[q] \in {"tell", "done"} /\ Owing(q)'
  BY <1>1 DEF LogChanges, Goto, Finish, Owing, Mapped
<1>3. CASE loc[q].key \notin DOMAIN row /\ UNCHANGED changes
  <2>1. Log'
    BY <1>1, <1>3 DEF Log
  <2>2. \A k \in DOMAIN row', f \in Tracked : Untouched(q, k, f)
    BY <1>1, <1>2, <1>3 DEF Untouched, Latest, Owes
  <2> QED BY <1>1, <1>2, <2>1, <2>2, LogKept
<1>4. CASE loc[q].key \in DOMAIN row /\ Record(loc[q].key, [f \in Diff(q) |-> b[f]])
  <2>1. PICK k, new : k = loc[q].key /\ new = [f \in Diff(q) |-> b[f]]
    OBVIOUS
  <2>2. k \in DOMAIN row /\ k \in Keys /\ Record(k, new) /\ DOMAIN new = Diff(q)
        /\ \A f \in Diff(q) : f \in DOMAIN b /\ new[f] = b[f]
    BY <1>1, <1>4, <2>1 DEF Log, Diff
  <2>3. \A f \in DOMAIN new : new[f] \in Values
    <3>1. \A f \in DOMAIN b : b[f] \in Sent
      BY <1>1 DEF Sent
    <3> QED BY <2>2, <3>1 DEF Values
  <2>4. /\ changes' \in [Keys -> [Logged -> Seq(Values)]]
        /\ \A j \in Keys, f \in Logged :
             changes'[j][f] = IF j = k /\ f \in DOMAIN new THEN Append(changes[j][f], new[f])
                              ELSE changes[j][f]
    BY <1>1, <2>2, <2>3, RecordKeeps
  <2>5. Tracked \subseteq Logged
    BY DEF Tracked, Logged
  <2>6. Log'
    <3>1. \A j \in Keys \ DOMAIN base, f \in Tracked : j # k /\ changes[j][f] = <<>>
      BY <1>1, <2>2 DEF Log
    <3>2. \A j \in Keys \ DOMAIN base, f \in Tracked : changes'[j][f] = <<>>
      BY <2>4, <2>5, <3>1
    <3> QED BY <1>1, <2>4, <3>2 DEF Log
  <2>7. ASSUME NEW j \in DOMAIN row', NEW f \in Tracked, j # k \/ f \notin Diff(q)
        PROVE  Untouched(q, j, f)
    <3>1. changes'[j][f] = changes[j][f]
      BY <1>1, <2>2, <2>4, <2>5, <2>7 DEF Log
    <3> QED BY <1>1, <1>2, <2>1, <2>7, <3>1 DEF Untouched, Latest, Owes
  <2>8. ASSUME NEW f \in Tracked \cap Diff(q)
        PROVE  \/ <<k, f>> \in disturbed'
               \/ Explained(k, f)' /\ \A o \in Requests : Stands(o, k, f)'
    <3>1. Latest(k, f)' = b[f]
      <4>1. changes[k][f] \in Seq(Values) /\ new[f] \in Values
            /\ changes'[k][f] = Append(changes[k][f], new[f])
        <5>1. f \in Logged /\ changes[k] \in [Logged -> Seq(Values)]
          BY <1>1, <2>2, <2>5 DEF Log
        <5> QED BY <2>2, <2>3, <2>4, <5>1
      <4>2. changes'[k][f] # <<>> /\ Last(changes'[k][f]) = new[f]
        <5>1. \A s \in Seq(Values), v \in Values : Append(s, v) # <<>> /\ Last(Append(s, v)) = v
          BY AppendProperties DEF Last
        <5> QED BY <4>1, <5>1
      <4> QED BY <2>2, <4>2 DEF Latest
    <3>2. Stands(q, k, f) /\ Owes(q, k, f) /\ \A o \in Requests : Stands(o, k, f)
      BY <1>1, <2>1, <2>2 DEF LogInv, Owes
    <3>3. CASE row[k][f] = b[f]
      <4>1. Explained(k, f)'
        BY <1>1, <3>1, <3>3 DEF Explained
      <4>2. \A o \in Requests : Stands(o, k, f)'
        BY <1>1, <1>2, <3>2 DEF Stands, Owes, Alone
      <4> QED BY <4>1, <4>2
    <3> QED BY <1>1, <3>2, <3>3 DEF Stands
  <2> QED BY <1>1, <1>2, <2>6, <2>7, <2>8, LogKept
<1> QED BY <1>3, <1>4 DEF LogChanges

-----------------------------------------------------------------------------
LEMMA LogInitInv == Init => LogInv
<1> SUFFICES ASSUME Init PROVE LogInv
  OBVIOUS
<1>1. Unlogged \in [Logged -> Seq(Values)] /\ \A f \in Logged : Unlogged[f] = <<>>
  BY DEF Unlogged
<1>2. Log
  BY <1>1, ApiAssumption DEF Init, Log, Tracked, Logged
<1>3. \A k \in DOMAIN row, f \in Tracked : row[k][f] = Latest(k, f)
  <2>1. \A f \in Tracked : f \in Logged
    BY DEF Tracked, Logged
  <2> QED BY <1>1, <2>1, ApiAssumption DEF Init, Latest
<1>4. \A q \in Requests : pc[q] = "idle"
  BY DEF Init
<1> QED BY <1>2, <1>3, <1>4, TableInitInv DEF LogInv, Owing, Explained, Stands, Owes

LEMMA LogNextInv == LogInv /\ [Next]_vars => LogInv'
<1> SUFFICES ASSUME LogInv, [Next]_vars PROVE LogInv'
  OBVIOUS
<1>0. ImportInv /\ TableInv'
  BY TableNextInv DEF LogInv, TableInv
<1>1. CASE UNCHANGED vars
  <2>1. UNCHANGED <<row, changes, base, disturbed, pc, ask, loc>>
    BY <1>1 DEF vars, tables, history
  <2>2. Log' /\ \A q \in Requests : Owing(q)'
    BY <2>1 DEF LogInv, Log, Owing
  <2>3. \A k, f : Explained(k, f)' = Explained(k, f)
    BY <2>1 DEF Explained, Latest, Owes, Diff
  <2>4. \A q, k, f : Stands(q, k, f)' = Stands(q, k, f)
    BY <2>1 DEF Stands, Owes
  <2> QED BY <1>0, <2>1, <2>2, <2>3, <2>4 DEF LogInv
<1>2. CASE Next
  <2>1. PICK q \in Requests : Next!(q)
    BY <1>2 DEF Next
  <2>2. Alone(q)
    BY <1>0, <2>1, StartServed, StatementServed, UploadServed, RowServed, FindRowServed,
       TellAffectedServed, ThrowServed
  <2>3. CASE \/ Tell(q) \/ FailRow(q) \/ FindRow(q) \/ NumberRow(q) \/ TellAffected(q)
             \/ Statement(q) \/ AnswerRead(q)
    BY <1>0, <2>2, <2>3, SilentLog
  <2>4. CASE \/ \E b \in NewRows : Create(q, b)
             \/ \E m \in Categories \cup {"all"} : Mark(q, {n \in unread : m \in {n[1], "all"}})
             \/ \E f \in Files : Upload(q, f)
             \/ \E r \in Reads : BeginRead(q, r)
    BY <1>0, <2>2, <2>4, SilentLog
  <2>5. CASE \E k \in DOMAIN base : FindForDelete(q, k) \/ \E b \in Bodies : ReadRow(q, k, b)
    BY <1>0, <2>2, <2>5, SilentLog
  <2>6. CASE Insert(q) \/ InsertRow(q) \/ Write(q) \/ ChangeRow(q) \/ Delete(q) \/ Throw(q)
    BY <1>0, <2>2, <2>6, AddLog, WriteLog, ChangeRowLog, DeleteLog, ThrowLog
  <2>7. CASE RecordCreated(q) \/ LogRow(q) \/ LogChanges(q)
    BY <1>0, <2>2, <2>7, RecordLog, ChangesLog
  <2> QED BY <2>1, <2>3, <2>4, <2>5, <2>6, <2>7
<1> QED BY <1>1, <1>2

(* The inductive invariant of the log: a field that is not given up is what  *)
(* its log says, or has a record to come; and what a record to come is of is *)
(* still in the row.                                                         *)
THEOREM LogInvariance == Spec => []LogInv
  BY LogInitInv, LogNextInv, PTL DEF Spec

(* For any requests, bodies, files and faults: the value of a tracked field  *)
(* is the one of its last record, or the original one, unless an update is   *)
(* between its write and its records or the field has been given up.         *)
THEOREM LogsExplain == Spec => []LogExplainsRow
<1>1. LogInv => LogExplainsRow
  BY DEF LogInv, LogExplainsRow, Explained, Owes, Tracked
<1> QED BY <1>1, LogInvariance, PTL

-----------------------------------------------------------------------------
(* Sums over finite sets, of which the library defines a fold.               *)
LEMMA AllNaturals ==
  ASSUME NEW P, 0 \in P, \A n \in Nat : n \in P => n + 1 \in P
  PROVE  Nat \subseteq P
<1> SUFFICES ASSUME NEW n \in Nat, n \notin P PROVE FALSE
  OBVIOUS
<1> DEFINE D == {i \in 0..n : i \notin P}
           below(i) == {j \in D : j < i}
           A == {below(i) : i \in D}
<1>1. IsFiniteSet(D) /\ n \in D
  <2>1. IsFiniteSet(0..n) /\ D \subseteq 0..n
    BY FS_Interval
  <2> QED BY <2>1, FS_Subset
<1>2. A \subseteq FiniteSubsetsOf(D) /\ A # {}
  <2>1. \A i \in D : below(i) \subseteq D /\ IsFiniteSet(below(i))
    BY <1>1, FS_Subset
  <2> QED BY <1>1, <2>1 DEF FiniteSubsetsOf
<1>3. PICK m \in D : \A i \in D : ~ (<<below(i), below(m)>> \in StrictSubsetOrdering(D))
  <2> HIDE DEF A
  <2>1. \E a \in A : \A b \in A : ~ (<<b, a>> \in StrictSubsetOrdering(D))
    BY <1>2, FS_StrictSubsetOrderingWellFounded, WFMin
  <2> QED BY <2>1 DEF A
<1>4. m # 0 /\ m - 1 \in Nat /\ m - 1 \in 0..n /\ (m - 1) + 1 = m
  BY <1>3
<1>5. m - 1 \in D
  BY <1>4
<1>6. below(m - 1) \subseteq below(m) /\ m - 1 \in below(m) /\ m - 1 \notin below(m - 1)
  BY <1>4, <1>5
<1> HIDE DEF D
<1>7. <<below(m - 1), below(m)>> \in StrictSubsetOrdering(D)
  BY <1>6 DEF StrictSubsetOrdering
<1> QED BY <1>3, <1>5, <1>7

(* The recursive function behind the fold, on the subsets with up to n       *)
(* elements; it exists for all of them, and hence for the whole set.         *)
UpTo(S, n) == {s \in SUBSET S : Cardinality(s) <= n}
Folds(f, D, g) ==
  g = [s \in D |-> IF s = {} THEN 0
                   ELSE LET x == CHOOSE x \in s : TRUE IN f[x] + g[s \ {x}]]

LEMMA OneLess ==
  ASSUME NEW S, IsFiniteSet(S), NEW n \in Nat, NEW s \in UpTo(S, n + 1), NEW x \in s
  PROVE  s \ {x} \in UpTo(S, n)
<1>1. IsFiniteSet(s) /\ s \in SUBSET S /\ Cardinality(s) <= n + 1
  BY FS_Subset DEF UpTo
<1>2. Cardinality(s) \in Nat /\ Cardinality(s \ {x}) = Cardinality(s) - 1
  BY <1>1, FS_CardinalityType, FS_RemoveElement
<1> QED BY <1>1, <1>2 DEF UpTo

LEMMA FoldExists ==
  ASSUME NEW S, IsFiniteSet(S), NEW f PROVE \E g : Folds(f, SUBSET S, g)
<1> DEFINE P == {n \in Nat : \E g : Folds(f, UpTo(S, n), g)}
<1>1. 0 \in P
  <2>1. \A s \in UpTo(S, 0) : s = {}
    <3> TAKE s \in UpTo(S, 0)
    <3>1. IsFiniteSet(s) /\ Cardinality(s) <= 0
      BY FS_Subset DEF UpTo
    <3> QED BY <3>1, FS_CardinalityType, FS_EmptySet
  <2>2. Folds(f, UpTo(S, 0), [s \in UpTo(S, 0) |-> 0])
    BY <2>1 DEF Folds
  <2> QED BY <2>2
<1>2. ASSUME NEW n \in Nat, n \in P PROVE n + 1 \in P
  <2>1. PICK g : Folds(f, UpTo(S, n), g)
    BY <1>2
  <2> DEFINE h == [s \in UpTo(S, n + 1) |->
                     IF s = {} THEN 0 ELSE LET x == CHOOSE x \in s : TRUE IN f[x] + g[s \ {x}]]
  <2>2. UpTo(S, n) \subseteq UpTo(S, n + 1)
    <3> SUFFICES ASSUME NEW s \in UpTo(S, n) PROVE s \in UpTo(S, n + 1)
      OBVIOUS
    <3>1. s \in SUBSET S /\ IsFiniteSet(s) /\ Cardinality(s) <= n
      BY FS_Subset DEF UpTo
    <3>2. Cardinality(s) \in Nat
      BY <3>1, FS_CardinalityType
    <3> QED BY <3>1, <3>2 DEF UpTo
  <2>3. \A s \in UpTo(S, n) : h[s] = g[s]
    BY <2>1, <2>2 DEF Folds
  <2>4. ASSUME NEW s \in UpTo(S, n + 1), s # {}
        PROVE  h[s \ {CHOOSE x \in s : TRUE}] = g[s \ {CHOOSE x \in s : TRUE}]
    <3>1. PICK x : x = CHOOSE y \in s : TRUE
      OBVIOUS
    <3>2. x \in s
      BY <2>4, <3>1
    <3>3. s \ {x} \in UpTo(S, n)
      BY <3>2, OneLess
    <3> HIDE DEF h
    <3> QED BY <2>3, <3>1, <3>3
  <2>5. Folds(f, UpTo(S, n + 1), h)
    <3>1. ASSUME NEW s \in UpTo(S, n + 1)
          PROVE  h[s] = IF s = {} THEN 0
                        ELSE LET x == CHOOSE x \in s : TRUE IN f[x] + h[s \ {x}]
      <4>1. CASE s = {}
        BY <4>1
      <4>2. CASE s # {}
        <5>1. h[s] = LET x == CHOOSE x \in s : TRUE IN f[x] + g[s \ {x}]
          BY <4>2
        <5> HIDE DEF h
        <5> QED BY <2>4, <4>2, <5>1
      <4> QED BY <4>1, <4>2
    <3>2. h = [s \in UpTo(S, n + 1) |-> h[s]]
      OBVIOUS
    <3> HIDE DEF h
    <3>3. h = [s \in UpTo(S, n + 1) |-> IF s = {} THEN 0
                 ELSE LET x == CHOOSE x \in s : TRUE IN f[x] + h[s \ {x}]]
      BY <3>1, <3>2
    <3> QED BY <3>3 DEF Folds
  <2> HIDE DEF h
  <2> QED BY <2>5
<1>3. Cardinality(S) \in Nat
  BY FS_CardinalityType
<1>4. Cardinality(S) \in P
  <2> HIDE DEF P
  <2> QED BY <1>1, <1>2, <1>3, AllNaturals
<1>5. UpTo(S, Cardinality(S)) = SUBSET S
  BY FS_Subset DEF UpTo
<1> QED BY <1>4, <1>5

LEMMA SumIsFold ==
  ASSUME NEW S, IsFiniteSet(S), NEW f
  PROVE  \E g : Folds(f, SUBSET S, g) /\ SumFunctionOnSet(f, S) = g[S]
<1> DEFINE h == CHOOSE g : g = [s \in SUBSET S |-> IF s = {} THEN 0
                              ELSE LET x == CHOOSE x \in s : TRUE IN f[x] + g[s \ {x}]]
<1>1. Folds(f, SUBSET S, h)
  <2>1. \E g : Folds(f, SUBSET S, g)
    BY FoldExists
  <2> QED BY <2>1 DEF Folds
<1>2. SumFunctionOnSet(f, S) = h[S]
  BY DEF SumFunctionOnSet, FoldFunctionOnSet, MapThenFoldSet
<1> QED BY <1>1, <1>2

(* The sizes of disjoint parts add up to the size of the whole.              *)
LEMMA SumOfParts ==
  ASSUME NEW S, IsFiniteSet(S), NEW part, NEW f,
         \A c \in S : IsFiniteSet(part[c]) /\ f[c] = Cardinality(part[c]),
         \A c, d \in S : c # d => part[c] \cap part[d] = {}
  PROVE  SumFunctionOnSet(f, S) = Cardinality(UNION {part[c] : c \in S})
<1>1. PICK g : Folds(f, SUBSET S, g) /\ SumFunctionOnSet(f, S) = g[S]
  BY SumIsFold
<1> DEFINE whole(s) == UNION {part[c] : c \in s}
           right(s) == IsFiniteSet(whole(s)) /\ g[s] = Cardinality(whole(s))
           P == {n \in Nat : \A s \in UpTo(S, n) : right(s)}
<1>2. right({})
  <2>1. whole({}) = {} /\ g[{}] = 0
    BY <1>1 DEF Folds
  <2> QED BY <2>1, FS_EmptySet
<1>3. ASSUME NEW s \in SUBSET S, NEW x \in s, right(s \ {x}), x = CHOOSE y \in s : TRUE
      PROVE  right(s)
  <2>1. g[s] = f[x] + g[s \ {x}]
    BY <1>1, <1>3 DEF Folds
  <2>2. whole(s) = part[x] \cup whole(s \ {x}) /\ part[x] \cap whole(s \ {x}) = {}
    OBVIOUS
  <2>3. PICK A, B : A = part[x] /\ B = whole(s \ {x})
    OBVIOUS
  <2>4. IsFiniteSet(A) /\ IsFiniteSet(B) /\ A \cap B = {}
    BY <1>3, <2>2, <2>3
  <2>5. /\ IsFiniteSet(A \cup B) /\ Cardinality(A) \in Nat /\ Cardinality(B) \in Nat
        /\ Cardinality(A \cup B) = Cardinality(A) + Cardinality(B) - Cardinality(A \cap B)
    BY <2>4, FS_Union, FS_CardinalityType
  <2>6. Cardinality(A \cup B) = Cardinality(A) + Cardinality(B)
    <3>1. Cardinality(A \cap B) = 0
      BY <2>4, FS_EmptySet
    <3> QED BY <2>5, <3>1
  <2>7. f[x] = Cardinality(A) /\ g[s \ {x}] = Cardinality(B) /\ whole(s) = A \cup B
    BY <1>3, <2>2, <2>3
  <2> HIDE DEF whole
  <2> QED BY <2>1, <2>5, <2>6, <2>7
<1> HIDE DEF right
<1>4. 0 \in P
  <2>1. \A s \in UpTo(S, 0) : s = {}
    <3> TAKE s \in UpTo(S, 0)
    <3>1. IsFiniteSet(s) /\ Cardinality(s) <= 0
      BY FS_Subset DEF UpTo
    <3> QED BY <3>1, FS_CardinalityType, FS_EmptySet
  <2> QED BY <1>2, <2>1
<1>5. ASSUME NEW n \in Nat, n \in P PROVE n + 1 \in P
  <2>1. ASSUME NEW s \in UpTo(S, n + 1) PROVE right(s)
    <3>1. CASE s = {}
      BY <1>2, <3>1
    <3>2. CASE s # {}
      <4>1. PICK x \in s : x = CHOOSE y \in s : TRUE
        BY <3>2
      <4>2. right(s \ {x})
        BY <1>5, OneLess
      <4>3. s \in SUBSET S
        BY DEF UpTo
      <4> QED BY <1>3, <4>1, <4>2, <4>3
    <3> QED BY <3>1, <3>2
  <2> QED BY <2>1
<1>6. Cardinality(S) \in P
  <2>1. Cardinality(S) \in Nat
    BY FS_CardinalityType
  <2> HIDE DEF P
  <2> QED BY <1>4, <1>5, <2>1, AllNaturals
<1>7. right(S)
  BY <1>6 DEF UpTo
<1> QED BY <1>1, <1>7 DEF right

-----------------------------------------------------------------------------
(* The reads.  The rows have columns of the types the database gives them;   *)
(* what a statement of a read answers stands for a number of rows, which is  *)
(* as near to the present one as writes have been committed since, and as    *)
(* near to those of the other statements.                                    *)
Typed == \A k \in DOMAIN row : row[k].cat \in Categories /\ row[k].status \in Statuses

Figures == {"stats", "list"}
Pages   == {"changes", "notifications"}

Statements(kind) ==
  IF kind = "stats" THEN {"total", "byCategory", "byStatus"} ELSE {"page", "count"}

Figure(v, s) ==
  CASE s = "byCategory" -> SumFunctionOnSet(v, Categories)
    [] s = "byStatus" -> SumFunctionOnSet(v, Statuses \ Closed)
    [] OTHER -> v

Counted(r) == IF r.kind = "stats" THEN Active(r.scope) ELSE InScope(r.scope)
Now(r) == Cardinality(Counted(r))

Complete(got, kind, code) ==
  kind \in Figures \cup Pages =>
    DOMAIN got \subseteq Statements(kind) /\ (code = "200" => DOMAIN got = Statements(kind))

FiguresNear(got, d) ==
  \A s \in DOMAIN got : /\ Figure(got[s], s) \in Nat
                        /\ \A t \in DOMAIN got : Near(Figure(got[s], s), Figure(got[t], t), d)

Present(got, r, d) ==
  /\ r.kind \in Figures => \A s \in DOMAIN got : Near(Figure(got[s], s), Now(r), d)
  /\ r.kind \in Pages /\ d = 0 => \A s \in DOMAIN got : got[s] = Value(r, s)

Agrees(step, r, got, code, d) ==
  /\ step \in {"read", "done"}
  /\ Complete(got, r.kind, code)
  /\ r.kind \in Figures => FiguresNear(got, d)
  /\ r.kind \in Pages /\ d = 0 => \A s, t \in DOMAIN got : got[s] = got[t]
  /\ step = "read" => Present(got, r, d)

Consistent(q) ==
  ask[q].op = "read" => Agrees(pc[q], ask[q].read, loc[q].got, answer[q], moved[q])

Steady == moved \in [Requests -> Nat]

ReadInv == LogInv /\ Typed /\ Steady /\ \A q \in Requests : Consistent(q)

(* What the figures of a statistic count: each row once.                     *)
LEMMA CountsFinite ==
  ASSUME Rows, NEW c
  PROVE  /\ IsFiniteSet(InScope(c)) /\ IsFiniteSet(Active(c))
         /\ Cardinality(InScope(c)) \in Nat /\ Cardinality(Active(c)) \in Nat
<1>1. InScope(c) \subseteq DOMAIN row /\ Active(c) \subseteq DOMAIN row /\ IsFiniteSet(DOMAIN row)
  BY DEF InScope, Active, Rows
<1> QED BY <1>1, FS_Subset, FS_CardinalityType

LEMMA ByCategory ==
  ASSUME Rows, Typed, NEW r, r.kind = "stats"
  PROVE  SumFunctionOnSet(Value(r, "byCategory"), Categories) = Cardinality(Active(r.scope))
<1> DEFINE part == [c \in Categories |-> Active(r.scope) \cap InScope(c)]
           f == [c \in Categories |-> Cardinality(Active(r.scope) \cap InScope(c))]
<1>1. Value(r, "byCategory") = f
  BY DEF Value
<1>2. \A c \in Categories : IsFiniteSet(part[c]) /\ f[c] = Cardinality(part[c])
  <2>1. \A c \in Categories : part[c] \subseteq Active(r.scope)
    OBVIOUS
  <2> QED BY <2>1, CountsFinite, FS_Subset
<1>3. \A c, d \in Categories : c # d => part[c] \cap part[d] = {}
  <2>1. \A c \in Categories : c # "all" /\ \A k \in part[c] : row[k].cat = c
    BY ApiAssumption DEF Active, InScope
  <2> HIDE DEF part
  <2> QED BY <2>1
<1>4. UNION {part[c] : c \in Categories} = Active(r.scope)
  BY DEF Typed, Active, InScope
<1>5. IsFiniteSet(Categories)
  BY ApiAssumption
<1> HIDE DEF part, f
<1> QED BY <1>1, <1>2, <1>3, <1>4, <1>5, SumOfParts

LEMMA ByStatus ==
  ASSUME Rows, Typed, NEW r, r.kind = "stats"
  PROVE  SumFunctionOnSet(Value(r, "byStatus"), Statuses \ Closed) = Cardinality(Active(r.scope))
<1> DEFINE part == [t \in Statuses |-> {k \in InScope(r.scope) : row[k].status = t}]
           f == [t \in Statuses |-> Cardinality({k \in InScope(r.scope) : row[k].status = t})]
           open == Statuses \ Closed
<1>1. Value(r, "byStatus") = f
  BY DEF Value
<1>2. \A t \in open : IsFiniteSet(part[t]) /\ f[t] = Cardinality(part[t])
  <2>1. \A t \in Statuses : part[t] \subseteq InScope(r.scope)
    OBVIOUS
  <2> QED BY <2>1, CountsFinite, FS_Subset
<1>3. \A t, u \in open : t # u => part[t] \cap part[u] = {}
  OBVIOUS
<1>4. UNION {part[t] : t \in open} = Active(r.scope)
  BY DEF Typed, Active, InScope
<1>5. IsFiniteSet(open)
  BY ApiAssumption, FS_Subset
<1> HIDE DEF part, f, open
<1>6. SumFunctionOnSet(f, open) = Cardinality(Active(r.scope))
  BY <1>2, <1>3, <1>4, <1>5, SumOfParts
<1> QED BY <1>1, <1>6 DEF open

LEMMA FigureIsNow ==
  ASSUME Rows, Typed, NEW r, r.kind \in Figures, NEW s \in Statements(r.kind)
  PROVE  Figure(Value(r, s), s) = Now(r) /\ Now(r) \in Nat
<1>1. Now(r) \in Nat
  BY CountsFinite DEF Now, Counted
<1>2. CASE s = "byCategory"
  <2>1. r.kind = "stats"
    BY <1>2 DEF Statements, Figures
  <2> QED BY <1>1, <1>2, <2>1, ByCategory DEF Figure, Now, Counted
<1>3. CASE s = "byStatus"
  <2>1. r.kind = "stats"
    BY <1>3 DEF Statements, Figures
  <2> QED BY <1>1, <1>3, <2>1, ByStatus DEF Figure, Now, Counted
<1>4. CASE s = "total"
  <2>1. r.kind = "stats"
    BY <1>4 DEF Statements, Figures
  <2> QED BY <1>1, <1>4, <2>1 DEF Figure, Now, Counted, Value
<1>5. CASE s \in {"page", "count"}
  <2>1. r.kind = "list"
    BY <1>5 DEF Statements, Figures
  <2>2. Value(r, s) = Cardinality(InScope(r.scope))
    BY <1>5, <2>1 DEF Value
  <2> QED BY <1>1, <1>5, <2>1, <2>2 DEF Figure, Now, Counted
<1> QED BY <1>2, <1>3, <1>4, <1>5 DEF Statements

-----------------------------------------------------------------------------
(* A step changes one row at most, and then counts as a write.               *)
OneRow(k) ==
  /\ DOMAIN row' \ {k} = DOMAIN row \ {k}
  /\ \A j \in DOMAIN row \ {k} : row'[j] = row[j]

LEMMA OneRowCounts ==
  ASSUME Rows, Rows', NEW k, OneRow(k), NEW r
  PROVE  Now(r) \in Nat /\ Now(r)' \in Nat /\ Near(Now(r), Now(r)', 1)
<1>1. PICK a, b : a = Counted(r) /\ b = Counted(r)'
  OBVIOUS
<1>2. IsFiniteSet(a) /\ Cardinality(a) \in Nat
  BY <1>1, CountsFinite DEF Counted
<1>3. IsFiniteSet(b) /\ Cardinality(b) \in Nat
  <2>1. /\ b \subseteq DOMAIN row' /\ IsFiniteSet(DOMAIN row')
    BY <1>1 DEF Counted, InScope, Active, Rows
  <2> QED BY <2>1, FS_Subset, FS_CardinalityType
<1>4. a \subseteq b \cup {k} /\ b \subseteq a \cup {k}
  <2>1. \A j : j # k => (j \in DOMAIN row' <=> j \in DOMAIN row)
    BY DEF OneRow
  <2> QED BY <1>1, <2>1 DEF OneRow, Counted, InScope, Active
<1>5. Cardinality(a) <= Cardinality(b) + 1
  BY <1>2, <1>3, <1>4, FS_AddElement, FS_Subset
<1>6. Cardinality(b) <= Cardinality(a) + 1
  BY <1>2, <1>3, <1>4, FS_AddElement, FS_Subset
<1>7. Now(r) = Cardinality(a) /\ Now(r)' = Cardinality(b)
  BY <1>1 DEF Now
<1> QED BY <1>2, <1>3, <1>5, <1>6, <1>7 DEF Near

LEMMA WriteAgrees ==
  ASSUME Rows, Rows', NEW k, OneRow(k), NEW step, NEW r, NEW got, NEW code, NEW d \in Nat,
         Agrees(step, r, got, code, d)
  PROVE  Agrees(step, r, got, code, IF step = "read" THEN d + 1 ELSE d)'
<1>1. CASE step # "read"
  BY <1>1 DEF Agrees
<1>2. CASE step = "read"
  <2>1. \A x, y \in Nat : Near(x, y, d) => Near(x, y, d + 1)
    BY DEF Near
  <2>2. r.kind \in Figures => FiguresNear(got, d + 1)
    BY <1>2, <2>1 DEF Agrees, FiguresNear
  <2>3. PICK m, n \in Nat : m = Now(r) /\ n = Now(r)' /\ Near(m, n, 1)
    BY OneRowCounts
  <2>4. \A x \in Nat : Near(x, m, d) => Near(x, n, d + 1)
    BY <2>3 DEF Near
  <2>5. ASSUME r.kind \in Figures
        PROVE  \A s \in DOMAIN got : Near(Figure(got[s], s), n, d + 1)
    BY <1>2, <2>3, <2>4, <2>5 DEF Agrees, FiguresNear, Present
  <2>6. Present(got, r, d + 1)'
    BY <2>3, <2>5 DEF Present
  <2> QED BY <1>2, <2>2, <2>6 DEF Agrees
<1> QED BY <1>1, <1>2

LEMMA WriteOthers ==
  ASSUME ReadInv, Rows', NEW q \in Requests, Alone(q), Moves(q), NEW k, OneRow(k)
  PROVE  Steady' /\ \A o \in Requests \ {q} : Consistent(o)'
<1>1. Steady' /\ \A o \in Requests \ {q} : moved'[o] = IF pc[o] = "read" THEN moved[o] + 1 ELSE moved[o]
  BY DEF ReadInv, Steady, Moves
<1>2. ASSUME NEW o \in Requests \ {q}, ask[o].op = "read" PROVE Consistent(o)'
  <2>1. PICK step, r, got, code, d : /\ step = pc[o] /\ r = ask[o].read /\ got = loc[o].got
                                     /\ code = answer[o] /\ d = moved[o]
    OBVIOUS
  <2>2. d \in Nat /\ Agrees(step, r, got, code, d) /\ Rows
    BY <1>2, <2>1 DEF ReadInv, Steady, Consistent, LogInv, TableInv
  <2>3. Agrees(step, r, got, code, IF step = "read" THEN d + 1 ELSE d)'
    BY <2>2, WriteAgrees
  <2>4. /\ pc'[o] = step /\ ask'[o].read = r /\ loc'[o].got = got /\ answer'[o] = code
        /\ moved'[o] = IF step = "read" THEN d + 1 ELSE d
    BY <1>1, <2>1 DEF Alone
  <2> QED BY <2>3, <2>4 DEF Consistent
<1>3. ASSUME NEW o \in Requests \ {q}, ask[o].op # "read" PROVE Consistent(o)'
  BY <1>3 DEF Alone, Consistent
<1> QED BY <1>1, <1>2, <1>3

LEMMA QuietOthers ==
  ASSUME ReadInv, NEW q \in Requests, Alone(q), UNCHANGED <<tables, moved>>
  PROVE  Typed' /\ Steady' /\ \A o \in Requests \ {q} : Consistent(o)'
<1>1. UNCHANGED <<row, changes, unread, moved>>
  BY DEF tables
<1>2. Typed' /\ Steady'
  BY <1>1 DEF ReadInv, Typed, Steady
<1>3. \A r, s : Value(r, s)' = Value(r, s)
  BY <1>1 DEF Value, Active, InScope, ChangesIn
<1>4. \A r : Now(r)' = Now(r)
  BY <1>1 DEF Now, Counted, Active, InScope
<1>5. ASSUME NEW o \in Requests \ {q} PROVE Consistent(o)'
  <2>1. Consistent(o)
    BY DEF ReadInv
  <2>2. pc'[o] = pc[o] /\ ask'[o] = ask[o] /\ loc'[o] = loc[o] /\ answer'[o] = answer[o]
    BY DEF Alone
  <2>3. \A got, r, d : Present(got, r, d)' <=> Present(got, r, d)
    BY <1>3, <1>4 DEF Present
  <2> QED BY <1>1, <2>1, <2>2, <2>3 DEF Consistent, Agrees
<1> QED BY <1>2, <1>5

-----------------------------------------------------------------------------
(* One step of a request: a write, or one that leaves the tables alone.      *)
LEMMA WriteRead ==
  ASSUME ReadInv, LogInv', NEW q \in Requests, Alone(q), Moves(q), NEW k, OneRow(k),
         Typed', ask'[q].op # "read"
  PROVE  ReadInv'
<1>1. Rows'
  BY DEF LogInv, TableInv
<1>2. Steady' /\ \A o \in Requests \ {q} : Consistent(o)'
  BY <1>1, WriteOthers
<1>3. Consistent(q)'
  BY DEF Consistent
<1> QED BY <1>2, <1>3 DEF ReadInv

LEMMA QuietRead ==
  ASSUME ReadInv, LogInv', NEW q \in Requests, Alone(q), UNCHANGED <<tables, moved>>,
         Consistent(q)'
  PROVE  ReadInv'
  BY QuietOthers DEF ReadInv

LEMMA NoRead ==
  ASSUME ReadInv, NEW q \in Requests, pc[q] \notin {"read", "done"}, UNCHANGED ask
  PROVE  ask'[q].op # "read" /\ Consistent(q)'
  BY DEF ReadInv, Consistent, Agrees

LEMMA SameRows ==
  ASSUME ReadInv, UNCHANGED row PROVE Typed' /\ OneRow(0)
  BY DEF ReadInv, Typed, OneRow

(* A write of a row, which keeps its category, and has a status that fits.   *)
LEMMA RewriteRead ==
  ASSUME ReadInv, NEW k \in DOMAIN row, NEW d, DOMAIN d \subseteq Fields,
         "status" \in DOMAIN d => d.status \in Statuses,
         row' = [row EXCEPT ![k] = Over(d, row[k])]
  PROVE  OneRow(k) /\ Typed'
<1> DEFINE r == Over(d, row[k])
<1>1. DOMAIN row[k] = Columns /\ row[k].cat \in Categories /\ row[k].status \in Statuses
  BY DEF ReadInv, LogInv, TableInv, Rows, Typed
<1>2. r.cat \in Categories /\ r.status \in Statuses
  BY <1>1 DEF Over, Columns, Fields
<1> HIDE DEF r
<1>3. DOMAIN row' = DOMAIN row /\ row'[k] = r /\ \A j \in DOMAIN row \ {k} : row'[j] = row[j]
  BY DEF r
<1> QED BY <1>2, <1>3 DEF ReadInv, Typed, OneRow

LEMMA UpdateRead ==
  ASSUME ReadInv, LogInv', NEW q \in Requests, Alone(q), Write(q)
  PROVE  ReadInv'
<1>1. ask'[q].op # "read" /\ Consistent(q)'
  BY NoRead DEF Write
<1>2. CASE UNCHANGED <<row, moved>>
  BY <1>1, <1>2, QuietRead DEF Write, tables
<1>3. CASE ~UNCHANGED <<row, moved>>
  <2> DEFINE k == loc[q].key
             d == Data(q)
  <2>1. /\ k \in DOMAIN row /\ row' = [row EXCEPT ![k] = Over(d, row[k])] /\ Moves(q)
        /\ "status" \in DOMAIN d => d.status \in Statuses
    BY <1>3 DEF Write
  <2>2. DOMAIN ask[q].body \subseteq Fields
    BY ApiAssumption DEF ReadInv, LogInv, Owing, Write
  <2>3. DOMAIN d \subseteq Fields
    BY <2>2 DEF Data, Fields
  <2> HIDE DEF k, d
  <2>4. OneRow(k) /\ Typed'
    BY <2>1, <2>3, RewriteRead
  <2>5. PICK j : j = k
    OBVIOUS
  <2> QED BY <1>1, <2>1, <2>4, <2>5, WriteRead
<1> QED BY <1>2, <1>3

LEMMA ChangeRowRead ==
  ASSUME ReadInv, LogInv', NEW q \in Requests, Alone(q), ChangeRow(q)
  PROVE  ReadInv'
<1>1. ask'[q].op # "read" /\ Consistent(q)'
  BY NoRead DEF ChangeRow
<1>2. CASE UNCHANGED <<row, moved>>
  BY <1>1, <1>2, QuietRead DEF ChangeRow, tables
<1>3. CASE ~UNCHANGED <<row, moved>>
  <2> DEFINE r == Line(q)
             given == {f \in {"rate", "head"} : r[f] > 0} \cup {f \in {"status"} : r[f] # ""}
             d == [f \in {"text"} \cup given |->
                     IF f = "text" /\ r.text = "" THEN loc[q].seen.text ELSE r[f]]
  <2>1. PICK k \in WithId(r.id) : row' = [row EXCEPT ![k] = Over(d, @)] /\ Moves(q)
    BY <1>3 DEF ChangeRow
  <2>2. "status" \in DOMAIN d => d.status \in Statuses
    BY <1>3 DEF ChangeRow
  <2>3. DOMAIN d \subseteq Fields
    BY DEF Fields
  <2> HIDE DEF d
  <2>4. k \in DOMAIN row
    BY DEF WithId
  <2>5. OneRow(k) /\ Typed'
    BY <2>1, <2>2, <2>3, <2>4, RewriteRead
  <2> QED BY <1>1, <2>1, <2>5, WriteRead
<1> QED BY <1>2, <1>3

LEMMA InsertRead ==
  ASSUME ReadInv, LogInv', NEW q \in Requests, Alone(q), Insert(q) \/ InsertRow(q)
  PROVE  ReadInv'
<1>1. ask'[q].op # "read" /\ Consistent(q)'
  BY NoRead DEF Insert, InsertRow
<1>2. CASE UNCHANGED <<row, moved>>
  BY <1>1, <1>2, QuietRead DEF Insert, InsertRow, tables
<1>3. CASE Add(q, Fresh, loc[q].seen)
  <2>1. PICK k, r : k = Fresh /\ r = loc[q].seen
    OBVIOUS
  <2>2. Moves(q) /\ Storable(r) /\ row' = Over(row, [j \in {k} |-> r])
    BY <1>3, <2>1 DEF Add
  <2>3. /\ DOMAIN row' = DOMAIN row \cup {k} /\ \A j \in DOMAIN row : row'[j] = row[j]
        /\ k \notin DOMAIN row => row'[k] = r
    BY <2>2 DEF Over
  <2>4. OneRow(k) /\ Typed'
    BY <2>2, <2>3 DEF ReadInv, Typed, OneRow, Storable
  <2> QED BY <1>1, <2>2, <2>4, WriteRead
<1> QED BY <1>2, <1>3 DEF Insert, InsertRow, watch

LEMMA DeleteRead ==
  ASSUME ReadInv, LogInv', NEW q \in Requests, Alone(q), Delete(q)
  PROVE  ReadInv'
<1>1. ask'[q].op # "read" /\ Consistent(q)'
  BY NoRead DEF Delete
<1>2. CASE UNCHANGED <<row, changes, moved>>
  BY <1>1, <1>2, QuietRead DEF Delete, tables
<1>3. CASE ~UNCHANGED <<row, changes, moved>>
  <2>1. PICK k : k = loc[q].key
    OBVIOUS
  <2>2. row' = [j \in DOMAIN row \ {k} |-> row[j]] /\ Moves(q)
    BY <1>3, <2>1 DEF Delete
  <2>3. OneRow(k) /\ Typed'
    BY <2>2 DEF ReadInv, Typed, OneRow
  <2> QED BY <1>1, <2>2, <2>3, WriteRead
<1> QED BY <1>2, <1>3

(* The writes of other tables.                                               *)
LEMMA OtherWriteRead ==
  ASSUME ReadInv, LogInv', NEW q \in Requests, Alone(q), NEW m,
         \/ RecordCreated(q) \/ LogChanges(q) \/ Tell(q) \/ LogRow(q) \/ TellAffected(q)
         \/ Mark(q, m)
  PROVE  ReadInv'
<1>1. ask'[q].op # "read" /\ Consistent(q)'
  <2>1. CASE Mark(q, m)
    BY <2>1 DEF Mark, ReadInv, LogInv, TableInv, ImportInv, Mapped, Consistent
  <2>2. CASE ~Mark(q, m)
    BY <2>2, NoRead DEF RecordCreated, LogChanges, Tell, LogRow, TellAffected
  <2> QED BY <2>1, <2>2
<1>2. UNCHANGED row /\ (Moves(q) \/ UNCHANGED <<tables, moved>>)
  BY DEF RecordCreated, LogChanges, Tell, LogRow, TellAffected, Mark, tables
<1>3. CASE Moves(q)
  BY <1>1, <1>2, <1>3, SameRows, WriteRead
<1>4. CASE UNCHANGED <<tables, moved>>
  BY <1>1, <1>4, QuietRead
<1> QED BY <1>2, <1>3, <1>4

(* The steps that are no part of a read and write nothing.                   *)
LEMMA IdleRead ==
  ASSUME ReadInv, LogInv', NEW q \in Requests, Alone(q), NEW k, NEW b, NEW f,
         \/ Create(q, b) \/ FindForDelete(q, k) \/ ReadRow(q, k, b) \/ Upload(q, f)
         \/ FailRow(q) \/ FindRow(q) \/ NumberRow(q)
  PROVE  ReadInv'
<1>1. Mapped
  BY DEF ReadInv, LogInv, TableInv, ImportInv
<1>2. UNCHANGED <<tables, moved>>
  BY DEF Create, FindForDelete, ReadRow, Upload, FailRow, FindRow, NumberRow, watch
<1>3. Consistent(q)'
  <2>1. CASE Create(q, b) \/ FindForDelete(q, k) \/ ReadRow(q, k, b) \/ Upload(q, f)
    BY <1>1, <2>1 DEF Create, FindForDelete, ReadRow, Upload, Mapped, Consistent
  <2>2. CASE FailRow(q) \/ FindRow(q) \/ NumberRow(q)
    BY <2>2, NoRead DEF FailRow, FindRow, NumberRow
  <2> QED BY <2>1, <2>2
<1> QED BY <1>2, <1>3, QuietRead

-----------------------------------------------------------------------------
(* The steps of a read.                                                      *)
LEMMA BeginReadRead ==
  ASSUME ReadInv, LogInv', NEW q \in Requests, Alone(q), NEW r, BeginRead(q, r)
  PROVE  ReadInv'
<1>1. Mapped /\ InFile(loc[q], pc[q], ask[q], answer[q])
  BY DEF ReadInv, LogInv, TableInv, ImportInv, Served
<1>2. /\ pc'[q] = "read" /\ ask'[q] = [op |-> "read", read |-> r]
      /\ loc'[q].got = <<>> /\ answer'[q] = "none" /\ UNCHANGED <<tables, moved>>
  BY <1>1 DEF BeginRead, Goto, watch, Mapped, InFile, Local0
<1>3. PICK got : got = loc'[q].got /\ DOMAIN got = {}
  BY <1>2
<1>4. PICK d : d = moved'[q]
  OBVIOUS
<1>5. Agrees("read", r, got, "none", d)'
  BY <1>3 DEF Agrees, Complete, FiguresNear, Present
<1>6. Consistent(q)'
  BY <1>2, <1>3, <1>4, <1>5 DEF Consistent
<1> QED BY <1>2, <1>6, QuietRead

(* The statements still to be answered are all the others.                   *)
LEMMA PendingIs ==
  ASSUME NEW q \in Requests, ask[q].read.kind \in Figures \cup Pages
  PROVE  Pending(q) = Statements(ask[q].read.kind) \ DOMAIN loc[q].got
<1> DEFINE kind == ask[q].read.kind
           left == {i \in DOMAIN Rounds(kind) : ~(Rounds(kind)[i] \subseteq DOMAIN loc[q].got)}
<1>1. Rounds(kind) = <<Statements(kind)>>
  BY DEF Rounds, Statements, Figures, Pages
<1>2. DOMAIN Rounds(kind) = {1} /\ Rounds(kind)[1] = Statements(kind)
  BY <1>1
<1>3. left \subseteq {1} /\ (1 \in left <=> ~(Statements(kind) \subseteq DOMAIN loc[q].got))
  BY <1>2
<1>4. Pending(q) = IF left = {} THEN {} ELSE Rounds(kind)[CHOOSE i \in left : \A j \in left : i <= j]
                                             \ DOMAIN loc[q].got
  BY DEF Pending
<1>5. left # {} => (CHOOSE i \in left : \A j \in left : i <= j) = 1
  BY <1>3
<1> HIDE DEF left
<1> QED BY <1>2, <1>3, <1>4, <1>5

LEMMA StatementAgrees ==
  ASSUME Rows, Typed, NEW r, NEW got, NEW code, NEW d \in Nat, Agrees("read", r, got, code, d),
         NEW s, r.kind \in Figures \cup Pages => s \in Statements(r.kind) \ DOMAIN got,
         code # "200"
  PROVE  Agrees("read", r, Over([t \in {s} |-> Value(r, t)], got), code, d)
<1> DEFINE new == Over([t \in {s} |-> Value(r, t)], got)
<1>1. /\ DOMAIN new = DOMAIN got \cup {s} /\ new[s] = Value(r, s)
      /\ \A t \in DOMAIN got \ {s} : new[t] = got[t]
  BY DEF Over
<1> HIDE DEF new
<1>2. Complete(new, r.kind, code)
  BY <1>1 DEF Agrees, Complete
<1>3. ASSUME r.kind \in Figures
      PROVE  FiguresNear(new, d) /\ \A t \in DOMAIN new : Near(Figure(new[t], t), Now(r), d)
  <2>1. Figure(new[s], s) = Now(r) /\ Now(r) \in Nat
    BY <1>1, <1>3, FigureIsNow
  <2>2. \A t \in DOMAIN new : t = s \/ (t \in DOMAIN got /\ new[t] = got[t])
    BY <1>1
  <2>3. \A t \in DOMAIN got : Figure(got[t], t) \in Nat /\ Near(Figure(got[t], t), Now(r), d)
    BY <1>3 DEF Agrees, FiguresNear, Present
  <2>4. \A t, u \in DOMAIN got : Near(Figure(got[t], t), Figure(got[u], u), d)
    BY <1>3 DEF Agrees, FiguresNear
  <2>5. \A x, y \in Nat : (Near(x, y, d) <=> Near(y, x, d)) /\ Near(x, x, d)
    BY DEF Near
  <2>6. \A t \in DOMAIN new : Figure(new[t], t) \in Nat /\ Near(Figure(new[t], t), Now(r), d)
    BY <2>1, <2>2, <2>3, <2>5
  <2>7. ASSUME NEW t \in DOMAIN new, NEW u \in DOMAIN new
        PROVE  Near(Figure(new[t], t), Figure(new[u], u), d)
    <3>1. CASE u = s
      BY <2>1, <2>6, <3>1
    <3>2. CASE t = s
      BY <2>1, <2>5, <2>6, <3>2
    <3>3. CASE t # s /\ u # s
      BY <2>2, <2>4, <3>3
    <3> QED BY <3>1, <3>2, <3>3
  <2> QED BY <2>6, <2>7 DEF FiguresNear
<1>4. ASSUME r.kind \in Pages, d = 0
      PROVE  \A t \in DOMAIN new : new[t] = Value(r, t) /\ Value(r, t) = Value(r, s)
  <2>1. \A t \in DOMAIN new : new[t] = Value(r, t)
    BY <1>1, <1>4 DEF Agrees, Present
  <2>2. DOMAIN new \subseteq {"page", "count"}
    BY <1>2, <1>4 DEF Complete, Statements, Pages
  <2>3. Value(r, "page") = Value(r, "count")
    BY <1>4 DEF Value, Pages
  <2>4. s \in DOMAIN new
    BY <1>1
  <2> QED BY <2>1, <2>2, <2>3, <2>4
<1>5. Present(new, r, d)
  BY <1>3, <1>4 DEF Present
<1>6. r.kind \in Pages /\ d = 0 => \A t, u \in DOMAIN new : new[t] = new[u]
  BY <1>4
<1>7. Agrees("read", r, new, code, d)
  BY <1>2, <1>3, <1>5, <1>6 DEF Agrees
<1> QED BY <1>7 DEF new

LEMMA StatementRead ==
  ASSUME ReadInv, LogInv', NEW q \in Requests, Alone(q), Statement(q)
  PROVE  ReadInv'
<1>1. Mapped /\ Tallied(loc[q], pc[q]) /\ InFile(loc[q], pc[q], ask[q], answer[q]) /\ Rows /\ Typed
  BY DEF ReadInv, LogInv, TableInv, ImportInv, Served
<1>2. pc[q] = "read" /\ answer[q] = "none" /\ UNCHANGED <<tables, pc, ask, answer, moved>>
  BY <1>1 DEF Statement, InFile, watch
<1>3. PICK s \in Pending(q) :
        loc' = [loc EXCEPT ![q] = [loc[q] EXCEPT !.got = Over([t \in {s} |-> Value(ask[q].read, t)], @)]]
  BY DEF Statement, Set
<1>4. PICK r, got, d : r = ask[q].read /\ got = loc[q].got /\ d = moved[q]
  OBVIOUS
<1>5. loc'[q].got = Over([t \in {s} |-> Value(r, t)], got)
  BY <1>1, <1>3, <1>4 DEF Mapped, Tallied, Whole, Local0
<1>6. CASE ask[q].op = "read"
  <2>1. Agrees("read", r, got, "none", d) /\ d \in Nat
    BY <1>2, <1>4, <1>6 DEF ReadInv, Consistent, Steady
  <2>2. r.kind \in Figures \cup Pages => s \in Statements(r.kind) \ DOMAIN got
    BY <1>4, PendingIs
  <2>3. PICK new : new = Over([t \in {s} |-> Value(r, t)], got)
    OBVIOUS
  <2>4. Agrees("read", r, new, "none", d)
    BY <1>1, <2>1, <2>2, <2>3, StatementAgrees
  <2>5. \A g, e : Present(g, r, e)' <=> Present(g, r, e)
    <3>1. \A t : Value(r, t)' = Value(r, t)
      BY <1>2 DEF Value, Active, InScope, ChangesIn, tables
    <3>2. Now(r)' = Now(r)
      BY <1>2 DEF Now, Counted, Active, InScope, tables
    <3> QED BY <3>1, <3>2 DEF Present
  <2>6. Agrees("read", r, new, "none", d)'
    BY <2>4, <2>5 DEF Agrees
  <2>7. /\ pc'[q] = "read" /\ ask'[q].read = r /\ loc'[q].got = new
        /\ answer'[q] = "none" /\ moved'[q] = d
    BY <1>2, <1>4, <1>5, <2>3
  <2>8. Consistent(q)'
    BY <2>6, <2>7 DEF Consistent
  <2> QED BY <1>2, <2>8, QuietRead
<1>7. CASE ask[q].op # "read"
  <2>1. Consistent(q)'
    BY <1>2, <1>7 DEF Consistent
  <2> QED BY <1>2, <2>1, QuietRead
<1> QED BY <1>6, <1>7

(* A read ends answered or thrown.                                           *)
LEMMA EndRead ==
  ASSUME ReadInv, LogInv', NEW q \in Requests, Alone(q), AnswerRead(q) \/ Throw(q)
  PROVE  ReadInv'
<1>1. Mapped
  BY DEF ReadInv, LogInv, TableInv, ImportInv
<1>2. /\ pc'[q] = "done" /\ UNCHANGED <<tables, ask, loc, moved>> /\ answer'[q] \in {"200", "500"}
      /\ answer'[q] = "200" => Pending(q) = {}
  BY <1>1 DEF AnswerRead, Throw, Finish, watch, Mapped
<1>3. ASSUME ask[q].op = "read" PROVE Consistent(q)'
  <2>1. Agrees(pc[q], ask[q].read, loc[q].got, answer[q], moved[q])
    BY <1>3 DEF ReadInv, Consistent
  <2>2. Complete(loc[q].got, ask[q].read.kind, answer'[q])
    BY <1>2, <2>1, PendingIs DEF Agrees, Complete
  <2> QED BY <1>2, <2>1, <2>2 DEF Consistent, Agrees
<1>4. ask[q].op # "read" => Consistent(q)'
  BY <1>2 DEF Consistent
<1> QED BY <1>2, <1>3, <1>4, QuietRead

LEMMA ReadInitInv == Init => ReadInv
<1> SUFFICES ASSUME Init PROVE ReadInv
  OBVIOUS
<1>1. Typed /\ Steady
  BY ApiAssumption DEF Init, Typed, Steady
<1>2. \A q \in Requests : Consistent(q)
  BY DEF Init, Consistent
<1> QED BY <1>1, <1>2, LogInitInv DEF ReadInv

LEMMA ReadNextInv == ReadInv /\ [Next]_vars => ReadInv'
<1> SUFFICES ASSUME ReadInv, [Next]_vars PROVE ReadInv'
  OBVIOUS
<1>0. ImportInv /\ LogInv'
  BY LogNextInv DEF ReadInv, LogInv, TableInv
<1>1. CASE UNCHANGED vars
  <2>1. UNCHANGED <<row, changes, unread, pc, ask, loc, answer, moved>>
    BY <1>1 DEF vars, tables, watch
  <2>2. Typed' /\ Steady'
    BY <2>1 DEF ReadInv, Typed, Steady
  <2>3. \A r, s : Value(r, s)' = Value(r, s)
    BY <2>1 DEF Value, Active, InScope, ChangesIn
  <2>4. \A r : Now(r)' = Now(r)
    BY <2>1 DEF Now, Counted, Active, InScope
  <2>5. \A got, r, d : Present(got, r, d)' <=> Present(got, r, d)
    BY <2>3, <2>4 DEF Present
  <2>6. \A q \in Requests : Consistent(q)'
    BY <2>1, <2>5 DEF ReadInv, Consistent, Agrees
  <2> QED BY <1>0, <2>2, <2>6 DEF ReadInv
<1>2. CASE Next
  <2>1. PICK q \in Requests : Next!(q)
    BY <1>2 DEF Next
  <2>2. Alone(q)
    BY <1>0, <2>1, StartServed, StatementServed, UploadServed, RowServed, FindRowServed,
       TellAffectedServed, ThrowServed
  <2>3. CASE \/ Insert(q) \/ InsertRow(q) \/ Write(q) \/ ChangeRow(q) \/ Delete(q)
    BY <1>0, <2>2, <2>3, InsertRead, UpdateRead, ChangeRowRead, DeleteRead
  <2>4. CASE \/ RecordCreated(q) \/ LogChanges(q) \/ Tell(q) \/ LogRow(q) \/ TellAffected(q)
             \/ \E m \in Categories \cup {"all"} : Mark(q, {n \in unread : m \in {n[1], "all"}})
    BY <1>0, <2>2, <2>4, OtherWriteRead
  <2>5. CASE \/ \E b \in NewRows : Create(q, b)
             \/ \E k \in DOMAIN base : FindForDelete(q, k) \/ \E b \in Bodies : ReadRow(q, k, b)
             \/ \E f \in Files : Upload(q, f)
             \/ FailRow(q) \/ FindRow(q) \/ NumberRow(q)
    BY <1>0, <2>2, <2>5, IdleRead
  <2>6. CASE \/ \E r \in Reads : BeginRead(q, r)
             \/ Statement(q) \/ AnswerRead(q) \/ Throw(q)
    BY <1>0, <2>2, <2>6, BeginReadRead, StatementRead, EndRead
  <2> QED BY <2>1, <2>3, <2>4, <2>5, <2>6
<1> QED BY <1>1, <1>2

(* The inductive invariant of the reads: what has been answered stands for   *)
(* figures as near to the present ones, and to each other, as writes have    *)
(* been committed since.                                                     *)
THEOREM ReadInvariance == Spec => []ReadInv
  BY ReadInitInv, ReadNextInv, PTL DEF Spec

(* For any requests and table: the figures of one answer differ by no more   *)
(* than the writes committed while it was put together, and a page agrees    *)
(* with its count if there was none.                                         *)
THEOREM ReadsMatch == Spec => []ReadsAgree
<1>1. ReadInv => ReadsAgree
  <2> SUFFICES ASSUME ReadInv, NEW q \in Requests,
                      pc[q] = "done", ask[q].op = "read", answer[q] = "200"
               PROVE  LET g == loc[q].got
                          kind == ask[q].read.kind
                      IN  /\ kind = "stats" =>
                               /\ Near(g.total, SumFunctionOnSet(g.byCategory, Categories), moved[q])
                               /\ Near(g.total, SumFunctionOnSet(g.byStatus, Statuses \ Closed), moved[q])
                          /\ kind = "list" => Near(g.page, g["count"], moved[q])
                          /\ kind \in Pages /\ moved[q] = 0 => g.page = g["count"]
    BY DEF ReadsAgree, Pages
  <2> DEFINE g == loc[q].got
             kind == ask[q].read.kind
  <2>1. Agrees("done", ask[q].read, g, "200", moved[q])
    BY DEF ReadInv, Consistent
  <2>2. kind \in Figures \cup Pages => DOMAIN g = Statements(kind)
    BY <2>1 DEF Agrees, Complete
  <2>3. kind \in Figures => FiguresNear(g, moved[q])
    BY <2>1 DEF Agrees
  <2>4. ASSUME kind = "stats"
        PROVE  /\ Near(g.total, SumFunctionOnSet(g.byCategory, Categories), moved[q])
               /\ Near(g.total, SumFunctionOnSet(g.byStatus, Statuses \ Closed), moved[q])
    BY <2>2, <2>3, <2>4 DEF Figures, Statements, FiguresNear, Figure
  <2>5. kind = "list" => Near(g.page, g["count"], moved[q])
    BY <2>2, <2>3 DEF Figures, Statements, FiguresNear, Figure
  <2>6. kind \in Pages /\ moved[q] = 0 => g.page = g["count"]
    BY <2>1, <2>2 DEF Agrees, Pages, Statements
  <2> QED BY <2>4, <2>5, <2>6
<1> QED BY <1>1, ReadInvariance, PTL
=============================================================================
