------------------------ MODULE ImportProofs ------------------------
(***************************************************************************)
(* Proofs about an import: RequisitionIds, for any writers, imports and    *)
(* categories; UploadPipeline, for any file, batch size and categories.    *)
(***************************************************************************)
EXTENDS Imports, FiniteSetTheorems, FunctionTheorems, SequenceTheorems, WellFoundedInduction, TLAPS

(* The inductive invariant.  That a refused number means an outdated read    *)
(* follows from ReadIsTop: until somebody else inserts, no number of the     *)
(* category exceeds the one read, and every program adds at least one to it. *)
(* That the table is finite is what makes the largest number exist.          *)
AtValidRow ==
  \A w \in Writers : pc[w] = "insert" => row[w] <= Len(Rows[w]) /\ Category(w) \in Categories

ReadIsTop ==
  \A w \in Writers : pc[w] = "insert" /\ ~outdated[w] =>
    \A k \in numbers[Category(w)] : k <= top[w]

IInv ==
  /\ TypeOK
  /\ \A c \in Categories : IsFiniteSet(numbers[c])
  /\ AtValidRow
  /\ ReadIsTop

(* A nonempty finite set of naturals has a largest element: the elements     *)
(* above it are a least set of those above some element.                     *)
LEMMA MaximumExists ==
  ASSUME NEW S \in SUBSET Nat, IsFiniteSet(S), S # {}
  PROVE  \E x \in S : \A y \in S : y <= x
<1> DEFINE above(x) == {y \in S : y > x}
           A == {above(x) : x \in S}
<1>1. \A x \in S : above(x) \in FiniteSubsetsOf(S)
  BY FS_Subset DEF FiniteSubsetsOf
<1>2. A \subseteq FiniteSubsetsOf(S) /\ A # {}
  BY <1>1
<1>3. PICK x \in S : \A y \in S : ~ (<<above(y), above(x)>> \in StrictSubsetOrdering(S))
  <2> HIDE DEF A
  <2>1. \E a \in A : \A b \in A : ~ (<<b, a>> \in StrictSubsetOrdering(S))
    BY <1>2, FS_StrictSubsetOrderingWellFounded, WFMin
  <2> QED
    BY <2>1 DEF A
<1>4. ASSUME NEW y \in S, y > x PROVE FALSE
  <2>0. x \in Nat /\ y \in Nat /\ x < y
    BY <1>4
  <2>1. above(y) \subseteq above(x)
    <3>1. \A z \in S : z \in Nat /\ (z > y => z > x)
      BY <2>0
    <3> QED
      BY <3>1
  <2>2. y \in above(x) /\ y \notin above(y)
    BY <2>0
  <2> QED
    BY <1>3, <2>1, <2>2 DEF StrictSubsetOrdering
<1> QED
  BY <1>4

(* So the CHOOSE of Largest has a witness, and Largest is what               *)
(* COALESCE(MAX(...), 0) returns.                                            *)
LEMMA LargestIsMax ==
  ASSUME NEW S \in SUBSET Nat, IsFiniteSet(S)
  PROVE  Largest(S) \in Nat /\ \A k \in S : k <= Largest(S)
<1>1. \E n \in S \cup {0} : \A k \in S : k <= n
  BY MaximumExists
<1>2. Largest(S) \in S \cup {0} /\ \A k \in S : k <= Largest(S)
  BY <1>1 DEF Largest
<1>3. S \cup {0} \subseteq Nat
  OBVIOUS
<1> QED
  BY <1>2, <1>3

(* What a program adds to the number it read is at least one. *)
LEMMA NumberAboveTop ==
  ASSUME TypeOK, RequisitionIdsAssumption, NEW w \in Writers, Category(w) \in Categories
  PROVE  Number(w) \in Nat \ {0} /\ Number(w) > top[w]
<1> DEFINE n == Count(made[w], Category(w))
<1>1. n \in Nat
  <2>1. Len(made[w]) \in Nat
    BY DEF TypeOK
  <2>2. IsFiniteSet(1 .. Len(made[w]))
    BY <2>1, FS_Interval
  <2>3. IsFiniteSet({i \in 1 .. Len(made[w]) : made[w][i][1] = Category(w)})
    BY <2>2, FS_Subset
  <2> QED
    BY <2>3, FS_CardinalityType DEF Count
<1>2. Kind[w] \in {"create", "csv", "pipeline"} /\ top[w] \in Nat
  BY DEF RequisitionIdsAssumption, TypeOK
<1>3. CASE Kind[w] = "create"
  BY <1>2, <1>3 DEF Number, CreateNumber
<1>4. CASE Kind[w] = "csv"
  BY <1>1, <1>2, <1>4 DEF Number, CsvNumber
<1>5. CASE Kind[w] = "pipeline"
  BY <1>1, <1>2, <1>5 DEF Number, PipelineNumber
<1> QED
  BY <1>2, <1>3, <1>4, <1>5

LEMMA InitInv == RequisitionIdsAssumption /\ Init => IInv
<1> SUFFICES ASSUME Init PROVE IInv
  OBVIOUS
<1>1. TypeOK
  BY DEF Init, TypeOK
<1> QED
  BY <1>1, FS_EmptySet DEF Init, IInv, AtValidRow, ReadIsTop

LEMMA LeftWhere ==
  ASSUME TypeOK, NEW w \in Writers, NextRow(w) \/ AbortImport(w)
  PROVE  /\ pc' \in [Writers -> {"read", "insert", "done", "aborted"}]
         /\ row' \in [Writers -> Nat \ {0}]
         /\ pc'[w] \in {"read", "aborted"}
         /\ \A v \in Writers \ {w} : pc'[v] = pc[v] /\ row'[v] = row[v]
<1>1. CASE NextRow(w)
  BY <1>1 DEF TypeOK, NextRow
<1>2. CASE AbortImport(w)
  BY <1>2 DEF TypeOK, AbortImport
<1> QED
  BY <1>1, <1>2

(* A row is left, or the import with it: the table and what the others read  *)
(* stay as they are.                                                         *)
LEMMA RowLeftStep ==
  ASSUME IInv, NEW w \in Writers, NextRow(w) \/ AbortImport(w), errors' \in [Writers -> Nat],
         UNCHANGED <<numbers, top, made, outdated, deletes>>
  PROVE  IInv'
<1> USE DEF IInv
<1>1. TypeOK'
  BY LeftWhere DEF TypeOK
<1>2. \A v \in Writers : pc'[v] = "insert" => v # w /\ pc[v] = "insert" /\ row'[v] = row[v]
  BY LeftWhere
<1>3. AtValidRow'
  BY <1>2 DEF AtValidRow, Category
<1>4. ReadIsTop'
  BY <1>2 DEF ReadIsTop, Category
<1> QED
  BY <1>1, <1>3, <1>4

(* A statement fails: one error more, and the row is left. *)
LEMMA StatementFailsCounts ==
  ASSUME TypeOK, NEW w \in Writers, StatementFails(w) \/ FailRow(w)
  PROVE  /\ errors' = [errors EXCEPT ![w] = @ + 1]
         /\ errors' \in [Writers -> Nat]
         /\ NextRow(w) \/ AbortImport(w)
<1>1. errors' = [errors EXCEPT ![w] = @ + 1]
  BY DEF StatementFails, FailRow
<1>2. NextRow(w) \/ AbortImport(w)
  BY DEF StatementFails, FailRow
<1> QED
  BY <1>1, <1>2 DEF TypeOK

(* A writer goes on to its insert with a number that is the top or flagged. *)
LEMMA ProceedStep ==
  ASSUME IInv, NEW w \in Writers, AtRow(w), Category(w) \in Categories,
         NEW n \in Nat, NEW failed \in BOOLEAN, Proceed(w, n, failed),
         ~failed => \A k \in numbers[Category(w)] : k <= n
  PROVE  IInv'
<1> USE DEF IInv
<1>1. TypeOK'
  BY DEF TypeOK, Proceed
<1>2. AtValidRow'
  BY DEF TypeOK, AtValidRow, Proceed, AtRow, Category
<1>3. ReadIsTop'
  BY DEF TypeOK, ReadIsTop, Proceed, Category
<1> QED
  BY <1>1, <1>2, <1>3 DEF Proceed

(* A row gets into the table, whatever its writer learns of it and makes of  *)
(* that.                                                                     *)
LEMMA InsertStep ==
  ASSUME IInv, RequisitionIdsAssumption, NEW w \in Writers,
         Inserted(w), NextRow(w) \/ AbortImport(w),
         errors' \in [Writers -> Nat], UNCHANGED <<top, deletes>>,
         made' \in [Writers -> Seq(Categories \X (Nat \ {0}))]
  PROVE  IInv'
<1> USE DEF IInv
<1> DEFINE c == Category(w)
           n == Number(w)
<1>1. c \in Categories
  BY DEF AtValidRow, Inserted
<1>2. n \in Nat \ {0}
  BY <1>1, NumberAboveTop
<1>3. numbers' = [numbers EXCEPT ![c] = @ \cup {n}] /\ numbers \in [Categories -> SUBSET (Nat \ {0})]
  BY DEF TypeOK, Inserted
<1>4. TypeOK'
  <2>1. numbers' \in [Categories -> SUBSET (Nat \ {0})]
    BY <1>1, <1>2, <1>3
  <2>2. outdated' \in [Writers -> BOOLEAN]
    BY Zenon DEF TypeOK, Inserted
  <2> QED
    BY <2>1, <2>2, LeftWhere DEF TypeOK
<1>5. \A d \in Categories : IsFiniteSet(numbers'[d])
  BY <1>1, <1>3, FS_AddElement
<1>6. \A v \in Writers : pc'[v] = "insert" =>
        v # w /\ pc[v] = "insert" /\ row'[v] = row[v] /\ top'[v] = top[v]
  BY LeftWhere
<1>7. AtValidRow'
  BY <1>6 DEF AtValidRow, Category
<1>8. ReadIsTop'
  <2> SUFFICES ASSUME NEW v \in Writers, pc'[v] = "insert", ~outdated'[v]
               PROVE  \A k \in numbers'[Category(v)'] : k <= top'[v]
    BY DEF ReadIsTop
  <2>1. Category(v)' = Category(v) /\ Category(v) \in Categories
    BY <1>6 DEF AtValidRow, Category
  <2>2. ~outdated[v] /\ Category(v) # c
    BY <1>6, Zenon DEF Inserted
  <2>3. numbers'[Category(v)] = numbers[Category(v)]
    BY <1>3, <2>1, <2>2
  <2> QED
    BY <1>6, <2>1, <2>2, <2>3 DEF ReadIsTop
<1> QED
  BY <1>4, <1>5, <1>7, <1>8

(* A deletion can only lower the largest number. *)
LEMMA DeleteStep ==
  ASSUME IInv, NEW c \in Categories, NEW n \in numbers[c], DeleteNumber(c, n)
  PROVE  IInv'
<1> USE DEF IInv
<1>1. numbers' = [numbers EXCEPT ![c] = @ \ {n}]
  BY DEF DeleteNumber
<1>2. TypeOK'
  BY DEF TypeOK, DeleteNumber
<1>3. \A d \in Categories : numbers'[d] \subseteq numbers[d]
  BY <1>1 DEF TypeOK
<1>4. \A d \in Categories : IsFiniteSet(numbers'[d])
  BY <1>3, FS_Subset
<1>5. AtValidRow'
  BY DEF AtValidRow, DeleteNumber, Category
<1>6. ReadIsTop'
  BY <1>3 DEF ReadIsTop, AtValidRow, DeleteNumber, Category
<1> QED
  BY <1>2, <1>4, <1>5, <1>6

LEMMA NextInv == RequisitionIdsAssumption /\ IInv /\ [Next]_vars => IInv'
<1> SUFFICES ASSUME RequisitionIdsAssumption, IInv, [Next]_vars PROVE IInv'
  OBVIOUS
<1>1. ASSUME NEW w \in Writers, InvalidCategory(w) PROVE IInv'
  <2>1. NextRow(w) /\ errors' \in [Writers -> Nat]
    BY <1>1, StatementFailsCounts DEF InvalidCategory, FailRow, IInv
  <2> QED
    BY <1>1, <2>1, RowLeftStep DEF InvalidCategory
<1>2. ASSUME NEW w \in Writers, ReadMax(w) PROVE IInv'
  <2> DEFINE n == Largest(numbers[Category(w)])
  <2>1. numbers[Category(w)] \in SUBSET Nat /\ IsFiniteSet(numbers[Category(w)])
    BY <1>2 DEF IInv, TypeOK, ReadMax
  <2>2. n \in Nat /\ \A k \in numbers[Category(w)] : k <= n
    BY <2>1, LargestIsMax
  <2> QED
    BY <1>2, <2>2, ProceedStep DEF ReadMax, IInv, TypeOK
<1>3. ASSUME NEW w \in Writers, ReadFails(w) PROVE IInv'
  <2>1. CASE Kind[w] = "pipeline"
    <3>1. StatementFails(w) /\ UNCHANGED <<numbers, top, made, outdated, deletes>>
      BY <1>3, <2>1 DEF ReadFails
    <3> QED
      BY <3>1, StatementFailsCounts, RowLeftStep DEF IInv
  <2>2. CASE Kind[w] # "pipeline"
    BY <1>3, <2>2, ProceedStep DEF ReadFails, IInv, TypeOK
  <2> QED
    BY <2>1, <2>2
<1>4. ASSUME NEW w \in Writers, InsertRow(w) PROVE IInv'
  <2>1. Category(w) \in Categories
    BY <1>4 DEF IInv, AtValidRow, InsertRow, Inserted
  <2>2. Number(w) \in Nat \ {0}
    BY <2>1, NumberAboveTop DEF IInv
  <2>3. Append(made[w], <<Category(w), Number(w)>>) \in Seq(Categories \X (Nat \ {0}))
    BY <2>1, <2>2 DEF IInv, TypeOK
  <2>4. made' \in [Writers -> Seq(Categories \X (Nat \ {0}))]
    BY <1>4, <2>3 DEF IInv, TypeOK, InsertRow
  <2> QED
    BY <1>4, <2>4, InsertStep DEF InsertRow, IInv, TypeOK
<1>5. ASSUME NEW w \in Writers, InsertFails(w) PROVE IInv'
  <2>1. StatementFails(w) /\ UNCHANGED <<numbers, top, made, outdated, deletes>>
    BY <1>5 DEF InsertFails
  <2> QED
    BY <2>1, StatementFailsCounts, RowLeftStep DEF IInv
<1>9. ASSUME NEW w \in Writers, InsertUnanswered(w) PROVE IInv'
  <2>1. /\ Inserted(w) /\ StatementFails(w) /\ UNCHANGED <<top, made, deletes>>
        /\ made' \in [Writers -> Seq(Categories \X (Nat \ {0}))]
    BY <1>9 DEF InsertUnanswered, IInv, TypeOK
  <2> QED
    BY <2>1, StatementFailsCounts, InsertStep DEF IInv
<1>10. ASSUME NEW w \in Writers, NoConnection(w) PROVE IInv'
  <2>1. AbortImport(w) /\ UNCHANGED <<numbers, top, made, errors, outdated, deletes>>
    BY <1>10 DEF NoConnection
  <2> QED
    BY <2>1, RowLeftStep DEF IInv, TypeOK
<1>6. ASSUME NEW w \in Writers, Finish(w) PROVE IInv'
  BY <1>6 DEF IInv, TypeOK, Finish, AtValidRow, ReadIsTop, Category
<1>7. ASSUME NEW c \in Categories, NEW n \in numbers[c], DeleteNumber(c, n) PROVE IInv'
  BY <1>7, DeleteStep
<1>8. CASE UNCHANGED vars
  BY <1>8 DEF vars, IInv, TypeOK, AtValidRow, ReadIsTop, Category
<1> QED
  BY <1>1, <1>2, <1>3, <1>4, <1>5, <1>6, <1>7, <1>8, <1>9, <1>10 DEF Next, Step

(* The inductive invariant holds for any number of writers, of any of the    *)
(* three kinds, and any imports.                                             *)
THEOREM Invariance == Spec => []IInv
BY RequisitionIdsAssumption, InitInv, NextInv, PTL DEF Spec

(* The type invariant: every id handed out is a positive number of a known   *)
(* category.                                                                 *)
THEOREM TypeCorrect == Spec => []TypeOK
<1>1. IInv => TypeOK
  BY DEF IInv
<1> QED
  BY <1>1, Invariance, PTL

(* CreateRequisition, UploadCSV and upsert_record are refused a number only  *)
(* when another of them inserted in between or the read failed, with any     *)
(* number of concurrent writers and deletions.                               *)
THEOREM RefusalsAreRaces == Spec => []RefusedOnlyByRace
<1>1. RequisitionIdsAssumption /\ IInv => RefusedOnlyByRace
  <2> SUFFICES ASSUME RequisitionIdsAssumption, IInv, NEW w \in Writers, pc[w] = "insert",
                      Number(w) \in numbers[Category(w)], ~outdated[w]
               PROVE  FALSE
    BY DEF RefusedOnlyByRace
  <2>1. Category(w) \in Categories
    BY DEF IInv, AtValidRow
  <2>2. Number(w) \in Nat /\ top[w] \in Nat /\ Number(w) > top[w]
    BY <2>1, NumberAboveTop DEF IInv, TypeOK
  <2>3. Number(w) <= top[w]
    BY DEF IInv, ReadIsTop
  <2> QED
    BY <2>2, <2>3
<1> QED
  BY <1>1, RequisitionIdsAssumption, Invariance, PTL

(* The loop of an import: the row it is at, and what it has counted so far. *)
AtRowOfImport ==
  \A w \in Writers :
    /\ row[w] <= Len(Rows[w]) + 1
    /\ pc[w] = "done" => row[w] = Len(Rows[w]) + 1
    /\ pc[w] # "aborted" => row[w] = (Len(made[w]) + errors[w]) + 1
    /\ pc[w] = "aborted" =>
         /\ Kind[w] = "pipeline"
         /\ \/ Len(made[w]) + errors[w] = 0
            \/ errors[w] > 0 /\ row[w] = Len(made[w]) + errors[w]

(* One more row created, or one more error, is one row further on. *)
LEMMA OneRowOn ==
  ASSUME NEW l \in Nat, NEW e \in Nat
  PROVE  /\ ((l + 1) + e) + 1 = ((l + e) + 1) + 1
         /\ (l + (e + 1)) + 1 = ((l + e) + 1) + 1
OBVIOUS

LEMMA RowInit == RequisitionIdsAssumption /\ Init => AtRowOfImport
<1> SUFFICES ASSUME RequisitionIdsAssumption, Init, NEW w \in Writers
             PROVE  /\ row[w] = 1 /\ pc[w] = "read"
                    /\ Len(made[w]) = 0 /\ errors[w] = 0
                    /\ Len(Rows[w]) \in Nat
  BY DEF AtRowOfImport
<1> QED
  BY DEF Init, RequisitionIdsAssumption

LEMMA RowStep ==
  ASSUME RequisitionIdsAssumption, IInv, AtRowOfImport, [Next]_vars
  PROVE  AtRowOfImport'
<1>0. \A v \in Writers : /\ Len(made[v]) \in Nat /\ errors[v] \in Nat /\ row[v] \in Nat
                        /\ Len(Rows[v]) \in Nat
  BY DEF IInv, TypeOK, RequisitionIdsAssumption
<1>1. ASSUME NEW w \in Writers, row[w] <= Len(Rows[w]), pc[w] # "aborted", NextRow(w),
             \/ Len(made'[w]) = Len(made[w]) + 1 /\ errors'[w] = errors[w]
             \/ Len(made'[w]) = Len(made[w]) /\ errors'[w] = errors[w] + 1,
             \A v \in Writers \ {w} : made'[v] = made[v] /\ errors'[v] = errors[v]
      PROVE  AtRowOfImport'
  <2>1. /\ row'[w] = row[w] + 1 /\ pc'[w] = "read"
        /\ \A v \in Writers \ {w} : row'[v] = row[v] /\ pc'[v] = pc[v]
    BY <1>1 DEF NextRow, IInv, TypeOK
  <2>2. row[w] = (Len(made[w]) + errors[w]) + 1
    BY <1>1 DEF AtRowOfImport
  <2>3. row'[w] = (Len(made'[w]) + errors'[w]) + 1
    <3> DEFINE l == Len(made[w])
               e == errors[w]
    <3>1. row'[w] = ((l + e) + 1) + 1
      BY <2>1, <2>2
    <3>2. ((l + 1) + e) + 1 = ((l + e) + 1) + 1 /\ (l + (e + 1)) + 1 = ((l + e) + 1) + 1
      <4>1. l \in Nat /\ e \in Nat
        BY <1>0
      <4> HIDE DEF l, e
      <4> QED
        BY <4>1, OneRowOn
    <3> QED
      BY <1>1, <3>1, <3>2
  <2>4. row'[w] <= Len(Rows[w]) + 1 /\ pc'[w] \notin {"done", "aborted"}
    BY <1>0, <1>1, <2>1
  <2> QED
    BY <1>1, <2>1, <2>3, <2>4 DEF AtRowOfImport
<1>2. ASSUME NEW w \in Writers, StatementFails(w) \/ FailRow(w), made' = made,
             row[w] <= Len(Rows[w]), pc[w] # "aborted"
      PROVE  AtRowOfImport'
  <2>1. /\ errors' = [errors EXCEPT ![w] = @ + 1]
        /\ NextRow(w) \/ AbortImport(w)
    BY <1>2, StatementFailsCounts DEF IInv
  <2>2. errors'[w] = errors[w] + 1 /\ \A v \in Writers \ {w} : errors'[v] = errors[v]
    BY <2>1 DEF IInv, TypeOK
  <2>3. CASE NextRow(w)
    BY <1>1, <1>2, <2>2, <2>3
  <2>4. CASE AbortImport(w)
    <3> DEFINE l == Len(made[w])
               e == errors[w]
    <3>1. /\ row' = row /\ pc'[w] = "aborted" /\ Kind[w] = "pipeline"
          /\ \A v \in Writers \ {w} : pc'[v] = pc[v]
      BY <2>4 DEF AbortImport, IInv, TypeOK
    <3>2. row[w] = (l + e) + 1
      BY <1>2 DEF AtRowOfImport
    <3>3. errors'[w] > 0 /\ row'[w] = l + errors'[w]
      <4>1. l \in Nat /\ e \in Nat
        BY <1>0
      <4>2. row'[w] = (l + e) + 1 /\ errors'[w] = e + 1
        BY <2>2, <3>1, <3>2
      <4> HIDE DEF l, e
      <4> QED
        BY <4>1, <4>2
    <3> QED
      BY <1>2, <2>2, <3>1, <3>3 DEF AtRowOfImport
  <2> QED
    BY <2>1, <2>3, <2>4
<1>3. ASSUME NEW w \in Writers, AtRow(w), NEW n \in Nat, NEW b \in BOOLEAN, Proceed(w, n, b)
      PROVE  AtRowOfImport'
  <2>1. UNCHANGED <<row, made, errors>>
    BY <1>3 DEF Proceed
  <2>2. /\ pc'[w] = "insert" /\ pc[w] = "read"
        /\ \A v \in Writers \ {w} : pc'[v] = pc[v]
    BY <1>3 DEF Proceed, AtRow, IInv, TypeOK
  <2> QED
    BY <2>1, <2>2 DEF AtRowOfImport
<1>4. ASSUME NEW w \in Writers, InvalidCategory(w) PROVE AtRowOfImport'
  BY <1>2, <1>4 DEF InvalidCategory, AtRow
<1>5. ASSUME NEW w \in Writers, ReadMax(w) PROVE AtRowOfImport'
  BY <1>3, <1>5, LargestIsMax DEF ReadMax, IInv, TypeOK
<1>6. ASSUME NEW w \in Writers, ReadFails(w) PROVE AtRowOfImport'
  <2>1. CASE Kind[w] = "pipeline"
    <3>1. /\ StatementFails(w) /\ made' = made
          /\ pc[w] = "read" /\ row[w] <= Len(Rows[w])
      BY <1>6, <2>1 DEF ReadFails, AtRow
    <3> QED
      BY <1>2, <3>1
  <2>2. CASE Kind[w] # "pipeline"
    BY <1>3, <1>6, <2>2 DEF ReadFails
  <2> QED
    BY <2>1, <2>2
<1>7. ASSUME NEW w \in Writers, InsertRow(w) PROVE AtRowOfImport'
  <2> DEFINE id == <<Category(w), Number(w)>>
  <2>1. /\ made[w] \in Seq(Categories \X (Nat \ {0}))
        /\ row[w] <= Len(Rows[w]) /\ pc[w] # "aborted"
    BY <1>7 DEF IInv, TypeOK, AtValidRow, InsertRow, Inserted
  <2>2. made' = [made EXCEPT ![w] = Append(@, id)] /\ Len(Append(made[w], id)) = Len(made[w]) + 1
    BY <1>7, <2>1 DEF InsertRow
  <2>3. Len(made'[w]) = Len(made[w]) + 1 /\ \A v \in Writers \ {w} : made'[v] = made[v]
    BY <2>2 DEF IInv, TypeOK
  <2> QED
    BY <1>1, <1>7, <2>1, <2>3 DEF InsertRow
<1>8. ASSUME NEW w \in Writers, InsertFails(w) PROVE AtRowOfImport'
  BY <1>2, <1>8 DEF InsertFails, IInv, AtValidRow
<1>9. ASSUME NEW w \in Writers, Finish(w) PROVE AtRowOfImport'
  <2>1. row[w] = Len(Rows[w]) + 1
    BY <1>0, <1>9 DEF Finish, AtRowOfImport
  <2> QED
    BY <1>9, <2>1 DEF Finish, IInv, TypeOK, AtRowOfImport
<1>10. ASSUME NEW c \in Categories, NEW n \in numbers[c], DeleteNumber(c, n)
       PROVE  AtRowOfImport'
  BY <1>10 DEF DeleteNumber, AtRowOfImport
<1>11. CASE UNCHANGED vars
  BY <1>11 DEF vars, AtRowOfImport
<1>12. ASSUME NEW w \in Writers, InsertUnanswered(w) PROVE AtRowOfImport'
  BY <1>2, <1>12 DEF InsertUnanswered, Inserted, IInv, AtValidRow
<1>13. ASSUME NEW w \in Writers, NoConnection(w) PROVE AtRowOfImport'
  <2>1. /\ pc[w] = "read" /\ row[w] = 1 /\ Kind[w] = "pipeline" /\ pc'[w] = "aborted"
        /\ \A v \in Writers \ {w} : pc'[v] = pc[v]
        /\ UNCHANGED <<row, made, errors>>
    BY <1>13 DEF NoConnection, AbortImport, IInv, TypeOK
  <2>2. Len(made[w]) + errors[w] = 0
    <3>1. 1 = (Len(made[w]) + errors[w]) + 1
      BY <2>1 DEF AtRowOfImport
    <3>2. PICK k \in Nat : k = Len(made[w]) + errors[w]
      BY <1>0
    <3> QED
      BY <3>1, <3>2
  <2> QED
    BY <2>1, <2>2 DEF AtRowOfImport
<1> QED
  BY <1>4, <1>5, <1>6, <1>7, <1>8, <1>9, <1>10, <1>11, <1>12, <1>13 DEF Next, Step

(* UploadCSV and run_pipeline count every row done once, as created or as an *)
(* error, and every row of the import before they end, whatever the other    *)
(* writers do and whatever fails on the way; run_pipeline alone may end      *)
(* early, without a connection or after a row counted as an error.           *)
THEOREM RowsAccounted == Spec => []EveryRowAccounted
<1>1. RequisitionIdsAssumption /\ IInv /\ AtRowOfImport => EveryRowAccounted
  <2> SUFFICES ASSUME RequisitionIdsAssumption, IInv, AtRowOfImport, NEW w \in Writers,
                      pc[w] = "done"
               PROVE  Len(made[w]) + errors[w] = Len(Rows[w])
    BY DEF AtRowOfImport, EveryRowAccounted
  <2>1. PICK n \in Nat : n = Len(made[w]) + errors[w]
    BY DEF IInv, TypeOK
  <2>2. n + 1 = Len(Rows[w]) + 1 /\ Len(Rows[w]) \in Nat
    BY <2>1 DEF AtRowOfImport, RequisitionIdsAssumption
  <2> QED
    BY <2>1, <2>2
<1> QED
  BY <1>1, RequisitionIdsAssumption, Invariance, RowInit, RowStep, PTL DEF Spec
-----------------------------------------------------------------------------
(* Arithmetic of the batches, and induction on the naturals for a set.       *)
LEMMA DivBounds ==
  ASSUME NEW a \in Nat, NEW d \in Nat \ {0}
  PROVE  a \div d \in Nat /\ (a \div d) * d <= a /\ a < (a \div d) * d + d
  OBVIOUS

LEMMA Multiples ==
  ASSUME NEW a \in Nat, NEW b \in Nat, NEW d \in Nat
  PROVE  /\ a * d \in Nat /\ (a + 1) * d = a * d + d
         /\ a <= b => a * d <= b * d
         /\ a * d < b * d => a < b
  OBVIOUS

LEMMA AllNaturals ==
  ASSUME NEW S, 0 \in S, \A n \in Nat : n \in S => n + 1 \in S
  PROVE  Nat \subseteq S
<1> SUFFICES ASSUME NEW n \in Nat, n \notin S PROVE FALSE
  OBVIOUS
<1> DEFINE D == {i \in 0..n : (n - i) \notin S}
<1>1. D \in SUBSET Nat /\ 0 \in D /\ IsFiniteSet(D)
  <2>1. IsFiniteSet(0..n) /\ D \subseteq 0..n
    BY FS_Interval
  <2>2. 0 \in 0..n /\ n - 0 = n
    OBVIOUS
  <2> QED BY <2>1, <2>2, FS_Subset
<1>2. PICK i \in D : \A j \in D : j <= i
  BY <1>1, MaximumExists
<1>3. n - i \in Nat /\ n - i # 0 /\ n - i \notin S /\ i \in 0..n
  BY <1>2
<1>4. (n - i) - 1 \in Nat /\ (n - i) - 1 \notin S /\ (n - i) - 1 = n - (i + 1) /\ i + 1 \in 0..n
  BY <1>3
<1>5. i + 1 \in D
  BY <1>4
<1> QED BY <1>2, <1>3, <1>5

-----------------------------------------------------------------------------
(* FlattenSeq joins sequences from the left.                                 *)
Joins(s, f) == f = [i \in 1..Len(s) |-> IF i = 1 THEN s[i] ELSE f[i - 1] \o s[i]]

LEMMA JoinExists ==
  ASSUME NEW s, Len(s) \in Nat
  PROVE  \E f : Joins(s, f)
<1> DEFINE Upto(n, f) == f = [i \in 1..n |-> IF i = 1 THEN s[i] ELSE f[i - 1] \o s[i]]
           S == {n \in Nat : \E f : Upto(n, f)}
<1>1. 0 \in S
  <2>1. Upto(0, [i \in 1..0 |-> s[i]])
    OBVIOUS
  <2> QED BY <2>1
<1>2. ASSUME NEW n \in Nat, n \in S PROVE n + 1 \in S
  <2>1. PICK f : Upto(n, f)
    BY <1>2
  <2> DEFINE last == IF n = 0 THEN s[1] ELSE f[n] \o s[n + 1]
             g == [i \in 1..(n + 1) |-> IF i = n + 1 THEN last ELSE f[i]]
  <2>2. ASSUME NEW i \in 1..(n + 1)
        PROVE  g[i] = IF i = 1 THEN s[i] ELSE g[i - 1] \o s[i]
    <3>1. CASE i = n + 1
      BY <3>1
    <3>2. CASE i # n + 1
      <4>1. i \in 1..n /\ g[i] = f[i] /\ (i # 1 => g[i - 1] = f[i - 1])
        BY <3>2
      <4>2. f[i] = IF i = 1 THEN s[i] ELSE f[i - 1] \o s[i]
        BY <2>1, <4>1
      <4> QED BY <4>1, <4>2
    <3> QED BY <3>1, <3>2
  <2>3. Upto(n + 1, g)
    BY <2>2
  <2> HIDE DEF g, Upto
  <2> QED BY <2>3
<1>3. Len(s) \in S
  <2> HIDE DEF S
  <2> QED BY <1>1, <1>2, AllNaturals
<1> QED BY <1>3 DEF Joins

LEMMA FlattenIsJoin ==
  ASSUME NEW s, Len(s) \in Nat \ {0}
  PROVE  \E f : Joins(s, f) /\ FlattenSeq(s) = f[Len(s)]
<1> DEFINE g == CHOOSE f : f = [i \in 1..Len(s) |-> IF i = 1 THEN s[i] ELSE f[i - 1] \o s[i]]
<1>1. Joins(s, g)
  BY JoinExists DEF Joins
<1>2. FlattenSeq(s) = g[Len(s)]
  BY DEF FlattenSeq
<1> QED BY <1>1, <1>2

(* Each part has its elements, and those of the parts before it stay.        *)
Adds(s, f, i) ==
  /\ Len(f[i + 1]) = Len(f[i]) + Len(s[i + 1])
  /\ \A j \in 1..Len(f[i]) : f[i + 1][j] = f[i][j]
  /\ \A j \in 1..Len(s[i + 1]) : f[i + 1][Len(f[i]) + j] = s[i + 1][j]

LEMMA JoinStep ==
  ASSUME NEW T, NEW m \in Nat \ {0}, NEW s \in [1..m -> Seq(T)], NEW f, Joins(s, f)
  PROVE  f \in [1..m -> Seq(T)] /\ f[1] = s[1] /\ \A i \in 1..(m - 1) : Adds(s, f, i)
<1>0. Len(s) = m
  OBVIOUS
<1>1. /\ DOMAIN f = 1..m /\ f[1] = s[1]
      /\ \A i \in 1..(m - 1) : f[i + 1] = f[i] \o s[i + 1]
  <2>1. DOMAIN f = 1..m /\ \A i \in 1..m : f[i] = IF i = 1 THEN s[i] ELSE f[i - 1] \o s[i]
    BY <1>0 DEF Joins
  <2>2. ASSUME NEW i \in 1..(m - 1) PROVE f[i + 1] = f[i] \o s[i + 1]
    <3>1. i + 1 \in 1..m /\ i + 1 # 1 /\ (i + 1) - 1 = i
      OBVIOUS
    <3> QED BY <2>1, <3>1
  <2>3. 1 \in 1..m
    OBVIOUS
  <2> QED BY <2>1, <2>2, <2>3
<1> DEFINE S == {i \in Nat : i + 1 \in 1..m => f[i + 1] \in Seq(T)}
<1>2. 0 \in S
  BY <1>1
<1>3. ASSUME NEW i \in Nat, i \in S PROVE i + 1 \in S
  <2>1. CASE (i + 1) + 1 \in 1..m
    <3>1. i + 1 \in 1..(m - 1) /\ f[i + 1] \in Seq(T) /\ s[(i + 1) + 1] \in Seq(T)
      BY <1>3, <2>1
    <3>2. f[(i + 1) + 1] = f[i + 1] \o s[(i + 1) + 1]
      BY <1>1, <3>1
    <3>3. \A x, y \in Seq(T) : x \o y \in Seq(T)
      BY ConcatProperties
    <3>4. f[(i + 1) + 1] \in Seq(T)
      BY <3>1, <3>2, <3>3
    <3> QED BY <3>4
  <2> QED BY <2>1
<1>4. \A i \in 1..m : f[i] \in Seq(T)
  <2>1. Nat \subseteq S
    <3> HIDE DEF S
    <3> QED BY <1>2, <1>3, AllNaturals
  <2>2. ASSUME NEW i \in 1..m PROVE f[i] \in Seq(T)
    <3>1. i - 1 \in Nat /\ (i - 1) + 1 = i
      OBVIOUS
    <3>2. i - 1 \in S
      BY <2>1, <3>1
    <3> QED BY <3>1, <3>2
  <2> QED BY <2>2
<1>5. ASSUME NEW i \in 1..(m - 1)
      PROVE  /\ Len(f[i + 1]) = Len(f[i]) + Len(s[i + 1])
             /\ \A j \in 1..Len(f[i]) : f[i + 1][j] = f[i][j]
             /\ \A j \in 1..Len(s[i + 1]) : f[i + 1][Len(f[i]) + j] = s[i + 1][j]
  <2>1. i \in 1..m /\ i + 1 \in 1..m
    OBVIOUS
  <2>2. PICK x, y, z : /\ x \in Seq(T) /\ y \in Seq(T) /\ z = x \o y
                       /\ x = f[i] /\ y = s[i + 1] /\ z = f[i + 1]
    BY <1>1, <1>4, <2>1
  <2>3. Len(z) = Len(x) + Len(y) /\ \A j \in 1..(Len(x) + Len(y)) :
           z[j] = IF j <= Len(x) THEN x[j] ELSE y[j - Len(x)]
    <3>1. x \in Seq(T) /\ y \in Seq(T) /\ z = x \o y
      BY <2>2
    <3> HIDE <2>2
    <3> QED BY <3>1, ConcatProperties
  <2>4. Len(x) \in Nat /\ Len(y) \in Nat
    OBVIOUS
  <2>5. ASSUME NEW j \in 1..Len(y) PROVE z[Len(x) + j] = y[j]
    <3>1. /\ Len(x) + j \in 1..(Len(x) + Len(y)) /\ ~(Len(x) + j <= Len(x))
          /\ (Len(x) + j) - Len(x) = j
      BY <2>4
    <3> QED BY <2>3, <3>1
  <2>6. \A j \in 1..Len(x) : z[j] = x[j]
    BY <2>3, <2>4
  <2>7. x = f[i] /\ y = s[i + 1] /\ z = f[i + 1]
    BY <2>2
  <2> QED BY <2>3, <2>5, <2>6, <2>7
<1>6. f \in [1..m -> Seq(T)]
  <2>1. f = [i \in 1..m |-> f[i]]
    BY <1>0 DEF Joins
  <2> QED BY <1>4, <2>1
<1> QED BY <1>1, <1>5, <1>6 DEF Adds

(* The joined sequence holds the elements of each part at one place: after   *)
(* those of the parts before it, which are as many each as w.                *)
PartAt(s, b, w) ==
  (\A c \in 1..(b - 1) : Len(s[c]) = w) =>
    \A j \in 1..Len(s[b]) : /\ (b - 1) * w + j <= Len(FlattenSeq(s))
                            /\ FlattenSeq(s)[(b - 1) * w + j] = s[b][j]

LEMMA FlattenPlaces ==
  ASSUME NEW T, NEW m \in Nat \ {0}, NEW s \in [1..m -> Seq(T)]
  PROVE  /\ FlattenSeq(s) \in Seq(T)
         /\ \A b \in 1..m, w \in Nat : PartAt(s, b, w)
<1>1. Len(s) = m
  OBVIOUS
<1>2. PICK f : Joins(s, f) /\ FlattenSeq(s) = f[m]
  BY <1>1, FlattenIsJoin
<1>3. f \in [1..m -> Seq(T)] /\ f[1] = s[1] /\ \A i \in 1..(m - 1) : Adds(s, f, i)
  BY <1>2, JoinStep
<1>4. \A i \in 1..m : Len(f[i]) \in Nat /\ Len(s[i]) \in Nat
  BY <1>3
<1>5. ASSUME NEW b \in 1..m, NEW j \in Nat, j <= Len(f[b])
      PROVE  j <= Len(f[m]) /\ (j # 0 => f[m][j] = f[b][j])
  <2> DEFINE S == {n \in Nat : b + n <= m =>
                     j <= Len(f[b + n]) /\ (j # 0 => f[b + n][j] = f[b][j])}
  <2>1. 0 \in S
    BY <1>5
  <2>2. ASSUME NEW n \in Nat, n \in S PROVE n + 1 \in S
    <3>1. CASE b + (n + 1) <= m
      <4>1. PICK i : i = b + n
        OBVIOUS
      <4>2. i \in 1..(m - 1) /\ i \in 1..m /\ i + 1 \in 1..m /\ b + (n + 1) = i + 1
        BY <3>1, <4>1
      <4>3. j <= Len(f[i]) /\ (j # 0 => f[i][j] = f[b][j])
        BY <2>2, <4>1, <4>2
      <4>4. Len(f[i + 1]) = Len(f[i]) + Len(s[i + 1]) /\ (j # 0 => f[i + 1][j] = f[i][j])
        <5>1. j # 0 => j \in 1..Len(f[i])
          BY <1>4, <4>2, <4>3
        <5> QED BY <1>3, <4>2, <5>1 DEF Adds
      <4>5. j <= Len(f[i + 1])
        <5>1. PICK x, y : x = Len(f[i]) /\ y = Len(s[i + 1])
          OBVIOUS
        <5>2. x \in Nat /\ y \in Nat
          BY <1>4, <4>2, <5>1
        <5>3. j <= x /\ Len(f[i + 1]) = x + y
          BY <4>3, <4>4, <5>1
        <5> QED BY <5>2, <5>3
      <4>6. j # 0 => f[i + 1][j] = f[b][j]
        BY <4>3, <4>4
      <4>7. j <= Len(f[b + (n + 1)]) /\ (j # 0 => f[b + (n + 1)][j] = f[b][j])
        BY <4>2, <4>5, <4>6
      <4> QED BY <4>7
    <3> QED BY <3>1
  <2>3. Nat \subseteq S
    <3> HIDE DEF S
    <3> QED BY <2>1, <2>2, AllNaturals
  <2>4. m - b \in Nat /\ b + (m - b) = m
    OBVIOUS
  <2>5. m - b \in S
    BY <2>3, <2>4
  <2> QED BY <2>4, <2>5
<1>6. ASSUME NEW b \in 1..m, NEW w \in Nat, \A c \in 1..(b - 1) : Len(s[c]) = w,
             NEW j \in 1..Len(s[b])
      PROVE  /\ (b - 1) * w + j <= Len(FlattenSeq(s))
             /\ FlattenSeq(s)[(b - 1) * w + j] = s[b][j]
  <2> DEFINE S == {n \in Nat : n + 1 < b => Len(f[n + 1]) = (n + 1) * w}
  <2>1. 0 \in S
    BY <1>3, <1>6
  <2>2. ASSUME NEW n \in Nat, n \in S PROVE n + 1 \in S
    <3>1. CASE (n + 1) + 1 < b
      <4>1. n + 1 \in 1..(m - 1) /\ (n + 1) + 1 \in 1..(b - 1) /\ Len(f[n + 1]) = (n + 1) * w
        BY <2>2, <3>1
      <4>2. Len(f[(n + 1) + 1]) = (n + 1) * w + w
        BY <1>3, <1>6, <4>1 DEF Adds
      <4>3. ((n + 1) + 1) * w = (n + 1) * w + w
        BY Multiples
      <4> QED BY <4>2, <4>3
    <3> QED BY <3>1
  <2>3. Nat \subseteq S
    <3> HIDE DEF S
    <3> QED BY <2>1, <2>2, AllNaturals
  <2>4. (b - 1) * w \in Nat
    BY Multiples
  <2>5. /\ (b - 1) * w + j <= Len(f[b])
        /\ f[b][(b - 1) * w + j] = s[b][j]
    <3>1. CASE b = 1
      BY <1>3, <1>4, <3>1
    <3>2. CASE b # 1
      <4>1. PICK i : i = b - 1
        OBVIOUS
      <4>2. i \in 1..(m - 1) /\ i + 1 = b /\ i - 1 \in Nat /\ (i - 1) + 1 = i
        BY <3>2, <4>1
      <4>3. Len(f[i]) = i * w
        <5>1. i - 1 \in S
          BY <2>3, <4>2
        <5> QED BY <4>2, <5>1
      <4>4. Len(f[b]) = i * w + Len(s[b]) /\ f[b][i * w + j] = s[b][j]
        BY <1>3, <4>2, <4>3 DEF Adds
      <4>5. i * w + j <= Len(f[b])
        <5>1. i * w \in Nat /\ Len(s[b]) \in Nat /\ j \in Nat /\ j <= Len(s[b])
          BY <1>4, <2>4, <4>1
        <5> QED BY <4>4, <5>1
      <4> QED BY <4>1, <4>4, <4>5
    <3> QED BY <3>1, <3>2
  <2>6. (b - 1) * w + j \in Nat /\ (b - 1) * w + j # 0
    <3>1. j \in Nat \ {0}
      BY <1>4
    <3>2. \A p \in Nat : p + j \in Nat /\ p + j # 0
      BY <3>1
    <3> QED BY <2>4, <3>2
  <2>7. /\ (b - 1) * w + j <= Len(f[m])
        /\ f[m][(b - 1) * w + j] = s[b][j]
    BY <1>5, <2>5, <2>6
  <2> QED BY <1>2, <2>7
<1>7. FlattenSeq(s) \in Seq(T)
  BY <1>2, <1>3
<1> QED BY <1>6, <1>7 DEF PartAt

-----------------------------------------------------------------------------
(* The batches: each has between one record and BatchSize, numbered from the *)
(* multiple of BatchSize it begins after, and every record is in one.        *)
LEMMA BatchIs ==
  ASSUME NEW b \in Batches
  PROVE  /\ b \in Nat \ {0} /\ (b - 1) * BatchSize \in Nat
         /\ Len(Batch(b)) \in 1..BatchSize
         /\ Batch(b) \in Seq(Records)
         /\ \A i \in 1..Len(Batch(b)) : Batch(b)[i] = (b - 1) * BatchSize + i
         /\ Len(Batch(b)) = IF b * BatchSize <= N THEN BatchSize ELSE N - (b - 1) * BatchSize
<1> DEFINE m == (N + BatchSize - 1) \div BatchSize
           w == BatchSize
           at == (b - 1) * w
           n == Min({b * w, N}) - at
<1>0. N \in Nat /\ w \in Nat \ {0}
  BY UploadPipelineAssumption
<1>1. m \in Nat /\ m * w <= N + w - 1
  BY <1>0, DivBounds
<1>2. b \in Nat \ {0} /\ b <= m /\ b - 1 \in Nat
  BY <1>1 DEF Batches
<1>3. b * w <= m * w /\ b * w = at + w /\ at \in Nat /\ m * w \in Nat
  <2>1. (b - 1) + 1 = b
    BY <1>2
  <2> QED BY <1>0, <1>1, <1>2, <2>1, Multiples
<1> HIDE DEF m, at
<1>4. b * w \in Nat /\ at < N
  BY <1>0, <1>1, <1>3
<1>5. Min({b * w, N}) = IF b * w <= N THEN b * w ELSE N
  <2> DEFINE x == IF b * w <= N THEN b * w ELSE N
  <2>1. x \in {b * w, N} /\ \A y \in {b * w, N} : x <= y
    BY <1>0, <1>4
  <2>2. \A y \in {b * w, N} : (\A z \in {b * w, N} : y <= z) => y = x
    BY <1>0, <1>4
  <2> HIDE DEF x
  <2>3. Min({b * w, N}) = x
    BY <2>1, <2>2 DEF Min
  <2> QED BY <2>3 DEF x
<1>6. n \in 1..w /\ at + n <= N /\ n = IF b * w <= N THEN w ELSE N - at
  BY <1>0, <1>3, <1>4, <1>5
<1>7. Batch(b) = [i \in 1..n |-> at + i]
  BY DEF Batch, at
<1> HIDE DEF n
<1>8. n \in Nat /\ \A i \in 1..n : at + i \in 1..N
  BY <1>0, <1>3, <1>6
<1>9. Batch(b) \in Seq(1..N) /\ Len(Batch(b)) = n /\ \A i \in 1..n : Batch(b)[i] = at + i
  BY <1>7, <1>8
<1> QED BY <1>2, <1>3, <1>6, <1>9 DEF at, Records

LEMMA AnswersAre ==
  ASSUME NEW b \in Batches
  PROVE  Answers(b) \subseteq Seq(0..N)
<1>0. N \in Nat
  BY UploadPipelineAssumption
<1> DEFINE s == Batch(b)
<1>1. s \in Seq(Records) /\ Len(s) \in Nat \ {0}
  <2>1. Len(s) \in 1..BatchSize /\ BatchSize \in Nat
    BY BatchIs, UploadPipelineAssumption
  <2> QED BY <2>1, BatchIs
<1> HIDE DEF s
<1>2. s \in Seq(0..N) /\ \A i \in 1..Len(s) : s[i] \in 0..N
  <2>1. Records \subseteq 0..N
    BY <1>0 DEF Records
  <2>2. s = [i \in 1..Len(s) |-> s[i]] /\ \A i \in 1..Len(s) : s[i] \in Records
    BY <1>1
  <2>3. \A i \in 1..Len(s) : s[i] \in 0..N
    BY <2>1, <2>2
  <2>4. \A n \in Nat : (\A i \in 1..n : s[i] \in 0..N) => [i \in 1..n |-> s[i]] \in Seq(0..N)
    OBVIOUS
  <2>5. [i \in 1..Len(s) |-> s[i]] \in Seq(0..N)
    BY <1>1, <2>3, <2>4
  <2> QED BY <2>2, <2>3, <2>5
<1>3. Reverse(s) \in Seq(0..N)
  <2>1. \A i \in 1..Len(s) : (Len(s) - i) + 1 \in 1..Len(s)
    BY <1>1
  <2>2. \A i \in 1..Len(s) : s[(Len(s) - i) + 1] \in 0..N
    BY <1>2, <2>1
  <2> QED BY <1>1, <2>2 DEF Reverse
<1>4. [i \in DOMAIN s |-> Empty] \in Seq(0..N)
  <2>1. Empty \in 0..N /\ DOMAIN s = 1..Len(s)
    BY <1>0, <1>1 DEF Empty
  <2>2. \A n \in Nat, e \in 0..N : [i \in 1..n |-> e] \in Seq(0..N)
    OBVIOUS
  <2> QED BY <1>1, <2>1, <2>2
<1>5. Tail(s) \in Seq(0..N) /\ Append(s, Last(s)) \in Seq(0..N)
  <2>1. Last(s) \in 0..N
    BY <1>1, <1>2 DEF Last
  <2>2. s # <<>>
    BY <1>1
  <2> QED BY <1>2, <2>1, <2>2
<1> QED BY <1>2, <1>3, <1>4, <1>5 DEF Answers, Raised, s

LEMMA EveryRecordInABatch ==
  ASSUME NEW r \in Records
  PROVE  \E b \in Batches : /\ (b - 1) * BatchSize < r /\ r <= (b - 1) * BatchSize + Len(Batch(b))
                            /\ r \in Range(Batch(b))
<1> DEFINE w == BatchSize
           m == (N + w - 1) \div w
           a == (r - 1) \div w
<1>0. N \in Nat /\ w \in Nat \ {0} /\ r \in 1..N /\ r - 1 \in Nat
  BY UploadPipelineAssumption DEF Records
<1>1. m \in Nat /\ N + w - 1 < m * w + w /\ m * w \in Nat
  BY <1>0, DivBounds, Multiples
<1>2. a \in Nat /\ a * w <= r - 1 /\ r - 1 < a * w + w /\ a * w \in Nat
  BY <1>0, DivBounds, Multiples
<1> HIDE DEF m, a
<1>3. a < m
  <2>1. a * w < m * w
    BY <1>0, <1>1, <1>2
  <2> QED BY <1>0, <1>1, <1>2, <2>1, Multiples
<1>4. PICK b : b = a + 1
  OBVIOUS
<1>5. b \in Batches /\ b - 1 = a
  BY <1>1, <1>2, <1>3, <1>4 DEF Batches, m
<1>6. /\ Len(Batch(b)) \in 1..w /\ Batch(b) \in Seq(Records)
      /\ \A i \in 1..Len(Batch(b)) : Batch(b)[i] = a * w + i
      /\ Len(Batch(b)) = IF b * w <= N THEN w ELSE N - a * w
  BY <1>5, BatchIs
<1>7. b * w = a * w + w
  BY <1>0, <1>2, <1>4, Multiples
<1>8. a * w < r /\ r <= a * w + Len(Batch(b))
  BY <1>0, <1>2, <1>6, <1>7
<1>9. r \in Range(Batch(b))
  <2>1. PICK i : i = r - a * w
    OBVIOUS
  <2>2. i \in 1..Len(Batch(b)) /\ a * w + i = r
    BY <1>0, <1>2, <1>6, <1>8, <2>1
  <2>3. i \in DOMAIN Batch(b) /\ Batch(b)[i] = r
    BY <1>6, <2>2
  <2> QED BY <2>3 DEF Range
<1> QED BY <1>5, <1>8, <1>9

-----------------------------------------------------------------------------
(* What the answers make of the records.                                     *)
Answered == answers \in [Batches -> Seq(0..N)]

LEMMA RowsAre ==
  ASSUME Answered
  PROVE  \A r \in Records : RowOf(r) \in 0..N
<1>0. N \in Nat
  BY UploadPipelineAssumption
<1> DEFINE m == (N + BatchSize - 1) \div BatchSize
           s == [b \in Batches |-> answers[b]]
<1>1. m \in Nat /\ Batches = 1..m
  BY UploadPipelineAssumption, DivBounds DEF Batches
<1>2. s \in [1..m -> Seq(0..N)]
  BY <1>1 DEF Answered
<1> HIDE DEF m, s
<1>3. m # 0 => FlattenSeq(s) \in Seq(0..N)
  BY <1>1, <1>2, FlattenPlaces
<1>4. m = 0 => FlattenSeq(s) \in Seq(0..N)
  <2> SUFFICES ASSUME m = 0 PROVE FlattenSeq(s) \in Seq(0..N)
    OBVIOUS
  <2>1. s = <<>>
    BY <1>2
  <2> QED BY <2>1 DEF FlattenSeq
<1>5. Cleaned \in Seq(0..N)
  BY <1>3, <1>4 DEF Cleaned, s
<1> SUFFICES ASSUME NEW r \in Records PROVE RowOf(r) \in 0..N
  OBVIOUS
<1> QED BY <1>0, <1>5 DEF RowOf, Empty, Records

(* A record of which no batch before, nor its own, was answered otherwise    *)
(* than it should be has its own row.                                        *)
Misplaced(r, b) ==
  \/ r \in Range(Batch(b)) /\ answers[b] # Batch(b)
  \/ b * BatchSize < r /\ Len(answers[b]) # Len(Batch(b))

LEMMA RowInPlace ==
  ASSUME Answered, NEW r \in Records, \A b \in Batches : ~Misplaced(r, b)
  PROVE  RowOf(r) = r
<1> DEFINE w == BatchSize
           m == (N + w - 1) \div w
           s == [b \in Batches |-> answers[b]]
<1>0. N \in Nat /\ w \in Nat \ {0} /\ r \in 1..N
  BY UploadPipelineAssumption DEF Records
<1>1. m \in Nat /\ Batches = 1..m
  BY UploadPipelineAssumption, DivBounds DEF Batches
<1>2. s \in [1..m -> Seq(0..N)] /\ \A b \in Batches : s[b] = answers[b]
  BY <1>1 DEF Answered
<1>3. Cleaned = FlattenSeq(s)
  BY DEF Cleaned
<1> HIDE DEF m, s
<1>4. PICK b \in Batches : /\ (b - 1) * w < r /\ r <= (b - 1) * w + Len(Batch(b))
                           /\ r \in Range(Batch(b))
  BY EveryRecordInABatch
<1>5. /\ b \in Nat \ {0} /\ (b - 1) * w \in Nat /\ Len(Batch(b)) \in 1..w
      /\ \A i \in 1..Len(Batch(b)) : Batch(b)[i] = (b - 1) * w + i
  BY <1>4, BatchIs
<1>6. s[b] = Batch(b) /\ m # 0 /\ b \in 1..m
  BY <1>1, <1>2, <1>4 DEF Misplaced
<1>7. ASSUME NEW c \in 1..(b - 1) PROVE Len(s[c]) = w
  <2>1. c \in Batches /\ c \in Nat /\ b - 1 \in Nat /\ c <= b - 1
    BY <1>1, <1>5, <1>6
  <2>2. c * w <= (b - 1) * w /\ c * w \in Nat
    BY <1>0, <2>1, Multiples
  <2>3. c * w < r /\ c * w <= N
    <3>1. \A x, y \in Nat : x <= y /\ y < r => x < r /\ x <= N
      BY <1>0
    <3> QED BY <1>4, <1>5, <2>2, <3>1
  <2>4. Len(answers[c]) = Len(Batch(c))
    BY <2>1, <2>3 DEF Misplaced
  <2>5. Len(Batch(c)) = w
    BY <2>1, <2>3, BatchIs
  <2> QED BY <1>2, <2>1, <2>4, <2>5
<1>8. \A j \in 1..Len(s[b]) : /\ (b - 1) * w + j <= Len(FlattenSeq(s))
                              /\ FlattenSeq(s)[(b - 1) * w + j] = s[b][j]
  <2>1. \A c \in 1..(b - 1) : Len(s[c]) = w
    BY <1>7
  <2>2. m \in Nat \ {0} /\ w \in Nat
    BY <1>0, <1>1, <1>6
  <2>3. PartAt(s, b, w)
    BY <1>2, <1>6, <2>2, FlattenPlaces
  <2> QED BY <2>1, <2>3 DEF PartAt
<1>9. PICK j : j = r - (b - 1) * w
  OBVIOUS
<1>10. j \in 1..Len(Batch(b)) /\ (b - 1) * w + j = r
  BY <1>0, <1>4, <1>5, <1>9
<1>11. r <= Len(Cleaned) /\ Cleaned[r] = r
  BY <1>3, <1>5, <1>6, <1>8, <1>10
<1> QED BY <1>11 DEF RowOf

-----------------------------------------------------------------------------
(* The inductive invariant of the pipeline.  A row of the table is of a      *)
(* record the loop has passed, with the data the record still has; the       *)
(* records of the rows are those uploaded and those whose commit was not     *)
(* answered, which failed; and a record that is still to be inserted is one  *)
(* the loop has not come to, with data that validates.                       *)
EarlyStages == {"parse", "none", "clean", "validate"}
LateStages  == {"notify", "finish", "finish untold", "done", "done untold"}

Shaped ==
  /\ status \in [Records -> {"PENDING", "CLEANING", "FAILED", "VALIDATED", "UPLOADED"}]
  /\ data \in [Records -> 0..N]
  /\ next \in Nat
  /\ table \in Seq([of : Records, row : Records \ Invalid])
  /\ unsure \subseteq Records

Cleaning ==
  stage \in {"parse", "clean"} => \E D \in SUBSET Batches : answers \in [D -> Seq(0..N)]

Early ==
  /\ stage \in EarlyStages =>
       /\ table = <<>> /\ unsure = {} /\ next = 1
       /\ \A r \in Records : status[r] \notin {"VALIDATED", "UPLOADED"}
  /\ stage = "validate" => \A r \in Records : data[r] = Empty => status[r] = "FAILED"

Placed ==
  /\ \A i \in DOMAIN table : table[i].of < next /\ table[i].row = data[table[i].of]
  /\ \A i, j \in DOMAIN table : table[i].of = table[j].of => i = j
  /\ {table[i].of : i \in DOMAIN table} = WithStatus("UPLOADED") \cup unsure
  /\ unsure \subseteq WithStatus("FAILED")

Coming ==
  /\ \A r \in Records : status[r] = "VALIDATED" => r >= next /\ data[r] \in Records \ Invalid
  /\ stage \in {"upload"} \cup LateStages =>
       \A r \in Records : status[r] \in {"VALIDATED", "FAILED", "UPLOADED"}
  /\ stage \in LateStages => \A r \in Records : status[r] # "VALIDATED"

Told == {<<cat, Cardinality(Imported(cat))>> : cat \in Affected \cap Managed}
Telling ==
  /\ stage \in EarlyStages \cup {"upload", "notify"} => notices = {}
  /\ stage \in {"finish", "done"} => notices = Told

Shifted ==
  stage \notin {"parse", "clean", "none", "aborted"} =>
    \A r \in Records : data[r] \in {Empty, r} \/ \E b \in Batches : Misplaced(r, b)

UploadInv == Shaped /\ Cleaning /\ Early /\ Placed /\ Coming /\ Telling /\ Shifted

LEMMA LeastExists ==
  ASSUME NEW S \in SUBSET Nat, S # {}
  PROVE  Min(S) \in S /\ \A y \in S : Min(S) <= y
<1>1. \E x \in S : \A y \in S : x <= y
  <2> SUFFICES ASSUME \A x \in S : \E y \in S : y < x PROVE FALSE
    OBVIOUS
  <2> DEFINE T == {n \in Nat : \A x \in S : x > n}
  <2>1. 0 \in T
    OBVIOUS
  <2>2. \A n \in Nat : n \in T => n + 1 \in T
    OBVIOUS
  <2>3. Nat \subseteq T
    <3> HIDE DEF T
    <3> QED BY <2>1, <2>2, AllNaturals
  <2>4. PICK x \in S : TRUE
    OBVIOUS
  <2>5. x \in T
    BY <2>3
  <2>6. x \in Nat /\ x > x
    BY <2>5
  <2> QED BY <2>6
<1> QED BY <1>1 DEF Min

-----------------------------------------------------------------------------
LEMMA UploadInitInv == PipelineInit => UploadInv
<1> SUFFICES ASSUME PipelineInit PROVE UploadInv
  OBVIOUS
<1>1. N \in Nat
  BY UploadPipelineAssumption
<1>2. Shaped
  BY <1>1 DEF PipelineInit, Shaped, Empty
<1>3. Cleaning
  <2>1. answers \in [{} -> Seq(0..N)]
    BY DEF PipelineInit
  <2> QED BY <2>1 DEF Cleaning
<1>4. Early /\ Telling /\ Shifted
  BY DEF PipelineInit, Early, EarlyStages, Telling, Shifted
<1>5. Placed /\ Coming
  BY DEF PipelineInit, Placed, Coming, LateStages, WithStatus
<1> QED BY <1>2, <1>3, <1>4, <1>5 DEF UploadInv

(* What a step keeps that changes neither a record nor the table.            *)
LEMMA RowsKept ==
  ASSUME UploadInv, UNCHANGED <<data, status, next, table, unsure>>
  PROVE  /\ Shaped' /\ Placed' /\ Told' = Told
         /\ \A S : WithStatus(S)' = WithStatus(S)
         /\ \A r \in Records : status'[r] = "VALIDATED" => r >= next' /\ data'[r] \in Records \ Invalid
  BY DEF UploadInv, Shaped, Placed, Coming, WithStatus, Told, Imported, Affected

LEMMA ParseStep ==
  ASSUME UploadInv, NEW found \in BOOLEAN, Parse(found)
  PROVE  UploadInv'
<1>1. /\ stage = "parse" /\ stage' \in {"clean", "none"}
      /\ UNCHANGED <<answers, data, next, table, notices, unsure>>
      /\ status' = status \/ status' = [r \in Records |-> "CLEANING"]
  BY DEF Parse
<1>2. /\ table = <<>> /\ unsure = {} /\ notices = {}
      /\ \A r \in Records : status'[r] \notin {"VALIDATED", "UPLOADED"}
  BY <1>1 DEF UploadInv, Early, EarlyStages, Telling
<1>3. Shaped'
  BY <1>1 DEF UploadInv, Shaped
<1>4. Cleaning' /\ Early' /\ Telling' /\ Shifted'
  BY <1>1, <1>2 DEF UploadInv, Cleaning, Early, EarlyStages, Telling, Shifted
<1>5. Placed'
  BY <1>1, <1>2 DEF Placed, WithStatus
<1>6. Coming'
  BY <1>1, <1>2 DEF Coming, LateStages
<1> QED BY <1>3, <1>4, <1>5, <1>6 DEF UploadInv

LEMMA CleanBatchStep ==
  ASSUME UploadInv, NEW b \in Batches, NEW a \in Answers(b), CleanBatch(b, a)
  PROVE  UploadInv'
<1>1. /\ stage = "clean" /\ UNCHANGED <<stage, data, status, next, table, notices, unsure>>
      /\ answers' = [x \in DOMAIN answers \cup {b} |-> IF x = b THEN a ELSE answers[x]]
  BY DEF CleanBatch
<1>2. Cleaning'
  <2>1. a \in Seq(0..N)
    BY AnswersAre
  <2>2. PICK D \in SUBSET Batches : answers \in [D -> Seq(0..N)]
    BY <1>1 DEF UploadInv, Cleaning
  <2>3. answers' \in [D \cup {b} -> Seq(0..N)] /\ D \cup {b} \in SUBSET Batches
    BY <1>1, <2>1, <2>2
  <2> QED BY <2>3 DEF Cleaning
<1>3. Early' /\ Telling' /\ Shifted' /\ Coming'
  BY <1>1, RowsKept DEF UploadInv, Early, EarlyStages, Telling, Shifted, Coming, LateStages
<1> QED BY <1>1, <1>2, <1>3, RowsKept DEF UploadInv

LEMMA AlignStep ==
  ASSUME UploadInv, Align
  PROVE  UploadInv'
<1>1. /\ stage = "clean" /\ stage' = "validate" /\ DOMAIN answers = Batches
      /\ UNCHANGED <<answers, next, table, notices, unsure>>
      /\ data' = [r \in Records |-> RowOf(r)]
      /\ status' = [r \in Records |-> IF RowOf(r) = Empty THEN "FAILED" ELSE status[r]]
  BY DEF Align
<1>2. Answered
  BY <1>1 DEF UploadInv, Cleaning, Answered
<1>3. /\ table = <<>> /\ unsure = {} /\ notices = {} /\ next = 1
      /\ \A r \in Records : status'[r] \notin {"VALIDATED", "UPLOADED"}
      /\ \A r \in Records : data'[r] = Empty => status'[r] = "FAILED"
  BY <1>1 DEF UploadInv, Early, EarlyStages, Telling
<1>4. Shaped'
  BY <1>1, <1>2, RowsAre DEF UploadInv, Shaped
<1>5. Cleaning' /\ Early' /\ Telling'
  BY <1>1, <1>3 DEF Cleaning, Early, EarlyStages, Telling
<1>6. Placed' /\ Coming'
  BY <1>1, <1>3 DEF Placed, Coming, LateStages, WithStatus
<1>7. Shifted'
  <2>1. ASSUME NEW r \in Records
        PROVE  data'[r] \in {Empty, r} \/ \E b \in Batches : Misplaced(r, b)'
    <3>1. (\A b \in Batches : ~Misplaced(r, b)) => data'[r] = r
      BY <1>1, <1>2, RowInPlace
    <3>2. \A b \in Batches : Misplaced(r, b)' <=> Misplaced(r, b)
      BY <1>1 DEF Misplaced
    <3> QED BY <3>1, <3>2
  <2> QED BY <2>1 DEF Shifted
<1> QED BY <1>4, <1>5, <1>6, <1>7 DEF UploadInv

LEMMA ValidateStep ==
  ASSUME UploadInv, Validate
  PROVE  UploadInv'
<1>1. /\ stage = "validate" /\ stage' = "upload"
      /\ UNCHANGED <<answers, data, next, table, notices, unsure>>
      /\ status' = [r \in Records |-> IF status[r] = "FAILED" \/ data[r] \in Invalid
                                      THEN "FAILED" ELSE "VALIDATED"]
  BY DEF Validate
<1>2. /\ table = <<>> /\ unsure = {} /\ notices = {} /\ next = 1
      /\ \A r \in Records : data[r] = Empty => status[r] = "FAILED"
  BY <1>1 DEF UploadInv, Early, EarlyStages, Telling
<1>3. Shaped' /\ data \in [Records -> 0..N] /\ N \in Nat
  BY <1>1, UploadPipelineAssumption DEF UploadInv, Shaped
<1>4. Cleaning' /\ Early' /\ Telling' /\ Shifted'
  BY <1>1, <1>2 DEF UploadInv, Cleaning, Early, EarlyStages, Telling, Shifted, Misplaced
<1>5. Placed'
  BY <1>1, <1>2 DEF Placed, WithStatus
<1>6. Coming'
  <2>1. \A r \in Records : r \in Nat /\ r >= 1 /\ (data[r] # Empty => data[r] \in Records)
    BY <1>3 DEF Records, Empty
  <2> QED BY <1>1, <1>2, <2>1 DEF Coming, LateStages
<1> QED BY <1>3, <1>4, <1>5, <1>6 DEF UploadInv

(* The record the loop comes to is the first one it has not passed.          *)
LEMMA ComingIsFirst ==
  ASSUME UploadInv, NEW r, ComesTo(r)
  PROVE  /\ r \in Records /\ r >= next /\ status[r] = "VALIDATED" /\ data[r] \in Records \ Invalid
         /\ \A o \in Records : status[o] = "VALIDATED" => o >= r
<1>1. Due \in SUBSET Nat /\ Due # {} /\ r = Min(Due)
  BY UploadPipelineAssumption DEF ComesTo, Due, Records
<1>2. r \in Due /\ \A y \in Due : r <= y
  BY <1>1, LeastExists
<1>3. \A o \in Records : status[o] = "VALIDATED" => o \in Due /\ o \in Nat
  BY <1>1 DEF UploadInv, Coming, Due
<1>4. r \in Records /\ r >= next /\ status[r] = "VALIDATED" /\ r \in Nat
  BY <1>1, <1>2 DEF Due
<1>5. \A o \in Records : status[o] = "VALIDATED" => o >= r
  BY <1>2, <1>3, <1>4
<1> QED BY <1>4, <1>5 DEF UploadInv, Coming

(* What a row of the table is.                                               *)
LEMMA RowsOfTheTable ==
  ASSUME Shaped
  PROVE  \A i \in DOMAIN table : table[i].of \in Records /\ table[i].row \in Records \ Invalid
<1> DEFINE T == [of : Records, row : Records \ Invalid]
<1>1. table \in Seq(T)
  BY DEF Shaped
<1>2. \A x \in T : x.of \in Records /\ x.row \in Records \ Invalid
  OBVIOUS
<1> HIDE DEF T
<1>3. DOMAIN table = 1..Len(table)
  BY <1>1
<1>4. \A i \in 1..Len(table) : table[i] \in T
  BY <1>1, ElementOfSeq
<1> QED BY <1>2, <1>3, <1>4

(* It is inserted, or fails, or both.                                        *)
LEMMA RecordStep ==
  ASSUME UploadInv, NEW r \in Records, Insert(r) \/ \E committed \in BOOLEAN : InsertionFails(r, committed)
  PROVE  UploadInv'
<1> DEFINE row1 == [of |-> r, row |-> data[r]]
<1>1. /\ ComesTo(r) /\ next' = r + 1
      /\ UNCHANGED <<stage, answers, data, notices>>
      /\ \/ /\ table' = Append(table, row1) /\ unsure' = unsure
            /\ status' = [status EXCEPT ![r] = "UPLOADED"]
         \/ /\ table' = Append(table, row1) /\ unsure' = unsure \cup {r}
            /\ status' = [status EXCEPT ![r] = "FAILED"]
         \/ /\ table' = table /\ unsure' = unsure
            /\ status' = [status EXCEPT ![r] = "FAILED"]
  BY DEF Insert, InsertionFails, Row
<1>2. /\ stage = "upload" /\ r >= next /\ status[r] = "VALIDATED" /\ data[r] \in Records \ Invalid
      /\ \A o \in Records : status[o] = "VALIDATED" => o >= r
  BY <1>1, ComingIsFirst DEF ComesTo
<1>3. Shaped /\ Placed /\ Coming /\ next \in Nat /\ \A o \in Records : o \in Nat
  BY UploadPipelineAssumption DEF UploadInv, Shaped, Records
<1>4. /\ \A o \in Records \ {r} : status'[o] = status[o]
      /\ status'[r] \in {"UPLOADED", "FAILED"}
      /\ status' \in [Records -> {"PENDING", "CLEANING", "FAILED", "VALIDATED", "UPLOADED"}]
  BY <1>1, <1>3 DEF Shaped
<1> DEFINE T == [of : Records, row : Records \ Invalid]
<1>5. table \in Seq(T) /\ row1 \in T /\ Len(table) \in Nat
  BY <1>2, <1>3 DEF Shaped
<1>6. Coming'
  BY <1>1, <1>2, <1>3, <1>4 DEF Coming, LateStages
<1>7. Cleaning' /\ Early' /\ Telling' /\ Shifted'
  <2>1. stage' = "upload" /\ notices' = {}
    BY <1>1, <1>2 DEF UploadInv, Telling
  <2> QED BY <1>1, <1>2, <2>1 DEF UploadInv, Cleaning, Early, EarlyStages, Telling, Shifted, Misplaced
<1>8. CASE table' = table
  <2>1. unsure' = unsure /\ status'[r] = "FAILED"
    <3>1. table # Append(table, row1)
      <4>1. Len(Append(table, row1)) = Len(table) + 1
        BY <1>5, AppendProperties
      <4> QED BY <1>5, <4>1
    <3> QED BY <1>1, <1>3, <1>8, <3>1 DEF Shaped
  <2>2. Shaped'
    BY <1>1, <1>3, <1>4, <1>8, <2>1 DEF Shaped
  <2>3. WithStatus("UPLOADED")' = WithStatus("UPLOADED")
        /\ WithStatus("FAILED") \subseteq WithStatus("FAILED")'
    BY <1>2, <1>4, <2>1 DEF WithStatus
  <2>4. Placed'
    <3>1. \A i \in DOMAIN table : table[i].of < next' /\ table[i].row = data'[table[i].of]
      <4> TAKE i \in DOMAIN table
      <4>1. table[i].of \in Records
        BY <1>3, RowsOfTheTable
      <4>2. table[i].of \in Nat /\ table[i].of < next /\ table[i].row = data[table[i].of]
        BY <1>3, <4>1 DEF Placed
      <4> QED BY <1>1, <1>2, <1>3, <4>2
    <3>2. {table[i].of : i \in DOMAIN table} = WithStatus("UPLOADED")' \cup unsure'
      BY <1>3, <2>1, <2>3 DEF Placed
    <3>3. unsure' \subseteq WithStatus("FAILED")'
      BY <1>3, <2>1, <2>3 DEF Placed
    <3>4. \A i, j \in DOMAIN table : table[i].of = table[j].of => i = j
      BY <1>3 DEF Placed
    <3> QED BY <1>8, <3>1, <3>2, <3>3, <3>4 DEF Placed
  <2> QED BY <1>6, <1>7, <2>2, <2>4 DEF UploadInv
<1>9. CASE table' = Append(table, row1)
  <2>1. /\ table' \in Seq(T) /\ Len(table') = Len(table) + 1
        /\ \A i \in 1..Len(table) : table'[i] = table[i]
        /\ table'[Len(table) + 1] = row1
    BY <1>5, <1>9, AppendProperties
  <2>2. PICK n \in Nat : n = Len(table)
    BY <1>5
  <2>3. DOMAIN table = 1..n /\ DOMAIN table' = 1..(n + 1) /\ table'[n + 1] = row1
        /\ \A i \in 1..n : table'[i] = table[i] /\ table[i].of \in Records
    <3>1. DOMAIN table = 1..n /\ DOMAIN table' = 1..(n + 1)
      BY <1>5, <2>1, <2>2
    <3>2. \A i \in 1..n : table[i].of \in Records
      BY <1>3, <3>1, RowsOfTheTable
    <3> QED BY <2>1, <2>2, <3>1, <3>2
  <2> HIDE DEF row1, T
  <2>4. \A i \in 1..n : table[i].of < r /\ table[i].of \in Nat
    BY <1>2, <1>3, <2>3 DEF Placed
  <2>5. row1.of = r /\ row1.row = data[r]
    BY DEF row1
  <2>6. \A i \in 1..(n + 1) : i \in 1..n \/ i = n + 1
    OBVIOUS
  <2>7. \A i \in DOMAIN table' : table'[i].of < next' /\ table'[i].row = data'[table'[i].of]
    <3>1. ASSUME NEW i \in 1..n
          PROVE  table'[i].of < next' /\ table'[i].row = data'[table'[i].of]
      <4>1. table[i].of < next' /\ table[i].row = data[table[i].of]
        BY <1>1, <1>3, <2>3, <2>4 DEF Placed
      <4> QED BY <1>1, <2>3, <4>1
    <3>2. table'[n + 1].of < next' /\ table'[n + 1].row = data'[table'[n + 1].of]
      BY <1>1, <1>3, <2>3, <2>5
    <3> QED BY <2>3, <2>6, <3>1, <3>2
  <2>8. \A i, j \in DOMAIN table' : table'[i].of = table'[j].of => i = j
    <3>1. \A i, j \in 1..n : table'[i].of = table'[j].of => i = j
      BY <1>3, <2>3 DEF Placed
    <3>2. \A i \in 1..n : table'[i].of # table'[n + 1].of
      BY <1>3, <2>3, <2>4, <2>5
    <3> QED BY <2>3, <2>6, <3>1, <3>2
  <2>9. {table'[i].of : i \in DOMAIN table'} = {table[i].of : i \in DOMAIN table} \cup {r}
    BY <2>3, <2>5, <2>6
  <2>10. WithStatus("UPLOADED")' \cup unsure' = WithStatus("UPLOADED") \cup unsure \cup {r}
         /\ unsure' \subseteq WithStatus("FAILED")' /\ unsure' \subseteq Records
    <3>1. CASE status'[r] = "UPLOADED"
      <4>1. unsure' = unsure /\ r \notin WithStatus("FAILED")
        BY <1>1, <1>2, <1>3, <3>1 DEF Shaped, WithStatus
      <4>2. /\ WithStatus("UPLOADED")' = WithStatus("UPLOADED") \cup {r}
            /\ WithStatus("FAILED") \subseteq WithStatus("FAILED")'
        BY <1>2, <1>4, <3>1 DEF WithStatus
      <4> QED BY <1>3, <4>1, <4>2 DEF Placed, Shaped
    <3>2. CASE status'[r] = "FAILED"
      <4>1. /\ WithStatus("UPLOADED")' = WithStatus("UPLOADED")
            /\ WithStatus("FAILED")' = WithStatus("FAILED") \cup {r}
        BY <1>2, <1>4, <3>2 DEF WithStatus
      <4>2. unsure' = unsure \cup {r}
        <5>1. table # Append(table, row1)
          BY <1>9, <2>1, <2>2
        <5>2. status' # [status EXCEPT ![r] = "UPLOADED"]
          BY <1>3, <3>2 DEF Shaped
        <5> QED BY <1>1, <1>9, <5>1, <5>2
      <4> QED BY <1>3, <4>1, <4>2 DEF Placed, Shaped
    <3> QED BY <1>4, <3>1, <3>2
  <2>11. Shaped'
    BY <1>1, <1>3, <1>4, <2>1, <2>10 DEF Shaped, T
  <2>12. Placed'
    BY <1>3, <2>7, <2>8, <2>9, <2>10 DEF Placed
  <2> QED BY <1>6, <1>7, <2>11, <2>12 DEF UploadInv
<1> QED BY <1>1, <1>8, <1>9

LEMMA EndUploadStep ==
  ASSUME UploadInv, EndUpload
  PROVE  UploadInv'
<1>1. /\ stage = "upload" /\ Due = {}
      /\ stage' = IF WithStatus("UPLOADED") = {} THEN "finish" ELSE "notify"
      /\ UNCHANGED <<answers, data, status, next, table, notices, unsure>>
  BY DEF EndUpload, work
<1>2. Shaped' /\ Placed' /\ Told' = Told
  BY <1>1, RowsKept
<1>3. Coming'
  <2>1. \A r \in Records : status[r] # "VALIDATED"
    BY <1>1 DEF UploadInv, Coming, Due
  <2> QED BY <1>1, <2>1 DEF UploadInv, Coming, LateStages
<1>4. Telling'
  <2>1. notices = {}
    BY <1>1 DEF UploadInv, Telling
  <2>2. WithStatus("UPLOADED") = {} => Told = {}
    BY DEF Told, Affected
  <2> QED BY <1>1, <1>2, <2>1, <2>2 DEF Telling, EarlyStages
<1>5. Cleaning' /\ Early' /\ Shifted'
  BY <1>1 DEF UploadInv, Cleaning, Early, EarlyStages, Shifted, Misplaced
<1> QED BY <1>2, <1>3, <1>4, <1>5 DEF UploadInv

LEMMA NotifyStep ==
  ASSUME UploadInv, NEW stored \in BOOLEAN, Notify(stored)
  PROVE  UploadInv'
<1>1. /\ stage = "notify"
      /\ stage' = IF stored THEN "finish" ELSE "finish untold"
      /\ stored => notices' = Told
      /\ UNCHANGED <<answers, data, status, next, table, unsure>>
  BY DEF Notify, work, Told
<1>2. Shaped' /\ Placed' /\ Told' = Told
  BY <1>1, RowsKept
<1>3. Coming'
  BY <1>1 DEF UploadInv, Coming, LateStages
<1>4. Telling'
  BY <1>1, <1>2 DEF Telling, EarlyStages
<1>5. Cleaning' /\ Early' /\ Shifted'
  BY <1>1 DEF UploadInv, Cleaning, Early, EarlyStages, Shifted, Misplaced
<1> QED BY <1>2, <1>3, <1>4, <1>5 DEF UploadInv

(* The steps at the end: the answer, an exception, and the gateway.          *)
LEMMA EndStep ==
  ASSUME UploadInv, Complete \/ Abort \/ GiveUp
  PROVE  UploadInv'
<1>1. /\ UNCHANGED <<answers, data, status, next, table, notices, unsure>>
      /\ \/ stage' = "aborted"
         \/ stage' = stage
         \/ stage = "finish" /\ stage' = "done"
         \/ stage = "finish untold" /\ stage' = "done untold"
  BY DEF Complete, Abort, GiveUp, work
<1>2. Shaped' /\ Placed' /\ Told' = Told
  BY <1>1, RowsKept
<1>3. Coming'
  BY <1>1 DEF UploadInv, Coming, LateStages
<1>4. Telling'
  BY <1>1, <1>2 DEF UploadInv, Telling, EarlyStages
<1>5. Cleaning' /\ Early' /\ Shifted'
  BY <1>1 DEF UploadInv, Cleaning, Early, EarlyStages, Shifted, Misplaced
<1> QED BY <1>2, <1>3, <1>4, <1>5 DEF UploadInv

LEMMA UploadNextInv == UploadInv /\ [PipelineNext]_pipelineVars => UploadInv'
<1> SUFFICES ASSUME UploadInv, [PipelineNext]_pipelineVars PROVE UploadInv'
  OBVIOUS
<1>1. CASE UNCHANGED pipelineVars
  <2>1. UNCHANGED <<stage, answers, data, status, next, table, notices, unsure>>
    BY <1>1 DEF pipelineVars, work
  <2>2. Shaped' /\ Placed' /\ Told' = Told
    BY <2>1, RowsKept
  <2> QED BY <2>1, <2>2 DEF UploadInv, Cleaning, Early, Coming, Telling, Shifted, Misplaced
<1>2. CASE PipelineNext
  <2>1. CASE \E found \in BOOLEAN : Parse(found)
    BY <2>1, ParseStep
  <2>2. CASE \E b \in Batches : \E a \in Answers(b) : CleanBatch(b, a)
    BY <2>2, CleanBatchStep
  <2>3. CASE Align \/ Validate
    BY <2>3, AlignStep, ValidateStep
  <2>4. CASE \E r \in Records : Insert(r) \/ \E committed \in BOOLEAN : InsertionFails(r, committed)
    BY <2>4, RecordStep
  <2>5. CASE EndUpload \/ (\E stored \in BOOLEAN : Notify(stored))
    BY <2>5, EndUploadStep, NotifyStep
  <2>6. CASE Complete \/ Abort \/ GiveUp
    BY <2>6, EndStep
  <2> QED BY <1>2, <2>1, <2>2, <2>3, <2>4, <2>5, <2>6 DEF PipelineNext
<1> QED BY <1>1, <1>2

(* The inductive invariant of one upload through the AI service.             *)
THEOREM UploadInvariance == PipelineSpec => []UploadInv
BY UploadInitInv, UploadNextInv, PTL DEF PipelineSpec

(* For any file, batch size and answers of the language model: a record is   *)
(* given the row of another one only because its own batch, or the number of *)
(* rows of one before it, was answered otherwise than it should be.          *)
THEOREM ShiftsExplained == PipelineSpec => []ShiftExplained
<1>1. UploadInv => ShiftExplained
  BY DEF UploadInv, Shifted, ShiftExplained, Misplaced
<1> QED BY <1>1, UploadInvariance, PTL

(* For any file and faults: no record is inserted twice, no row that does    *)
(* not validate is inserted, and in the end each record is in the table, has *)
(* failed, or both if its commit was not answered.                           *)
THEOREM RecordsAccounted == PipelineSpec => []EveryRecordAccounted
<1>1. UploadInv => EveryRecordAccounted
  <2> SUFFICES ASSUME UploadInv PROVE EveryRecordAccounted
    OBVIOUS
  <2>1. Shaped /\ Placed /\ Coming
    BY DEF UploadInv
  <2>2. \A i \in DOMAIN table : table[i].row \in Records \ Invalid
    BY <2>1, RowsOfTheTable
  <2>3. Done => WithStatus("UPLOADED") \cup WithStatus("FAILED") = Records
    BY <2>1 DEF Done, Coming, LateStages, WithStatus
  <2> QED BY <2>1, <2>2, <2>3 DEF Placed, EveryRecordAccounted
<1> QED BY <1>1, UploadInvariance, PTL

(* For any file and categories: the manager of a category is told of the     *)
(* import with the number of rows it brought, unless the notifications       *)
(* failed or a commit was not answered.                                      *)
THEOREM ManagersTold == PipelineSpec => []ManagersAreTold
<1>1. UploadInv => ManagersAreTold
  <2> SUFFICES ASSUME UploadInv, stage = "done", NEW cat \in Managed
               PROVE  LET rows == {i \in DOMAIN table : /\ CategoryOf[table[i].row] = cat
                                                         /\ table[i].of \notin unsure}
                          told == {n \in notices : n[1] = cat}
                      IN  told = IF rows = {} THEN {} ELSE {<<cat, Cardinality(rows)>>}
    BY DEF ManagersAreTold
  <2> DEFINE rows == {i \in DOMAIN table : /\ CategoryOf[table[i].row] = cat
                                           /\ table[i].of \notin unsure}
             of == [i \in rows |-> table[i].of]
  <2>1. Shaped /\ Placed /\ notices = Told
    BY DEF UploadInv, Telling
  <2>2. DOMAIN table = 1..Len(table) /\ Len(table) \in Nat
        /\ \A i \in DOMAIN table : table[i].of \in Records
    <3>1. DOMAIN table = 1..Len(table) /\ Len(table) \in Nat
      BY <2>1 DEF Shaped
    <3> QED BY <2>1, <3>1, RowsOfTheTable
  <2>3. \A i \in rows : table[i].of \in Imported(cat)
    BY <2>1, <2>2 DEF Placed, Imported
  <2>4. \A r \in Imported(cat) : \E i \in rows : table[i].of = r
    <3> SUFFICES ASSUME NEW r \in Imported(cat) PROVE \E i \in rows : table[i].of = r
      OBVIOUS
    <3>1. r \in WithStatus("UPLOADED") /\ CategoryOf[data[r]] = cat
      BY DEF Imported
    <3>2. PICK i \in DOMAIN table : table[i].of = r
      BY <2>1, <3>1 DEF Placed
    <3>3. r \notin unsure
      BY <2>1, <3>1 DEF Placed, WithStatus
    <3> QED BY <2>1, <3>1, <3>2, <3>3 DEF Placed
  <2>5. of \in Bijection(rows, Imported(cat))
    <3>1. of \in [rows -> Imported(cat)]
      BY <2>3
    <3>2. \A i, j \in rows : of[i] = of[j] => i = j
      BY <2>1 DEF Placed
    <3>3. \A r \in Imported(cat) : \E i \in rows : of[i] = r
      BY <2>4
    <3> HIDE DEF rows, of
    <3> QED BY <3>1, <3>2, <3>3, Fun_IsBij
  <2>6. IsFiniteSet(rows)
    <3>1. IsFiniteSet(1..Len(table)) /\ rows \subseteq 1..Len(table)
      BY <2>2, FS_Interval
    <3> QED BY <3>1, FS_Subset
  <2> HIDE DEF rows, of
  <2>7. Cardinality(Imported(cat)) = Cardinality(rows)
    BY <2>5, <2>6, FS_Bijection DEF ExistsBijection
  <2>8. (rows = {}) <=> (Imported(cat) = {})
    BY <2>5, Fun_BijectionProperties
  <2>9. cat \in Affected <=> Imported(cat) # {}
    BY DEF Affected, Imported
  <2>10. {n \in notices : n[1] = cat} =
           IF Imported(cat) = {} THEN {} ELSE {<<cat, Cardinality(Imported(cat))>>}
    BY <2>1, <2>9 DEF Told
  <2> QED BY <2>7, <2>8, <2>10 DEF rows
<1> QED BY <1>1, UploadInvariance, PTL

(* Imports does what its two sides do, and nothing else: all theorems of     *)
(* this module hold of it.                                                   *)
THEOREM ImportsAreTheirSides == ImportsSpec => Spec /\ PipelineSpec
<1>1. ImportsInit => Init /\ PipelineInit
  BY DEF ImportsInit
<1>2. [ImportsNext]_allVars => [Next]_vars /\ [PipelineNext]_pipelineVars
  BY DEF ImportsNext, allVars
<1> QED
  BY <1>1, <1>2, PTL DEF ImportsSpec, Spec, PipelineSpec
=============================================================================
