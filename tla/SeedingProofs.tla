---------------------------- MODULE SeedingProofs ----------------------------
(***************************************************************************)
(* The seed script for every file, batch size and number of overlapping    *)
(* runs: where the transactions are filed, which categories exist twice,   *)
(* and what failed runs leave of the file.                                 *)
(***************************************************************************)
EXTENDS Seeding, FiniteSetTheorems, TLAPS

Ids == DOMAIN categories

Category == [name : Names, parent : Ids \cup {NoId}]

Map == [Names -> Ids \cup {NoId}]

Run == [pc : Steps, item : CategoryMap \cup {NoItem}, next : DOMAIN Data,
        createdCategories : Map, createdSubcategories : Map]

-----------------------------------------------------------------------------
(* Rows of the category table.                                             *)

TopLevel(id, n) == id \in Ids /\ categories[id] = [name |-> n, parent |-> NoId]

Under(id, n, c) ==
    id \in Ids /\ categories[id].name = n /\ TopLevel(categories[id].parent, c)

\* The row of an item of the file.
Right(id, x) ==
    IF x.subcategory = NoName THEN TopLevel(id, x.category)
    ELSE Under(id, x.subcategory, x.category)

\* The Maps lead to the rows of the names.
MapsRight(p) == \A x \in CategoryMap : Id(p, x) # NoId => Right(Id(p, x), x)

\* A run writes transactions when both Maps are complete.
Complete(p) == run[p].pc = "batch" => Pending(p) = {}

\* Between query and insert, the item stays the next one.
Holds(p) == run[p].pc = "insertCategory" => IsNext(p, run[p].item)

RowsRight ==
    \A i \in DOMAIN transactions :
        Right(transactions[i].category, Data[transactions[i].entry])

SeedInv ==
    /\ TypeOK
    /\ \A p \in Runs : MapsRight(p) /\ Complete(p) /\ Holds(p)
    /\ RowsRight

-----------------------------------------------------------------------------
LEMMA Elements ==
  ASSUME NEW S, NEW s \in Seq(S)
  PROVE  \A i \in DOMAIN s : s[i] \in S
OBVIOUS

LEMMA Widened ==
  ASSUME NEW S, NEW T, S \subseteq T, NEW s \in Seq(S)
  PROVE  s \in Seq(T)
OBVIOUS

LEMMA Sequence ==
  ASSUME NEW S, NEW n \in Nat, NEW s \in [1 .. n -> S]
  PROVE  s \in Seq(S) /\ Len(s) = n
OBVIOUS

LEMMA DataTypes ==
  /\ \A d \in ToSet(Data) : d \in [category : Names, subcategory : Names]
  /\ \A x \in CategoryMap : x.category \in Names
  /\ \A x \in CategoryMap : x.subcategory # NoName => x \in ToSet(Data) /\ x.subcategory \in Names
  /\ \A x \in CategoryMap : x = [category |-> x.category, subcategory |-> x.subcategory]
  /\ \A i \in DOMAIN Data : Data[i] \in CategoryMap
  /\ DOMAIN Data = 1 .. Len(Data) /\ Len(Data) \in Nat \ {0}
<1>1. \A d \in ToSet(Data) : d \in [category : Names, subcategory : Names]
  <2>1. \A i \in DOMAIN Data : Data[i] \in [category : Names, subcategory : Names]
    BY SeedingAssumption, Elements
  <2>. QED BY <2>1 DEF ToSet
<1>2. \A x \in CategoryMap :
         \/ x \in ToSet(Data)
         \/ \E d \in ToSet(Data) : x = [category |-> d.category, subcategory |-> NoName]
  BY DEF CategoryMap
<1>3. \A i \in DOMAIN Data : Data[i] \in CategoryMap
  BY DEF CategoryMap, ToSet
<1>4. DOMAIN Data = 1 .. Len(Data) /\ Len(Data) \in Nat \ {0}
  BY SeedingAssumption
<1>. QED BY <1>1, <1>2, <1>3, <1>4

LEMMA IdleType == TypeOK => Idle \in Run
<1>1. 1 \in DOMAIN Data
  BY DataTypes
<1>2. NoMap \in Map
  BY DEF NoMap, Map
<1>. QED BY <1>1, <1>2 DEF Idle, Run, Steps

LEMMA RunTypes ==
  ASSUME TypeOK
  PROVE  run \in [Runs -> Run] /\ categories \in Seq(Category)
         /\ transactions \in Seq([entry : DOMAIN Data, category : Ids])
BY DEF TypeOK, Run, Map, Ids, Category

\* An item is in a Map under its own name only.
LEMMA IdType ==
  ASSUME TypeOK, NEW p \in Runs, NEW x \in CategoryMap
  PROVE  Id(p, x) \in Ids \cup {NoId}
BY RunTypes, DataTypes DEF Id, Run, Map

\* The parent of the next subcategory is in the Map already.
LEMMA WantedRight ==
  ASSUME TypeOK, NEW p \in Runs, MapsRight(p), NEW x, IsNext(p, x)
  PROVE  /\ x \in CategoryMap /\ Wanted(p, x) \in Category
         /\ \A id \in Ids : categories[id] = Wanted(p, x) => Right(id, x)
         /\ x.subcategory # NoName => TopLevel(Wanted(p, x).parent, x.category)
<1>1. x \in CategoryMap /\ \A y \in Pending(p) : ~ Before(y, x)
  BY DEF IsNext, Pending
<1>2. CASE x.subcategory = NoName
  <2>1. Wanted(p, x) = [name |-> x.category, parent |-> NoId]
    BY <1>2 DEF Wanted
  <2>2. Wanted(p, x) \in Category
    BY <1>1, <2>1, DataTypes DEF Category
  <2>. QED BY <1>1, <1>2, <2>1, <2>2 DEF Right, TopLevel
<1>3. CASE x.subcategory # NoName
  <2>. DEFINE c == [category |-> x.category, subcategory |-> NoName]
  <2>1. Wanted(p, x) = [name |-> x.subcategory, parent |-> run[p].createdCategories[x.category]]
    BY <1>3 DEF Wanted
  <2>2. c \in CategoryMap
    BY <1>1, <1>3, DataTypes DEF CategoryMap
  <2>3. Before(c, x)
    BY <1>3 DEF Before
  <2>4. c \notin Pending(p)
    BY <1>1, <2>3
  <2>5. Id(p, c) = run[p].createdCategories[x.category] /\ Id(p, c) # NoId
    BY <2>2, <2>4 DEF Id, Pending
  <2>6. TopLevel(Id(p, c), x.category)
    <3>1. Right(Id(p, c), c)
      BY <2>2, <2>5 DEF MapsRight
    <3>. QED BY <3>1 DEF Right
  <2>7. Wanted(p, x) \in Category
    BY <1>1, <1>3, <2>1, <2>5, <2>6, DataTypes DEF Category, TopLevel
  <2>. QED BY <1>1, <1>3, <2>1, <2>5, <2>6, <2>7 DEF Right, Under
<1>. QED BY <1>2, <1>3

\* New rows leave the others where they are.
LEMMA RightKept ==
  ASSUME TypeOK, categories' = categories \/ \E c : categories' = Append(categories, c),
         NEW id, NEW x, Right(id, x)
  PROVE  Right(id, x)'
<1>1. categories \in Seq(Category)
  BY RunTypes
<1>2. \A i \in Ids : i \in Ids' /\ categories'[i] = categories[i]
  BY <1>1 DEF Ids
<1>. QED BY <1>2 DEF Right, TopLevel, Under

\* The Maps after an item got its id.
LEMMA AfterCreated ==
  ASSUME TypeOK, NEW p \in Runs, NEW x \in CategoryMap, IsNext(p, x), NEW id \in Nat \ {0}, Created(p, x, id)
  PROVE  /\ \A q \in Runs \ {p} : run'[q] = run[q]
         /\ run'[p].pc = (IF Pending(p) = {x} THEN "batch" ELSE "findCategory")
         /\ run'[p].next = run[p].next /\ run'[p].item = NoItem
         /\ Id(p, x)' = id
         /\ \A y \in CategoryMap \ {x} : Id(p, y)' = Id(p, y)
         /\ Pending(p)' = Pending(p) \ {x}
<1>1. run \in [Runs -> Run] /\ x.category \in Names
      /\ (x.subcategory # NoName => x.subcategory \in Names)
  BY RunTypes, DataTypes
<1>2. ASSUME NEW y \in CategoryMap, y # x
      PROVE  \/ x.subcategory = NoName /\ y.subcategory # NoName
             \/ x.subcategory # NoName /\ y.subcategory = NoName
             \/ x.subcategory = NoName /\ y.subcategory = NoName /\ y.category # x.category
             \/ x.subcategory # NoName /\ y.subcategory # NoName /\ y.subcategory # x.subcategory
  BY <1>2, DataTypes, SeedingAssumption
<1>3. CASE x.subcategory = NoName
  <2>1. run' = [run EXCEPT ![p] = [run[p] EXCEPT !.item = NoItem,
                  !.pc = IF Pending(p) = {x} THEN "batch" ELSE "findCategory",
                  !.createdCategories[x.category] = id]]
    BY <1>1, <1>3 DEF Created
  <2>2. /\ \A q \in Runs \ {p} : run'[q] = run[q]
        /\ run'[p].pc = (IF Pending(p) = {x} THEN "batch" ELSE "findCategory")
        /\ run'[p].next = run[p].next /\ run'[p].item = NoItem
        /\ run'[p].createdSubcategories = run[p].createdSubcategories
        /\ run'[p].createdCategories = [run[p].createdCategories EXCEPT ![x.category] = id]
        /\ run[p].createdCategories \in Map
    BY <1>1, <2>1 DEF Run
  <2>3. Id(p, x)' = id /\ \A y \in CategoryMap \ {x} : Id(p, y)' = Id(p, y)
    BY <1>1, <1>2, <1>3, <2>2 DEF Id, Map
  <2>. QED BY <2>2, <2>3 DEF Pending, NoId
<1>4. CASE x.subcategory # NoName
  <2>1. run' = [run EXCEPT ![p] = [run[p] EXCEPT !.item = NoItem,
                  !.pc = IF Pending(p) = {x} THEN "batch" ELSE "findCategory",
                  !.createdSubcategories[x.subcategory] = id]]
    BY <1>1, <1>4 DEF Created
  <2>2. /\ \A q \in Runs \ {p} : run'[q] = run[q]
        /\ run'[p].pc = (IF Pending(p) = {x} THEN "batch" ELSE "findCategory")
        /\ run'[p].next = run[p].next /\ run'[p].item = NoItem
        /\ run'[p].createdCategories = run[p].createdCategories
        /\ run'[p].createdSubcategories = [run[p].createdSubcategories EXCEPT ![x.subcategory] = id]
        /\ run[p].createdSubcategories \in Map
    BY <1>1, <2>1 DEF Run
  <2>3. Id(p, x)' = id /\ \A y \in CategoryMap \ {x} : Id(p, y)' = Id(p, y)
    BY <1>1, <1>2, <1>4, <2>2 DEF Id, Map
  <2>. QED BY <2>2, <2>3 DEF Pending, NoId
<1>. QED BY <1>3, <1>4

-----------------------------------------------------------------------------
(* The steps.                                                              *)

\* The category table stays as it is, and so do the Maps, unless the run ends.
LEMMA RunStep ==
  ASSUME SeedInv, NEW p \in Runs, NEW new \in Run, run' = [run EXCEPT ![p] = new],
         categories' = categories,
         transactions' \in Seq([entry : DOMAIN Data, category : Ids]), RowsRight',
         admin' \in BOOLEAN, overlapped' \in BOOLEAN, starts' \in 0 .. MaxStarts,
         \/ /\ new.createdCategories = run[p].createdCategories
            /\ new.createdSubcategories = run[p].createdSubcategories
         \/ /\ new.createdCategories = NoMap /\ new.createdSubcategories = NoMap
            /\ new.pc \notin {"batch", "insertCategory"},
         new.pc = "batch" => run[p].pc = "batch",
         new.pc = "insertCategory" => IsNext(p, new.item)
  PROVE  SeedInv'
<1>. USE DEF SeedInv
<1>1. run \in [Runs -> Run] /\ Ids' = Ids /\ Run' = Run
  BY RunTypes DEF Ids, Run, Map
<1>2. run'[p] = new /\ \A q \in Runs \ {p} : run'[q] = run[q]
  BY <1>1
<1>3. TypeOK'
  <2>1. run' \in [Runs -> Run]
    BY <1>1
  <2>. QED BY <1>1, <2>1 DEF TypeOK, Run, Map, Ids
<1>4. ASSUME NEW q \in Runs, q # p
      PROVE  (MapsRight(q) /\ Complete(q) /\ Holds(q))'
  <2>1. \A x \in CategoryMap : Id(q, x)' = Id(q, x)
    BY <1>2, <1>4 DEF Id
  <2>2. Pending(q)' = Pending(q)
    BY <2>1 DEF Pending
  <2>3. \A id, x : Right(id, x)' = Right(id, x)
    BY DEF Right, TopLevel, Under, Ids
  <2>. QED BY <1>2, <1>4, <2>1, <2>2, <2>3 DEF MapsRight, Complete, Holds, IsNext
<1>5. (MapsRight(p) /\ Complete(p) /\ Holds(p))'
  <2>1. CASE new.createdCategories = NoMap /\ new.createdSubcategories = NoMap
             /\ new.pc \notin {"batch", "insertCategory"}
    <3>1. \A x \in CategoryMap : Id(p, x)' = NoId
      BY <1>2, <2>1, DataTypes DEF Id, NoMap
    <3>. QED BY <1>2, <2>1, <3>1 DEF MapsRight, Complete, Holds
  <2>2. CASE /\ new.createdCategories = run[p].createdCategories
             /\ new.createdSubcategories = run[p].createdSubcategories
    <3>1. \A x \in CategoryMap : Id(p, x)' = Id(p, x)
      BY <1>2, <2>2 DEF Id
    <3>2. Pending(p)' = Pending(p)
      BY <3>1 DEF Pending
    <3>3. \A id, x : Right(id, x)' = Right(id, x)
      BY DEF Right, TopLevel, Under, Ids
    <3>. QED BY <1>2, <3>1, <3>2, <3>3 DEF MapsRight, Complete, Holds, IsNext
  <2>. QED BY <2>1, <2>2
<1>. QED BY <1>3, <1>4, <1>5

\* An item gets the id of its row, an old one or a new one.
LEMMA CreatedStep ==
  ASSUME SeedInv, NEW p \in Runs, NEW x \in CategoryMap, IsNext(p, x),
         categories' \in Seq(Category'),
         categories' = categories \/ \E c : categories' = Append(categories, c),
         NEW id \in Ids', Right(id, x)', Created(p, x, id),
         UNCHANGED <<admin, transactions, starts, overlapped>>
  PROVE  SeedInv'
<1>. USE DEF SeedInv
<1>1. /\ run \in [Runs -> Run] /\ categories \in Seq(Category)
      /\ Ids \subseteq Ids' /\ id \in Nat \ {0}
  <2>1. Ids = 1 .. Len(categories) /\ Ids' = 1 .. Len(categories') /\ Len(categories) \in Nat
        /\ Len(categories') \in Nat /\ Len(categories) <= Len(categories')
    BY RunTypes DEF Ids
  <2>. QED BY <2>1, RunTypes
<1>2. /\ \A q \in Runs \ {p} : run'[q] = run[q]
      /\ run'[p].pc = (IF Pending(p) = {x} THEN "batch" ELSE "findCategory")
      /\ run'[p].next = run[p].next /\ run'[p].item = NoItem
      /\ Id(p, x)' = id
      /\ \A y \in CategoryMap \ {x} : Id(p, y)' = Id(p, y)
      /\ Pending(p)' = Pending(p) \ {x}
  BY <1>1, AfterCreated
<1>3. TypeOK'
  <2>1. \A q \in Runs : run[q] \in Run'
    BY <1>1 DEF Run, Map
  <2>2. run' \in [Runs -> Run']
    <3>1. run[p] \in Run' /\ id \in Ids' /\ run \in [Runs -> Run']
      BY <1>1, <2>1
    <3>2. x.category \in Names /\ (x.subcategory # NoName => x.subcategory \in Names)
      BY DataTypes
    <3>3. ASSUME NEW pc \in Steps
          PROVE  /\ [run[p] EXCEPT !.item = NoItem, !.pc = pc, !.createdCategories[x.category] = id]
                    \in Run'
                 /\ x.subcategory # NoName =>
                    [run[p] EXCEPT !.item = NoItem, !.pc = pc, !.createdSubcategories[x.subcategory] = id]
                    \in Run'
      BY <3>1, <3>2 DEF Run, Map
    <3>4. (IF Pending(p) = {x} THEN "batch" ELSE "findCategory") \in Steps
      BY DEF Steps
    <3>. QED BY <3>1, <3>3, <3>4 DEF Created
  <2>3. transactions' \in Seq([entry : DOMAIN Data, category : Ids'])
    <3>. DEFINE OldRow == [entry : DOMAIN Data, category : Ids]
                NewRow == [entry : DOMAIN Data, category : Ids']
    <3>1. OldRow \subseteq NewRow
      BY <1>1
    <3>2. transactions \in Seq(OldRow) /\ transactions' = transactions
      BY RunTypes
    <3>. HIDE DEF OldRow, NewRow
    <3>3. transactions' \in Seq(NewRow)
      BY <3>1, <3>2, Widened
    <3>. QED BY <3>3 DEF NewRow
  <2>. QED BY <2>2, <2>3 DEF TypeOK, Run, Map, Ids, Category
<1>4. ASSUME NEW q \in Runs, q # p
      PROVE  (MapsRight(q) /\ Complete(q) /\ Holds(q))'
  <2>1. \A y \in CategoryMap : Id(q, y)' = Id(q, y)
    BY <1>2, <1>4 DEF Id
  <2>2. Pending(q)' = Pending(q)
    BY <2>1 DEF Pending
  <2>3. MapsRight(q)'
    BY <2>1, RightKept DEF MapsRight
  <2>. QED BY <1>2, <1>4, <2>2, <2>3 DEF Complete, Holds, IsNext
<1>5. MapsRight(p)'
  <2>1. \A y \in CategoryMap : Id(p, y)' # NoId => Right(Id(p, y), y)'
    <3>. TAKE y \in CategoryMap
    <3>1. CASE y = x
      BY <1>2, <3>1
    <3>2. CASE y # x
      BY <1>2, <3>2, RightKept DEF MapsRight
    <3>. QED BY <3>1, <3>2
  <2>. QED BY <2>1 DEF MapsRight
<1>6. Complete(p)' /\ Holds(p)'
  BY <1>2 DEF Complete, Holds
<1>7. RowsRight'
  BY RightKept DEF RowsRight
<1>. QED BY <1>3, <1>4, <1>5, <1>6, <1>7

\* A run whose Maps are complete finds the row of every entry.
LEMMA CategoryOfRight ==
  ASSUME SeedInv, NEW p \in Runs, run[p].pc = "batch", NEW i \in DOMAIN Data
  PROVE  CategoryOf(p, Data[i]) \in Ids /\ Right(CategoryOf(p, Data[i]), Data[i])
<1>. DEFINE d == Data[i]
<1>1. d \in CategoryMap
  BY DataTypes
<1>2. Id(p, d) # NoId
  BY <1>1 DEF SeedInv, Complete, Pending
<1>3. CategoryOf(p, d) = Id(p, d)
  BY <1>2 DEF CategoryOf, Id, NoId
<1>4. Right(Id(p, d), d) /\ Id(p, d) \in Ids
  BY <1>1, <1>2, IdType DEF SeedInv, MapsRight
<1>. QED BY <1>3, <1>4

LEMMA Joined ==
  ASSUME NEW S, NEW s \in Seq(S), NEW t \in Seq(S)
  PROVE  /\ s \o t \in Seq(S) /\ Len(s \o t) = Len(s) + Len(t)
         /\ DOMAIN (s \o t) = 1 .. Len(s) + Len(t)
         /\ \A i \in DOMAIN s : (s \o t)[i] = s[i]
         /\ \A k \in DOMAIN t : (s \o t)[Len(s) + k] = t[k]
         /\ \A i \in DOMAIN (s \o t) : i \in DOMAIN s \/ i - Len(s) \in DOMAIN t
OBVIOUS

\* The rows of one batch.
LEMMA BatchRows ==
  ASSUME SeedInv, NEW p \in Runs, InsertBatch(p)
  PROVE  \E last \in DOMAIN Data, batch \in Seq([entry : DOMAIN Data, category : Ids]) :
           /\ last = LastOfBatch(run[p].next) /\ last >= run[p].next
           /\ run[p].next \in DOMAIN Data
           /\ last = (IF run[p].next + BatchSize > Len(Data) THEN Len(Data)
                      ELSE run[p].next + BatchSize - 1)
           /\ Len(batch) = last - run[p].next + 1
           /\ transactions' = transactions \o batch
           /\ \A k \in DOMAIN batch :
                 /\ batch[k].entry = run[p].next + k - 1
                 /\ Right(batch[k].category, Data[batch[k].entry])
<1>. DEFINE from == run[p].next
            last == LastOfBatch(from)
            batch == [k \in 1 .. last - from + 1 |->
                        [entry |-> from + k - 1, category |-> CategoryOf(p, Data[from + k - 1])]]
<1>1. from \in DOMAIN Data /\ DOMAIN Data = 1 .. Len(Data) /\ Len(Data) \in Nat \ {0}
      /\ BatchSize \in Nat \ {0}
  BY RunTypes, DataTypes, SeedingAssumption DEF SeedInv, Run
<1>2. last = IF from + BatchSize > Len(Data) THEN Len(Data) ELSE from + BatchSize - 1
  BY <1>1 DEF LastOfBatch, Min
<1>3. last \in DOMAIN Data /\ last >= from
  BY <1>1, <1>2
<1>. HIDE DEF last
<1>4. \A k \in 1 .. last - from + 1 : from + k - 1 \in DOMAIN Data
  BY <1>1, <1>3
<1>5. \A k \in 1 .. last - from + 1 :
         /\ CategoryOf(p, Data[from + k - 1]) \in Ids
         /\ Right(CategoryOf(p, Data[from + k - 1]), Data[from + k - 1])
  BY <1>4, CategoryOfRight DEF InsertBatch
<1>6. batch \in Seq([entry : DOMAIN Data, category : Ids]) /\ Len(batch) = last - from + 1
      /\ DOMAIN batch = 1 .. last - from + 1
  <2>. DEFINE S == [entry : DOMAIN Data, category : Ids]
  <2>1. PICK n \in Nat : n = last - from + 1
    BY <1>1, <1>3
  <2>2. batch \in [1 .. n -> S]
    BY <1>4, <1>5, <2>1
  <2>. HIDE DEF batch, S
  <2>3. batch \in Seq(S) /\ Len(batch) = n /\ DOMAIN batch = 1 .. n
    BY <2>2, Sequence
  <2>. QED BY <2>1, <2>3 DEF S
<1>7. transactions' = transactions \o batch
  BY DEF InsertBatch, last
<1>8. \A k \in DOMAIN batch :
         batch[k].entry = from + k - 1 /\ Right(batch[k].category, Data[batch[k].entry])
  BY <1>5, <1>6
<1>9. last = LastOfBatch(from)
  BY DEF last
<1>. HIDE DEF batch
<1>. QED BY <1>1, <1>2, <1>3, <1>6, <1>7, <1>8, <1>9

\* How a step of a run leaves the run: on the way, or ended.
LEMMA ScriptStep ==
  ASSUME SeedInv, NEW p \in Runs,
         Start(p) \/ FindUser(p) \/ InsertUser(p) \/ InsertRefused(p) \/ Fail(p)
  PROVE  SeedInv'
<1>1. run \in [Runs -> Run] /\ run[p] \in Run /\ Idle \in Run
      /\ transactions \in Seq([entry : DOMAIN Data, category : Ids])
  BY RunTypes, IdleType DEF SeedInv
<1>2. /\ categories' = categories /\ transactions' = transactions /\ admin' \in BOOLEAN
      /\ overlapped' \in BOOLEAN /\ starts' \in 0 .. MaxStarts
  <2>1. /\ UNCHANGED <<categories, transactions>>
        /\ admin' = admin \/ admin' = TRUE
        /\ overlapped' = overlapped \/ \E b \in BOOLEAN : overlapped' = (overlapped \/ b)
        /\ starts' = starts \/ (starts < MaxStarts /\ starts' = starts + 1)
    <3>1. CASE Start(p)
      <4>1. (\E q \in Runs \ {p} : run[q].pc # "idle") \in BOOLEAN
        OBVIOUS
      <4>. QED BY <3>1, <4>1 DEF Start
    <3>. QED BY <3>1 DEF FindUser, InsertUser, InsertRefused, Fail
  <2>2. admin \in BOOLEAN /\ overlapped \in BOOLEAN /\ starts \in 0 .. MaxStarts /\ MaxStarts \in Nat
    BY SeedingAssumption DEF SeedInv, TypeOK
  <2>3. admin' \in BOOLEAN
    BY <2>1, <2>2
  <2>4. overlapped' \in BOOLEAN
    BY <2>1, <2>2, Zenon
  <2>5. starts' \in 0 .. MaxStarts
    BY <2>1, <2>2
  <2>. QED BY <2>1, <2>3, <2>4, <2>5
<1>3. RowsRight'
  BY <1>2, RightKept DEF SeedInv, RowsRight
<1>4. \/ \E pc \in {"findUser", "insertUser", "findCategory"} : Goto(p, pc)
      \/ End(p)
  BY DEF Start, FindUser, InsertUser, InsertRefused, Fail
<1>5. CASE End(p)
  <2>1. /\ Idle.createdCategories = NoMap /\ Idle.createdSubcategories = NoMap
        /\ Idle.pc \notin {"batch", "insertCategory"}
    BY DEF Idle
  <2>. QED BY <1>1, <1>2, <1>3, <1>5, <2>1, RunStep DEF End
<1>6. ASSUME NEW pc \in {"findUser", "insertUser", "findCategory"}, Goto(p, pc)
      PROVE  SeedInv'
  <2>. DEFINE new == [run[p] EXCEPT !.pc = pc]
  <2>1. new \in Run /\ new.pc = pc /\ new.createdCategories = run[p].createdCategories
        /\ new.createdSubcategories = run[p].createdSubcategories
    BY <1>1 DEF Run, Steps
  <2>2. run' = [run EXCEPT ![p] = new]
    BY <1>1, <1>6 DEF Goto, Run
  <2>. HIDE DEF new
  <2>. QED BY <1>1, <1>2, <1>3, <2>1, <2>2, RunStep
<1>. QED BY <1>4, <1>5, <1>6

LEMMA FindCategoryStep ==
  ASSUME SeedInv, NEW p \in Runs, FindCategory(p)
  PROVE  SeedInv'
<1>1. PICK x \in CategoryMap :
         /\ IsNext(p, x)
         /\ IF Matching(Wanted(p, x)) = {}
            THEN run' = [run EXCEPT ![p].pc = "insertCategory", ![p].item = x]
            ELSE \E id \in Matching(Wanted(p, x)) : Created(p, x, id)
  BY DEF FindCategory
<1>2. UNCHANGED <<admin, categories, transactions, starts, overlapped>>
  BY DEF FindCategory
<1>3. run \in [Runs -> Run] /\ run[p] \in Run /\ categories \in Seq(Category)
      /\ transactions \in Seq([entry : DOMAIN Data, category : Ids])
  BY RunTypes DEF SeedInv
<1>4. CASE Matching(Wanted(p, x)) = {}
  <2>. DEFINE new == [run[p] EXCEPT !.pc = "insertCategory", !.item = x]
  <2>1. /\ new \in Run /\ new.pc = "insertCategory" /\ new.item = x
        /\ new.createdCategories = run[p].createdCategories
        /\ new.createdSubcategories = run[p].createdSubcategories
    BY <1>3 DEF Run, Steps
  <2>2. run' = [run EXCEPT ![p] = new]
    BY <1>1, <1>3, <1>4 DEF Run
  <2>3. RowsRight'
    BY <1>2, RightKept DEF SeedInv, RowsRight
  <2>4. admin' \in BOOLEAN /\ overlapped' \in BOOLEAN /\ starts' \in 0 .. MaxStarts
    BY <1>2 DEF SeedInv, TypeOK
  <2>. HIDE DEF new
  <2>. QED BY <1>1, <1>2, <1>3, <2>1, <2>2, <2>3, <2>4, RunStep
<1>5. CASE Matching(Wanted(p, x)) # {}
  <2>1. PICK id \in Matching(Wanted(p, x)) : Created(p, x, id)
    BY <1>1, <1>5
  <2>2. id \in Ids /\ categories[id] = Wanted(p, x)
    BY <2>1 DEF Matching, Ids
  <2>3. Right(id, x)
    BY <1>1, <2>2, WantedRight DEF SeedInv
  <2>4. Right(id, x)' /\ Ids' = Ids /\ Category' = Category
    BY <1>2, <2>3, RightKept DEF SeedInv, Ids, Category
  <2>. QED BY <1>1, <1>2, <1>3, <2>1, <2>2, <2>4, CreatedStep
<1>. QED BY <1>4, <1>5

LEMMA InsertCategoryStep ==
  ASSUME SeedInv, NEW p \in Runs, InsertCategory(p)
  PROVE  SeedInv'
<1>. PICK x, row, id : x = run[p].item /\ row = Wanted(p, x) /\ id = Len(categories) + 1
  OBVIOUS
<1>1. /\ categories' = Append(categories, row) /\ Created(p, x, id)
      /\ UNCHANGED <<admin, transactions, starts, overlapped>>
      /\ IsNext(p, x)
  BY DEF InsertCategory, SeedInv, Holds
<1>2. /\ x \in CategoryMap /\ row \in Category
      /\ x.subcategory # NoName => TopLevel(row.parent, x.category)
  BY <1>1, WantedRight DEF SeedInv
<1>3. categories \in Seq(Category)
  BY RunTypes DEF SeedInv
<1>4. /\ Ids' = Ids \cup {id} /\ id \in Ids' /\ categories'[id] = row
      /\ \A i \in Ids : categories'[i] = categories[i]
  BY <1>1, <1>2, <1>3 DEF Ids
<1>5. categories' \in Seq(Category')
  <2>1. Category \subseteq Category'
    BY <1>4 DEF Category
  <2>2. categories' \in Seq(Category)
    BY <1>1, <1>2, <1>3
  <2>. QED BY <2>1, <2>2, Widened
<1>6. Right(id, x)'
  <2>1. CASE x.subcategory = NoName
    <3>1. row = [name |-> x.category, parent |-> NoId]
      BY <2>1 DEF Wanted
    <3>. QED BY <1>4, <2>1, <3>1 DEF Right, TopLevel
  <2>2. CASE x.subcategory # NoName
    <3>1. row.name = x.subcategory
      BY <2>2 DEF Wanted
    <3>2. TopLevel(row.parent, x.category) /\ row.parent \in Ids
      BY <1>2, <2>2 DEF TopLevel
    <3>3. row.parent \in Ids' /\ categories'[row.parent] = [name |-> x.category, parent |-> NoId]
      BY <1>4, <3>2 DEF TopLevel
    <3>. QED BY <1>4, <2>2, <3>1, <3>3 DEF Right, Under, TopLevel
  <2>. QED BY <2>1, <2>2
<1>. QED BY <1>1, <1>2, <1>4, <1>5, <1>6, CreatedStep

\* How a batch leaves its run: ended, or further on in the file.
LEMMA BatchEnds ==
  ASSUME TypeOK, NEW p \in Runs, InsertBatch(p)
  PROVE  \E new \in Run :
           /\ run' = [run EXCEPT ![p] = new]
           /\ IF run[p].next + BatchSize > Len(Data) THEN new = Idle
              ELSE /\ new.pc = "batch" /\ new.next = run[p].next + BatchSize
                   /\ new.createdCategories = run[p].createdCategories
                   /\ new.createdSubcategories = run[p].createdSubcategories
<1>1. run \in [Runs -> Run] /\ run[p] \in Run /\ Idle \in Run
  BY RunTypes, IdleType
<1>2. CASE run[p].next + BatchSize > Len(Data)
  BY <1>1, <1>2 DEF InsertBatch, End
<1>3. CASE ~ run[p].next + BatchSize > Len(Data)
  <2>. DEFINE new == [run[p] EXCEPT !.next = run[p].next + BatchSize]
  <2>1. run[p].next + BatchSize \in DOMAIN Data
    BY <1>1, <1>3, DataTypes, SeedingAssumption DEF Run
  <2>2. /\ new \in Run /\ new.pc = "batch" /\ new.next = run[p].next + BatchSize
        /\ new.createdCategories = run[p].createdCategories
        /\ new.createdSubcategories = run[p].createdSubcategories
    BY <1>1, <2>1 DEF Run, InsertBatch
  <2>3. run' = [run EXCEPT ![p] = new]
    BY <1>1, <1>3 DEF InsertBatch, Run
  <2>. HIDE DEF new
  <2>. QED BY <1>3, <2>2, <2>3
<1>. QED BY <1>2, <1>3

LEMMA InsertBatchStep ==
  ASSUME SeedInv, NEW p \in Runs, InsertBatch(p)
  PROVE  SeedInv'
<1>. DEFINE Row == [entry : DOMAIN Data, category : Ids]
<1>1. transactions \in Seq(Row) /\ run[p].pc = "batch"
  BY RunTypes DEF SeedInv, InsertBatch
<1>2. PICK batch \in Seq(Row) :
         /\ transactions' = transactions \o batch
         /\ \A k \in DOMAIN batch : Right(batch[k].category, Data[batch[k].entry])
  BY BatchRows
<1>3. /\ categories' = categories /\ admin' \in BOOLEAN /\ overlapped' \in BOOLEAN
      /\ starts' \in 0 .. MaxStarts
  BY DEF InsertBatch, SeedInv, TypeOK
<1>4. \A id, x : Right(id, x)' = Right(id, x)
  BY <1>3 DEF Right, TopLevel, Under, Ids
<1>. HIDE DEF Row
<1>5. /\ transactions' \in Seq(Row)
      /\ \A i \in DOMAIN transactions' :
            \/ i \in DOMAIN transactions /\ transactions'[i] = transactions[i]
            \/ \E k \in DOMAIN batch : transactions'[i] = batch[k]
  <2>1. /\ transactions \o batch \in Seq(Row)
        /\ \A i \in DOMAIN transactions : (transactions \o batch)[i] = transactions[i]
        /\ \A k \in DOMAIN batch : (transactions \o batch)[Len(transactions) + k] = batch[k]
        /\ \A i \in DOMAIN (transactions \o batch) :
              i \in DOMAIN transactions \/ i - Len(transactions) \in DOMAIN batch
        /\ DOMAIN (transactions \o batch) = 1 .. Len(transactions) + Len(batch)
        /\ Len(transactions) \in Nat /\ Len(batch) \in Nat
    BY <1>1, <1>2, Joined
  <2>2. \A i \in DOMAIN (transactions \o batch) :
           i \in Int /\ Len(transactions) + (i - Len(transactions)) = i
    BY <2>1
  <2>. QED BY <1>2, <2>1, <2>2
<1>6. RowsRight'
  <2>1. \A i \in DOMAIN transactions' : Right(transactions'[i].category, Data[transactions'[i].entry])
    BY <1>2, <1>5 DEF SeedInv, RowsRight
  <2>. QED BY <1>4, <2>1 DEF RowsRight
<1>7. PICK new \in Run :
         /\ run' = [run EXCEPT ![p] = new]
         /\ IF run[p].next + BatchSize > Len(Data) THEN new = Idle
            ELSE /\ new.pc = "batch" /\ new.next = run[p].next + BatchSize
                 /\ new.createdCategories = run[p].createdCategories
                 /\ new.createdSubcategories = run[p].createdSubcategories
  BY BatchEnds DEF SeedInv
<1>8. \/ /\ new.createdCategories = run[p].createdCategories
         /\ new.createdSubcategories = run[p].createdSubcategories
         /\ new.pc = "batch"
      \/ /\ new.createdCategories = NoMap /\ new.createdSubcategories = NoMap
         /\ new.pc \notin {"batch", "insertCategory"}
  BY <1>7 DEF Idle
<1>. QED BY <1>1, <1>3, <1>5, <1>6, <1>7, <1>8, RunStep DEF Row

\* Whatever runs overlap or fail, the Maps of a run lead to the rows of the
\* file's names, and every transaction is filed under the row of its entry.
THEOREM SeedInvariant == Spec => []SeedInv
<1>1. Init => SeedInv
  <2>. SUFFICES ASSUME Init PROVE SeedInv
    OBVIOUS
  <2>1. categories = <<>> /\ transactions = <<>> /\ run = [p \in Runs |-> Idle]
    BY DEF Init
  <2>2. TypeOK
    <3>1. NoMap \in Map /\ 1 \in DOMAIN Data /\ 0 \in 0 .. MaxStarts
      BY DataTypes, SeedingAssumption DEF NoMap, Map
    <3>2. Idle \in Run
      BY <3>1 DEF Idle, Run, Steps
    <3>3. categories \in Seq(Category) /\ transactions \in Seq([entry : DOMAIN Data, category : Ids])
      BY <2>1
    <3>. QED BY <2>1, <3>1, <3>2, <3>3 DEF Init, TypeOK, Run, Map, Ids, Category
  <2>3. \A p \in Runs : \A x \in CategoryMap : Id(p, x) = NoId
    BY <2>1, DataTypes DEF Id, Idle, NoMap
  <2>4. \A p \in Runs : MapsRight(p) /\ Complete(p) /\ Holds(p)
    BY <2>1, <2>3 DEF MapsRight, Complete, Holds, Idle
  <2>. QED BY <2>1, <2>2, <2>4 DEF SeedInv, RowsRight
<1>2. SeedInv /\ [Next]_vars => SeedInv'
  <2>. SUFFICES ASSUME SeedInv, [Next]_vars PROVE SeedInv'
    OBVIOUS
  <2>1. ASSUME NEW p \in Runs,
               Start(p) \/ FindUser(p) \/ InsertUser(p) \/ InsertRefused(p) \/ Fail(p)
        PROVE  SeedInv'
    BY <2>1, ScriptStep
  <2>2. ASSUME NEW p \in Runs, FindCategory(p)
        PROVE  SeedInv'
    BY <2>2, FindCategoryStep
  <2>3. ASSUME NEW p \in Runs, InsertCategory(p)
        PROVE  SeedInv'
    BY <2>3, InsertCategoryStep
  <2>4. ASSUME NEW p \in Runs, InsertBatch(p)
        PROVE  SeedInv'
    BY <2>4, InsertBatchStep
  <2>5. CASE UNCHANGED vars
    <3>1. TypeOK' = TypeOK
      BY <2>5 DEF vars, TypeOK
    <3>2. \A id, x : Right(id, x)' = Right(id, x)
      BY <2>5 DEF vars, Right, TopLevel, Under, Ids
    <3>3. RowsRight'
      BY <2>5, <3>2 DEF vars, SeedInv, RowsRight
    <3>4. \A p, x : Id(p, x)' = Id(p, x)
      BY <2>5 DEF vars, Id
    <3>5. \A p : Pending(p)' = Pending(p)
      BY <3>4 DEF Pending
    <3>6. \A p \in Runs : (MapsRight(p) /\ Complete(p) /\ Holds(p))'
      BY <2>5, <3>2, <3>4, <3>5 DEF vars, SeedInv, MapsRight, Complete, Holds, IsNext
    <3>. QED BY <3>1, <3>3, <3>6 DEF SeedInv
  <2>. QED BY <2>1, <2>2, <2>3, <2>4, <2>5 DEF Next
<1>. QED BY <1>1, <1>2, PTL DEF Spec

\* Every id in a row or in a Map is the id of a row, in every state of the
\* script.
THEOREM SeedTypeCorrect == Spec => []TypeOK
<1>1. SeedInv => TypeOK
  BY DEF SeedInv
<1>. QED BY <1>1, SeedInvariant, PTL

\* Every transaction is under the category of its name, a subcategory's under
\* the subcategory of the right category.
THEOREM FilesRight == Spec => []FiledRight
<1>1. SeedInv => FiledRight
  <2>. SUFFICES ASSUME SeedInv, NEW i \in DOMAIN transactions
               PROVE  LET d == Data[transactions[i].entry]
                          c == categories[transactions[i].category]
                      IN IF d.subcategory = NoName
                         THEN c = [name |-> d.category, parent |-> NoId]
                         ELSE /\ c.name = d.subcategory
                              /\ c.parent # NoId
                              /\ categories[c.parent] = [name |-> d.category, parent |-> NoId]
    BY DEF FiledRight
  <2>1. Right(transactions[i].category, Data[transactions[i].entry])
    BY DEF SeedInv, RowsRight
  <2>2. \A id \in Ids : id # NoId
    BY RunTypes DEF SeedInv, Ids, NoId
  <2>. QED BY <2>1, <2>2 DEF Right, Under, TopLevel
<1>. QED BY <1>1, SeedInvariant, PTL

-----------------------------------------------------------------------------
(* Runs that do not overlap.                                               *)

\* A run by itself has seen what it will insert to be missing.
Alone ==
    overlapped \/
    /\ \A p, q \in Runs : run[p].pc # "idle" /\ run[q].pc # "idle" => p = q
    /\ \A p \in Runs :
          run[p].pc = "insertCategory" => Matching(Wanted(p, run[p].item)) = {}
    /\ \A i, j \in Ids : categories[i] = categories[j] => i = j

LEMMA OthersStay ==
  ASSUME SeedInv, NEW p \in Runs,
         \/ Start(p) \/ FindUser(p) \/ InsertUser(p)
         \/ FindCategory(p) \/ InsertCategory(p) \/ InsertRefused(p)
         \/ InsertBatch(p) \/ Fail(p)
  PROVE  \A q \in Runs \ {p} : run'[q] = run[q]
<1>1. run \in [Runs -> Run]
  BY RunTypes DEF SeedInv
<1>2. CASE FindCategory(p) \/ InsertCategory(p)
  BY <1>1, <1>2 DEF FindCategory, InsertCategory, Created
<1>3. CASE Start(p) \/ FindUser(p) \/ InsertUser(p) \/ InsertRefused(p) \/ Fail(p)
  BY <1>1, <1>3 DEF Start, FindUser, InsertUser, InsertRefused, Fail, Goto, End
<1>4. CASE InsertBatch(p)
  BY <1>1, <1>4 DEF InsertBatch, End
<1>. QED BY <1>2, <1>3, <1>4

LEMMA AloneStep ==
  ASSUME SeedInv, Alone, ~ overlapped', NEW p \in Runs,
         \/ Start(p) \/ FindUser(p) \/ InsertUser(p)
         \/ FindCategory(p) \/ InsertCategory(p) \/ InsertRefused(p)
         \/ InsertBatch(p) \/ Fail(p)
  PROVE  Alone'
<1>1. run \in [Runs -> Run] /\ run[p] \in Run /\ categories \in Seq(Category)
  BY RunTypes DEF SeedInv
<1>2. ~ overlapped
  <2>1. CASE Start(p)
    BY <2>1 DEF Start
  <2>2. CASE overlapped' = overlapped
    BY <2>2
  <2>. QED BY <2>1, <2>2 DEF FindUser, InsertUser, FindCategory, InsertCategory, InsertRefused,
                             InsertBatch, Fail
<1>3. \A q \in Runs \ {p} : run'[q].pc = "idle"
  <2>1. CASE Start(p)
    <3>1. \A q \in Runs \ {p} : run[q].pc = "idle"
      BY <2>1 DEF Start
    <3>. QED BY <3>1, OthersStay
  <2>2. CASE run[p].pc # "idle"
    BY <1>2, <2>2, OthersStay DEF Alone
  <2>. QED BY <2>1, <2>2 DEF FindUser, InsertUser, FindCategory, InsertCategory, InsertRefused,
                             InsertBatch, Fail
<1>4. ASSUME run'[p].pc = "insertCategory"
      PROVE  Matching(Wanted(p, run[p].item))' = {}
  <2>1. CASE FindCategory(p)
    <3>1. PICK x \in CategoryMap :
             /\ IsNext(p, x)
             /\ IF Matching(Wanted(p, x)) = {}
                THEN run' = [run EXCEPT ![p].pc = "insertCategory", ![p].item = x]
                ELSE \E id \in Matching(Wanted(p, x)) : Created(p, x, id)
      BY <2>1 DEF FindCategory
    <3>2. CASE Matching(Wanted(p, x)) = {}
      <4>1. run'[p].item = x /\ run'[p].createdCategories = run[p].createdCategories
        BY <1>1, <3>1, <3>2 DEF Run
      <4>2. Wanted(p, run[p].item)' = Wanted(p, x)
        BY <4>1 DEF Wanted
      <4>. QED BY <2>1, <3>2, <4>2 DEF FindCategory, Matching
    <3>3. CASE Matching(Wanted(p, x)) # {}
      <4>1. PICK id \in Matching(Wanted(p, x)) : Created(p, x, id)
        BY <3>1, <3>3
      <4>2. id \in Nat \ {0}
        BY <1>1 DEF Matching
      <4>3. run'[p].pc \in {"batch", "findCategory"}
        BY <3>1, <4>1, <4>2, AfterCreated DEF SeedInv
      <4>. QED BY <1>4, <4>3
    <3>. QED BY <3>2, <3>3
  <2>2. CASE InsertCategory(p)
    <3>1. IsNext(p, run[p].item) /\ run[p].item \in CategoryMap
          /\ Created(p, run[p].item, Len(categories) + 1) /\ Len(categories) + 1 \in Nat \ {0}
      BY <1>1, <2>2 DEF InsertCategory, SeedInv, Holds, IsNext, Pending
    <3>2. run'[p].pc \in {"batch", "findCategory"}
      BY <3>1, AfterCreated DEF SeedInv
    <3>. QED BY <1>4, <3>2
  <2>3. CASE Start(p) \/ FindUser(p) \/ InsertUser(p) \/ InsertRefused(p) \/ Fail(p)
    <3>1. run'[p].pc # "insertCategory"
      BY <1>1, <2>3 DEF Start, FindUser, InsertUser, InsertRefused, Fail, Goto, End, Idle, Run
    <3>. QED BY <1>4, <3>1
  <2>4. CASE InsertBatch(p)
    <3>1. run'[p].pc \in {"batch", "idle"}
      BY <1>1, <2>4, BatchEnds DEF SeedInv, Idle
    <3>. QED BY <1>4, <3>1
  <2>. QED BY <2>1, <2>2, <2>3, <2>4
<1>5. \A i, j \in Ids' : categories'[i] = categories'[j] => i = j
  <2>1. CASE InsertCategory(p)
    <3>. DEFINE row == Wanted(p, run[p].item)
    <3>1. categories' = Append(categories, row) /\ Matching(row) = {}
      BY <1>2, <2>1 DEF InsertCategory, Alone
    <3>2. \A i \in Ids : categories[i] # row
      BY <3>1 DEF Matching, Ids
    <3>3. \A i, j \in Ids : categories[i] = categories[j] => i = j
      BY <1>2 DEF Alone
    <3>. HIDE DEF row
    <3>4. /\ Ids' = Ids \cup {Len(categories) + 1} /\ categories'[Len(categories) + 1] = row
          /\ \A i \in Ids : categories'[i] = categories[i]
      BY <1>1, <3>1 DEF Ids
    <3>. QED BY <3>2, <3>3, <3>4
  <2>2. CASE categories' = categories
    BY <1>2, <2>2 DEF Alone, Ids
  <2>. QED BY <2>1, <2>2 DEF Start, FindUser, InsertUser, FindCategory, InsertRefused,
                             InsertBatch, Fail
<1>6. \A q, r \in Runs : run'[q].pc # "idle" /\ run'[r].pc # "idle" => q = r
  BY <1>3
<1>7. \A q \in Runs : run'[q].pc = "insertCategory" => Matching(Wanted(q, run[q].item))' = {}
  BY <1>3, <1>4
<1>. QED BY <1>5, <1>6, <1>7 DEF Alone

\* As long as no two runs overlapped, whatever run failed at whatever
\* statement, no category is in the table twice.
THEOREM CreatesOnce == Spec => []NoDuplicates
<1>1. Init => Alone
  BY DEF Init, Alone, Idle, Ids
<1>2. SeedInv /\ Alone /\ [Next]_vars => Alone'
  <2>. SUFFICES ASSUME SeedInv, Alone, [Next]_vars PROVE Alone'
    OBVIOUS
  <2>1. CASE overlapped'
    BY <2>1 DEF Alone
  <2>2. CASE ~ overlapped' /\ Next
    BY <2>2, AloneStep DEF Next
  <2>3. CASE UNCHANGED vars
    BY <2>3 DEF vars, Alone, Matching, Wanted, Ids
  <2>. QED BY <2>1, <2>2, <2>3
<1>3. Alone => NoDuplicates
  BY DEF Alone, NoDuplicates, Ids
<1>. QED BY <1>1, <1>2, <1>3, SeedInvariant, PTL DEF Spec

-----------------------------------------------------------------------------
(* What failed runs leave of the file.                                     *)

Occurrences(rows, n) == {i \in DOMAIN rows : rows[i].entry = n}

\* The rows of the entries from one place of the file to another.
Slice(rows, from, last) ==
    Len(rows) = last - from + 1 /\ \A k \in DOMAIN rows : rows[k].entry = from + k - 1

\* The runs that have inserted entry m and not yet entry n.
Between(m, n) == {p \in Runs : m < run[p].next /\ run[p].next <= n}

\* A later entry is behind an earlier one by the runs that are between them.
FallingCounts ==
    \A m, n \in DOMAIN Data : m < n => Copies(n) + Cardinality(Between(m, n)) <= Copies(m)

LEMMA Counts ==
  ASSUME NEW R, NEW rows \in Seq(R), NEW n
  PROVE  IsFiniteSet(Occurrences(rows, n)) /\ Cardinality(Occurrences(rows, n)) \in Nat
<1>1. IsFiniteSet(1 .. Len(rows))
  BY FS_Interval
<1>2. Occurrences(rows, n) \in SUBSET (1 .. Len(rows))
  BY DEF Occurrences
<1>3. IsFiniteSet(Occurrences(rows, n))
  BY <1>1, <1>2, FS_Subset
<1>. QED BY <1>3, FS_CardinalityType

\* Rows that are followed by those of the entries from .. last.
Extended(longer, rows, from, last) ==
    \E L \in Nat, K \in Nat :
        /\ K = last - from + 1
        /\ DOMAIN rows = 1 .. L /\ DOMAIN longer = 1 .. L + K
        /\ \A i \in 1 .. L : longer[i] = rows[i]
        /\ \A k \in 1 .. K : longer[L + k].entry = from + k - 1

LEMMA MoreHits ==
  ASSUME NEW rows, NEW longer, NEW from \in Nat, NEW last \in Nat,
         Extended(longer, rows, from, last), NEW n \in Nat,
         IsFiniteSet(Occurrences(rows, n)), Cardinality(Occurrences(rows, n)) \in Nat
  PROVE  Cardinality(Occurrences(longer, n)) =
           Cardinality(Occurrences(rows, n)) + (IF n \in from .. last THEN 1 ELSE 0)
<1>. PICK L \in Nat, K \in Nat :
         /\ K = last - from + 1
         /\ DOMAIN rows = 1 .. L /\ DOMAIN longer = 1 .. L + K
         /\ \A i \in 1 .. L : longer[i] = rows[i]
         /\ \A k \in 1 .. K : longer[L + k].entry = from + k - 1
  BY DEF Extended
<1>1. \A i \in 1 .. L + K : i \in 1 .. L \/ \E k \in 1 .. K : i = L + k
  <2>. TAKE i \in 1 .. L + K
  <2>1. CASE i <= L
    BY <2>1
  <2>2. CASE ~ i <= L
    <3>1. i - L \in 1 .. K /\ i = L + (i - L)
      BY <2>2
    <3>. QED BY <3>1
  <2>. QED BY <2>1, <2>2
<1>2. \A k \in 1 .. K : L + k \in 1 .. L + K /\ L + k \notin 1 .. L
  OBVIOUS
<1>3. \A k \in 1 .. K : from + k - 1 = n <=> k = n - from + 1
  OBVIOUS
<1>4. CASE n \in from .. last
  <2>1. PICK k \in 1 .. K : k = n - from + 1
    BY <1>4
  <2>2. PICK new : new = L + k
    OBVIOUS
  <2>3. new \in DOMAIN longer /\ new \notin DOMAIN rows /\ longer[new].entry = n
    BY <1>2, <1>3, <2>1, <2>2
  <2>4. ASSUME NEW i \in DOMAIN longer \ DOMAIN rows, longer[i].entry = n
        PROVE  i = new
    <3>1. PICK j \in 1 .. K : i = L + j
      BY <1>1, <2>4
    <3>2. j = n - from + 1
      BY <1>3, <2>4, <3>1
    <3>. QED BY <2>1, <2>2, <3>1, <3>2
  <2>5. DOMAIN rows \subseteq DOMAIN longer
    OBVIOUS
  <2>6. Occurrences(longer, n) = Occurrences(rows, n) \cup {new}
    <3>1. new \in Occurrences(longer, n) /\ Occurrences(rows, n) \subseteq Occurrences(longer, n)
      BY <2>3, <2>5 DEF Occurrences
    <3>2. \A i \in Occurrences(longer, n) : i \in Occurrences(rows, n) \cup {new}
      BY <2>4 DEF Occurrences
    <3>. QED BY <3>1, <3>2
  <2>7. new \notin Occurrences(rows, n)
    BY <2>3 DEF Occurrences
  <2>8. Cardinality(Occurrences(rows, n) \cup {new}) = Cardinality(Occurrences(rows, n)) + 1
    BY <2>7, FS_AddElement
  <2>. QED BY <1>4, <2>6, <2>8
<1>5. CASE n \notin from .. last
  <2>1. \A k \in 1 .. K : from + k - 1 # n
    BY <1>5
  <2>2. ASSUME NEW i \in DOMAIN longer, longer[i].entry = n
        PROVE  i \in DOMAIN rows
    <3>1. i \in 1 .. L \/ \E k \in 1 .. K : i = L + k
      BY <1>1
    <3>2. ASSUME NEW k \in 1 .. K, i = L + k
          PROVE  FALSE
      BY <2>1, <2>2, <3>2
    <3>. QED BY <3>1, <3>2
  <2>3. DOMAIN rows \subseteq DOMAIN longer
    OBVIOUS
  <2>4. Occurrences(longer, n) = Occurrences(rows, n)
    BY <2>2, <2>3 DEF Occurrences
  <2>. QED BY <1>5, <2>4
<1>. QED BY <1>4, <1>5

\* A batch adds one row for each of its entries.
LEMMA OneMore ==
  ASSUME NEW R, NEW rows \in Seq(R), NEW batch \in Seq(R), NEW from \in Nat, NEW last \in Nat,
         Slice(batch, from, last), NEW n \in Nat
  PROVE  Cardinality(Occurrences(rows \o batch, n)) =
           Cardinality(Occurrences(rows, n)) + (IF n \in from .. last THEN 1 ELSE 0)
<1>1. PICK longer : longer = rows \o batch
  OBVIOUS
<1>2. /\ DOMAIN rows = 1 .. Len(rows) /\ DOMAIN batch = 1 .. Len(batch)
      /\ Len(rows) \in Nat /\ Len(batch) \in Nat
  OBVIOUS
<1>3. DOMAIN longer = 1 .. Len(rows) + Len(batch)
  BY <1>1
<1>4. \A i \in 1 .. Len(rows) : longer[i] = rows[i]
  BY <1>1
<1>5. \A k \in 1 .. Len(batch) : longer[Len(rows) + k] = batch[k]
  BY <1>1
<1>6. Len(batch) = last - from + 1
      /\ \A k \in 1 .. Len(batch) : longer[Len(rows) + k].entry = from + k - 1
  BY <1>2, <1>5 DEF Slice
<1>7. Extended(longer, rows, from, last)
  BY <1>2, <1>3, <1>4, <1>6, Zenon DEF Extended
<1>8. IsFiniteSet(Occurrences(rows, n)) /\ Cardinality(Occurrences(rows, n)) \in Nat
  BY Counts
<1>9. Cardinality(Occurrences(longer, n)) =
        Cardinality(Occurrences(rows, n)) + (IF n \in from .. last THEN 1 ELSE 0)
  BY <1>7, <1>8, MoreHits
<1>. QED BY <1>1, <1>9

\* A run that goes from one place of the file to another.
LEMMA Moves ==
  ASSUME TypeOK, NEW p \in Runs, NEW m, NEW n, NEW B, IsFiniteSet(B),
         B \ {p} = Between(m, n) \ {p}
  PROVE  /\ Cardinality(Between(m, n)) \in Nat /\ Cardinality(B) \in Nat
         /\ Cardinality(B) = Cardinality(Between(m, n))
              + (IF p \in B THEN 1 ELSE 0) - (IF p \in Between(m, n) THEN 1 ELSE 0)
<1>1. IsFiniteSet(Between(m, n))
  <2>1. Between(m, n) \in SUBSET Runs
    BY DEF Between
  <2>. QED BY <2>1, SeedingAssumption, FS_Subset
<1>2. /\ Cardinality(Between(m, n)) \in Nat /\ Cardinality(B) \in Nat
  BY <1>1, FS_CardinalityType
<1>3. /\ Cardinality(B \ {p}) = (IF p \in B THEN Cardinality(B) - 1 ELSE Cardinality(B))
      /\ Cardinality(Between(m, n) \ {p}) =
           (IF p \in Between(m, n) THEN Cardinality(Between(m, n)) - 1 ELSE Cardinality(Between(m, n)))
  BY <1>1, FS_RemoveElement
<1>. QED BY <1>2, <1>3

LEMMA NextStays ==
  ASSUME SeedInv, NEW p \in Runs,
         \/ Start(p) \/ FindUser(p) \/ InsertUser(p)
         \/ FindCategory(p) \/ InsertCategory(p) \/ InsertRefused(p) \/ Fail(p)
  PROVE  transactions' = transactions /\ run'[p].next \in {run[p].next, 1}
<1>1. run \in [Runs -> Run] /\ run[p] \in Run /\ categories \in Seq(Category)
  BY RunTypes DEF SeedInv
<1>2. CASE FindCategory(p)
  <2>1. PICK x \in CategoryMap :
           /\ IsNext(p, x)
           /\ IF Matching(Wanted(p, x)) = {}
              THEN run' = [run EXCEPT ![p].pc = "insertCategory", ![p].item = x]
              ELSE \E id \in Matching(Wanted(p, x)) : Created(p, x, id)
    BY <1>2 DEF FindCategory
  <2>2. CASE Matching(Wanted(p, x)) = {}
    BY <1>1, <1>2, <2>1, <2>2 DEF Run, FindCategory
  <2>3. CASE Matching(Wanted(p, x)) # {}
    <3>1. PICK id \in Matching(Wanted(p, x)) : Created(p, x, id)
      BY <2>1, <2>3
    <3>2. id \in Nat \ {0}
      BY <1>1 DEF Matching
    <3>. QED BY <1>2, <2>1, <3>1, <3>2, AfterCreated DEF SeedInv, FindCategory
  <2>. QED BY <2>2, <2>3
<1>3. CASE InsertCategory(p)
  <2>1. IsNext(p, run[p].item) /\ run[p].item \in CategoryMap
        /\ Created(p, run[p].item, Len(categories) + 1) /\ Len(categories) + 1 \in Nat \ {0}
    BY <1>1, <1>3 DEF InsertCategory, SeedInv, Holds, IsNext, Pending
  <2>. QED BY <1>3, <2>1, AfterCreated DEF SeedInv, InsertCategory
<1>4. CASE Start(p) \/ FindUser(p) \/ InsertUser(p) \/ InsertRefused(p) \/ Fail(p)
  BY <1>1, <1>4 DEF Start, FindUser, InsertUser, InsertRefused, Fail, Goto, End, Idle, Run
<1>. QED BY <1>2, <1>3, <1>4

LEMMA PrefixesStep ==
  ASSUME SeedInv, FallingCounts, NEW p \in Runs,
         \/ Start(p) \/ FindUser(p) \/ InsertUser(p)
         \/ FindCategory(p) \/ InsertCategory(p) \/ InsertRefused(p)
         \/ InsertBatch(p) \/ Fail(p)
  PROVE  FallingCounts'
<1>. SUFFICES ASSUME NEW m \in DOMAIN Data, NEW n \in DOMAIN Data, m < n
              PROVE  (Copies(n) + Cardinality(Between(m, n)) <= Copies(m))'
  BY DEF FallingCounts
<1>1. /\ run \in [Runs -> Run] /\ run[p] \in Run /\ transactions \in Seq([entry : DOMAIN Data, category : Ids])
      /\ m \in Nat /\ n \in Nat /\ m >= 1
  BY RunTypes, DataTypes DEF SeedInv
<1>2. \A q \in Runs \ {p} : run'[q] = run[q]
  BY OthersStay
<1>3. PICK B : B = {q \in Runs : m < run'[q].next /\ run'[q].next <= n}
  OBVIOUS
<1>4. Between(m, n)' = B
  BY <1>3 DEF Between
<1>5. IsFiniteSet(B) /\ B \ {p} = Between(m, n) \ {p}
  <2>1. B \in SUBSET Runs
    BY <1>3
  <2>2. IsFiniteSet(B)
    BY <2>1, SeedingAssumption, FS_Subset
  <2>. QED BY <1>2, <1>3, <2>2 DEF Between
<1>6. /\ Cardinality(Between(m, n)) \in Nat /\ Cardinality(B) \in Nat
      /\ Cardinality(B) = Cardinality(Between(m, n))
           + (IF p \in B THEN 1 ELSE 0) - (IF p \in Between(m, n) THEN 1 ELSE 0)
  BY <1>5, Moves DEF SeedInv
<1>7. /\ p \in B <=> m < run'[p].next /\ run'[p].next <= n
      /\ p \in Between(m, n) <=> m < run[p].next /\ run[p].next <= n
  BY <1>3 DEF Between
<1>8. /\ Copies(m) \in Nat /\ Copies(n) \in Nat
      /\ Copies(n) + Cardinality(Between(m, n)) <= Copies(m)
      /\ \A k : Copies(k) = Cardinality(Occurrences(transactions, k))
      /\ \A k : Copies(k)' = Cardinality(Occurrences(transactions', k))
  <2>1. /\ \A k : Copies(k) = Cardinality(Occurrences(transactions, k))
        /\ \A k : Copies(k)' = Cardinality(Occurrences(transactions', k))
    BY DEF Copies, Occurrences
  <2>2. \A k : Cardinality(Occurrences(transactions, k)) \in Nat
    BY <1>1, Counts
  <2>. QED BY <2>1, <2>2 DEF FallingCounts
<1>9. CASE InsertBatch(p)
  <2>1. PICK last \in DOMAIN Data, batch \in Seq([entry : DOMAIN Data, category : Ids]) :
           /\ last >= run[p].next
           /\ run[p].next \in DOMAIN Data
           /\ last = (IF run[p].next + BatchSize > Len(Data) THEN Len(Data)
                      ELSE run[p].next + BatchSize - 1)
           /\ Len(batch) = last - run[p].next + 1
           /\ transactions' = transactions \o batch
           /\ \A k \in DOMAIN batch : batch[k].entry = run[p].next + k - 1
    BY <1>9, BatchRows
  <2>2. PICK from \in Nat : from = run[p].next
    BY <2>1, DataTypes
  <2>3. last \in Nat
    BY <2>1, DataTypes
  <2>4. \A k \in Nat : Copies(k)' = Copies(k) + (IF k \in from .. last THEN 1 ELSE 0)
    <3>. DEFINE R == [entry : DOMAIN Data, category : Ids]
    <3>1. transactions \in Seq(R) /\ batch \in Seq(R) /\ Slice(batch, from, last)
      BY <1>1, <2>1, <2>2 DEF Slice
    <3>. HIDE DEF R
    <3>2. \A k \in Nat : Cardinality(Occurrences(transactions \o batch, k)) =
             Cardinality(Occurrences(transactions, k)) + (IF k \in from .. last THEN 1 ELSE 0)
      <4>. TAKE k \in Nat
      <4>. QED BY <2>2, <2>3, <3>1, OneMore
    <3>. QED BY <1>8, <2>1, <3>2
  <2>5. run'[p].next = (IF from + BatchSize > Len(Data) THEN 1 ELSE last + 1)
    <3>1. PICK new \in Run :
             /\ run' = [run EXCEPT ![p] = new]
             /\ IF run[p].next + BatchSize > Len(Data) THEN new = Idle
                ELSE new.next = run[p].next + BatchSize
      BY <1>9, BatchEnds DEF SeedInv
    <3>2. run'[p] = new
      BY <1>1, <3>1
    <3>3. BatchSize \in Nat
      BY SeedingAssumption
    <3>4. CASE from + BatchSize > Len(Data)
      BY <2>2, <3>1, <3>2, <3>4 DEF Idle
    <3>5. CASE ~ from + BatchSize > Len(Data)
      <4>1. last = from + BatchSize - 1 /\ run'[p].next = from + BatchSize
        BY <2>1, <2>2, <3>1, <3>2, <3>5
      <4>. QED BY <3>3, <3>5, <4>1
    <3>. QED BY <3>4, <3>5
  <2>6. n <= Len(Data) /\ Len(Data) \in Nat /\ BatchSize \in Nat
    BY DataTypes, SeedingAssumption
  <2>7. /\ Copies(m)' = Copies(m) + (IF m \in from .. last THEN 1 ELSE 0)
        /\ Copies(n)' = Copies(n) + (IF n \in from .. last THEN 1 ELSE 0)
    BY <1>1, <2>4
  <2>8. (IF n \in from .. last THEN 1 ELSE 0) + (IF p \in B THEN 1 ELSE 0)
        <= (IF m \in from .. last THEN 1 ELSE 0) + (IF p \in Between(m, n) THEN 1 ELSE 0)
    <3>1. PICK q : q = run'[p].next
      OBVIOUS
    <3>2. /\ p \in B <=> m < q /\ q <= n
          /\ p \in Between(m, n) <=> m < from /\ from <= n
      BY <1>7, <2>2, <3>1
    <3>3. CASE from + BatchSize > Len(Data)
      <4>1. last = Len(Data) /\ q = 1
        BY <2>1, <2>2, <2>5, <3>1, <3>3
      <4>2. p \notin B
        BY <1>1, <3>2, <4>1
      <4>3. n \in from .. last => m \in from .. last \/ p \in Between(m, n)
        BY <1>1, <2>3, <3>2
      <4>. QED BY <4>2, <4>3
    <3>4. CASE ~ from + BatchSize > Len(Data)
      <4>1. q = last + 1
        BY <2>5, <3>1, <3>4
      <4>2. from <= last
        BY <2>1, <2>2
      <4>3. p \in B <=> m <= last /\ last < n
        BY <1>1, <2>3, <3>2, <4>1
      <4>4. /\ m \in from .. last <=> from <= m /\ m <= last
            /\ n \in from .. last <=> from <= n /\ n <= last
        BY <1>1, <2>3
      <4>5. p \in Between(m, n) <=> m < from /\ from <= n
        BY <3>2
      <4>6. CASE m < from
        <5>1. p \in B /\ n \notin from .. last => p \in Between(m, n)
          BY <1>1, <2>3, <4>2, <4>3, <4>4, <4>5, <4>6
        <5>2. n \in from .. last => p \in Between(m, n) /\ p \notin B
          BY <1>1, <2>3, <4>2, <4>3, <4>4, <4>5, <4>6
        <5>. QED BY <5>1, <5>2
      <4>7. CASE ~ m < from
        <5>1. p \in B => m \in from .. last /\ n \notin from .. last
          BY <1>1, <2>3, <4>2, <4>3, <4>4, <4>7
        <5>2. n \in from .. last => m \in from .. last
          BY <1>1, <2>3, <4>2, <4>4, <4>7
        <5>. QED BY <5>1, <5>2
      <4>. QED BY <4>6, <4>7
    <3>. QED BY <3>3, <3>4
  <2>9. PICK u \in {0, 1}, v \in {0, 1}, x \in {0, 1}, y \in {0, 1} :
           /\ u = (IF n \in from .. last THEN 1 ELSE 0) /\ v = (IF m \in from .. last THEN 1 ELSE 0)
           /\ x = (IF p \in B THEN 1 ELSE 0) /\ y = (IF p \in Between(m, n) THEN 1 ELSE 0)
    OBVIOUS
  <2>10. PICK c, d, e, f : c = Copies(m) /\ d = Copies(n) /\ e = Copies(m)' /\ f = Copies(n)'
    OBVIOUS
  <2>11. PICK w \in Nat, b \in Nat : w = Cardinality(Between(m, n)) /\ b = Cardinality(B)
    BY <1>6
  <2>12. /\ e = c + v /\ f = d + u /\ b = w + x - y /\ u + x <= v + y
         /\ c \in Nat /\ d \in Nat /\ d + w <= c
    BY <1>6, <1>8, <2>7, <2>8, <2>9, <2>10, <2>11
  <2>13. f + b <= e
    BY <2>12
  <2>. QED BY <1>4, <2>10, <2>11, <2>13
<1>10. CASE ~ InsertBatch(p)
  <2>1. transactions' = transactions /\ run'[p].next \in {run[p].next, 1}
    BY <1>10, NextStays
  <2>2. p \in B => p \in Between(m, n)
    BY <1>1, <1>7, <2>1
  <2>3. Cardinality(B) <= Cardinality(Between(m, n))
    BY <1>6, <2>2
  <2>4. Copies(m)' = Copies(m) /\ Copies(n)' = Copies(n)
    BY <1>8, <2>1
  <2>5. Copies(n) + Cardinality(B) <= Copies(m)
    BY <1>6, <1>8, <2>3
  <2>. QED BY <1>4, <2>4, <2>5
<1>. QED BY <1>9, <1>10

\* Whatever runs failed or overlapped, no entry of the file is in the table
\* more often than an entry before it.
THEOREM LeavesPrefixes == Spec => []PrefixesOnly
<1>1. Init => FallingCounts
  <2>. SUFFICES ASSUME Init, NEW m \in DOMAIN Data, NEW n \in DOMAIN Data, m < n
                PROVE  Copies(n) + Cardinality(Between(m, n)) <= Copies(m)
    BY DEF FallingCounts
  <2>1. Between(m, n) = {}
    BY DataTypes DEF Init, Idle, Between
  <2>2. Copies(m) = Cardinality({}) /\ Copies(n) = Cardinality({})
    <3>1. \A k : {i \in DOMAIN transactions : transactions[i].entry = k} = {}
      BY DEF Init
    <3>. QED BY <3>1 DEF Copies
  <2>. QED BY <2>1, <2>2, FS_EmptySet
<1>2. SeedInv /\ FallingCounts /\ [Next]_vars => FallingCounts'
  <2>. SUFFICES ASSUME SeedInv, FallingCounts, [Next]_vars PROVE FallingCounts'
    OBVIOUS
  <2>1. CASE Next
    BY <2>1, PrefixesStep DEF Next
  <2>2. CASE UNCHANGED vars
    BY <2>2 DEF vars, FallingCounts, Copies, Between
  <2>. QED BY <2>1, <2>2
<1>3. SeedInv /\ FallingCounts => PrefixesOnly
  <2>. SUFFICES ASSUME SeedInv, FallingCounts, NEW m \in DOMAIN Data, NEW n \in DOMAIN Data, m < n
                PROVE  Copies(n) <= Copies(m)
    BY DEF PrefixesOnly
  <2>1. Copies(m) \in Nat /\ Copies(n) \in Nat
    <3>1. \A k : Cardinality(Occurrences(transactions, k)) \in Nat
      BY RunTypes, Counts DEF SeedInv
    <3>. QED BY <3>1 DEF Copies, Occurrences
  <2>2. Cardinality(Between(m, n)) \in Nat
    <3>1. Between(m, n) \in SUBSET Runs
      BY DEF Between
    <3>. QED BY <3>1, SeedingAssumption, FS_Subset, FS_CardinalityType
  <2>. QED BY <2>1, <2>2 DEF FallingCounts
<1>. QED BY <1>1, <1>2, <1>3, SeedInvariant, PTL DEF Spec
=============================================================================
