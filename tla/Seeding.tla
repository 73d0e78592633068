------------------------------- MODULE Seeding -------------------------------
(***************************************************************************)
(* The seed script: it finds or creates the administrator, finds or        *)
(* creates the categories a transaction file names, and inserts the        *)
(* transactions in batches.  Each statement commits by itself, so a run    *)
(* that fails leaves what it has done, and the script is run again.        *)
(*                                                                         *)
(* A category's type follows from its name, as the file has one type per   *)
(* category, and all rows belong to the administrator: neither is a field  *)
(* here.  The id of a row is its place in the table.                       *)
(***************************************************************************)
EXTENDS Integers, Sequences, FiniteSets, SequencesExt, FiniteSetsExt

CONSTANTS
    Data,       \* the file: a sequence of [category, subcategory]
    BatchSize,  \* BATCH_SIZE
    Runs,       \* runs of the script that may overlap
    MaxStarts,  \* bound of the number of runs
    NoName      \* a transaction without a subcategory

Names == {d.category : d \in ToSet(Data)} \cup {d.subcategory : d \in ToSet(Data)}

\* The subcategories of the file each occur under one category.
ASSUME SeedingAssumption ==
    /\ BatchSize \in Nat \ {0} /\ MaxStarts \in Nat
    /\ IsFiniteSet(Runs)
    /\ Data \in Seq([category : Names, subcategory : Names]) /\ Data # <<>>
    /\ \A d, e \in ToSet(Data) :
          d.subcategory = e.subcategory /\ d.subcategory # NoName
          => d.category = e.category

NoId == 0    \* NULL, or undefined in a Map

VARIABLES
    admin,         \* the administrator's row exists
    categories,    \* TransactionCategory: a sequence of [name, parent]
    transactions,  \* Transaction: a sequence of [entry, category]
    run,           \* the state of each run
    starts,        \* runs started so far
    overlapped     \* history: two runs were active at once

Steps == {"idle", "findUser", "insertUser", "findCategory", "insertCategory", "batch"}

vars == <<admin, categories, transactions, run, starts, overlapped>>

NoMap == [n \in Names |-> NoId]

NoItem == [category |-> NoName, subcategory |-> NoName]

Idle == [pc |-> "idle", item |-> NoItem, next |-> 1,
         createdCategories |-> NoMap, createdSubcategories |-> NoMap]

-----------------------------------------------------------------------------
(* categoryMap: the file's categories in the order in which they first     *)
(* occur, each followed by its subcategories in the same order.            *)

CategoryMap ==
    ToSet(Data) \cup {[category |-> d.category, subcategory |-> NoName] : d \in ToSet(Data)}

FirstEntry(c, s) ==
    Min({i \in DOMAIN Data : Data[i].category = c /\ s \in {NoName, Data[i].subcategory}})

Before(x, y) ==
    \/ FirstEntry(x.category, NoName) < FirstEntry(y.category, NoName)
    \/ /\ x.category = y.category
       /\ y.subcategory # NoName
       /\ \/ x.subcategory = NoName
          \/ FirstEntry(x.category, x.subcategory) < FirstEntry(y.category, y.subcategory)

-----------------------------------------------------------------------------
Init ==
    /\ admin = FALSE
    /\ categories = <<>> /\ transactions = <<>>
    /\ run = [p \in Runs |-> Idle]
    /\ starts = 0
    /\ overlapped = FALSE

Goto(p, pc) == run' = [run EXCEPT ![p].pc = pc]

End(p) == run' = [run EXCEPT ![p] = Idle]

Start(p) ==
    /\ run[p].pc = "idle"
    /\ starts < MaxStarts
    /\ starts' = starts + 1
    /\ overlapped' = (overlapped \/ \E q \in Runs \ {p} : run[q].pc # "idle")
    /\ Goto(p, "findUser")
    /\ UNCHANGED <<admin, categories, transactions>>

FindUser(p) ==
    /\ run[p].pc = "findUser"
    /\ Goto(p, IF admin THEN "findCategory" ELSE "insertUser")
    /\ UNCHANGED <<admin, categories, transactions, starts, overlapped>>

\* The UNIQUE index on email refuses the second administrator.
InsertUser(p) ==
    /\ run[p].pc = "insertUser"
    /\ admin' = TRUE
    /\ IF admin THEN End(p) ELSE Goto(p, "findCategory")
    /\ UNCHANGED <<categories, transactions, starts, overlapped>>

-----------------------------------------------------------------------------
(* The loops over categoryMap come next to the first item whose id is in    *)
(* neither Map; createCategory keeps it from the query to the insert.      *)

Id(p, x) ==
    IF x.subcategory = NoName THEN run[p].createdCategories[x.category]
    ELSE run[p].createdSubcategories[x.subcategory]

Pending(p) == {x \in CategoryMap : Id(p, x) = NoId}

IsNext(p, x) == x \in Pending(p) /\ \A y \in Pending(p) : ~ Before(y, x)

Wanted(p, x) ==
    IF x.subcategory = NoName
    THEN [name |-> x.category, parent |-> NoId]
    ELSE [name |-> x.subcategory, parent |-> run[p].createdCategories[x.category]]

\* Mutant: the parent is left out of the query.
MutByName(w) == {id \in DOMAIN categories : categories[id].name = w.name}

\* The rows that findCategory may return the first of.
Matching(w) == {id \in DOMAIN categories : categories[id] = w}

Created(p, x, id) ==
    LET on == [run[p] EXCEPT !.item = NoItem,
                  !.pc = IF Pending(p) = {x} THEN "batch" ELSE "findCategory"]
    IN run' = [run EXCEPT ![p] =
                 IF x.subcategory = NoName
                 THEN [on EXCEPT !.createdCategories[x.category] = id]
                 ELSE [on EXCEPT !.createdSubcategories[x.subcategory] = id]]

\* Mutant: no look for the existing row.
MutNoLook(p) ==
    /\ run[p].pc = "findCategory"
    /\ \E x \in CategoryMap :
          IsNext(p, x) /\ run' = [run EXCEPT ![p].pc = "insertCategory", ![p].item = x]
    /\ UNCHANGED <<admin, categories, transactions, starts, overlapped>>

FindCategory(p) ==
    /\ run[p].pc = "findCategory"
    /\ \E x \in CategoryMap :
          /\ IsNext(p, x)
          /\ IF Matching(Wanted(p, x)) = {}
             THEN run' = [run EXCEPT ![p].pc = "insertCategory", ![p].item = x]
             ELSE \E id \in Matching(Wanted(p, x)) : Created(p, x, id)
    /\ UNCHANGED <<admin, categories, transactions, starts, overlapped>>

\* The unique index over user, name, type and parent: a NULL parent is
\* distinct from every other, so it only compares subcategories.
Taken(w) == w.parent # NoId /\ Matching(w) # {}

InsertCategory(p) ==
    LET row == Wanted(p, run[p].item) IN
    /\ run[p].pc = "insertCategory"
    /\ ~ Taken(row)
    /\ categories' = Append(categories, row)
    /\ Created(p, run[p].item, Len(categories) + 1)
    /\ UNCHANGED <<admin, transactions, starts, overlapped>>

InsertRefused(p) ==
    /\ run[p].pc = "insertCategory"
    /\ Taken(Wanted(p, run[p].item))
    /\ End(p)
    /\ UNCHANGED <<admin, categories, transactions, starts, overlapped>>

-----------------------------------------------------------------------------
(* createTransactions                                                      *)

\* subcategoryId ?? categoryId; the Map of subcategories has one key per name.
CategoryOf(p, d) ==
    LET sub == IF d.subcategory = NoName THEN NoId
               ELSE run[p].createdSubcategories[d.subcategory]
    IN IF sub # NoId THEN sub ELSE run[p].createdCategories[d.category]

\* Mutant: the slice takes one entry too many.
MutLastOfBatch(from) == Min({from + BatchSize, Len(Data)})

LastOfBatch(from) == Min({from + BatchSize - 1, Len(Data)})

\* Mutant: the loop does not end with the file.
MutEndless(p) ==
    LET from == run[p].next
        last == LastOfBatch(from)
        row(i) == [entry |-> i, category |-> CategoryOf(p, Data[i])]
    IN
    /\ run[p].pc = "batch"
    /\ transactions' = transactions \o [k \in 1 .. last - from + 1 |-> row(from + k - 1)]
    /\ run' = [run EXCEPT ![p].next = from + BatchSize]
    /\ UNCHANGED <<admin, categories, starts, overlapped>>

InsertBatch(p) ==
    LET from == run[p].next
        last == LastOfBatch(from)
        row(i) == [entry |-> i, category |-> CategoryOf(p, Data[i])]
    IN
    /\ run[p].pc = "batch"
    /\ transactions' = transactions \o [k \in 1 .. last - from + 1 |-> row(from + k - 1)]
    /\ IF from + BatchSize > Len(Data) THEN End(p)
       ELSE run' = [run EXCEPT ![p].next = from + BatchSize]
    /\ UNCHANGED <<admin, categories, starts, overlapped>>

\* A statement throws or the process is stopped: what was inserted stays.
Fail(p) ==
    /\ run[p].pc # "idle"
    /\ End(p)
    /\ UNCHANGED <<admin, categories, transactions, starts, overlapped>>

Next ==
    \E p \in Runs :
        \/ Start(p)
        \/ FindUser(p) \/ InsertUser(p)
        \/ FindCategory(p) \/ InsertCategory(p) \/ InsertRefused(p)
        \/ InsertBatch(p)
        \/ Fail(p)

Spec == Init /\ [][Next]_vars

-----------------------------------------------------------------------------
(* Properties.                                                             *)

\* The types; every id in a row or in a run is the id of a row.
TypeOK ==
    LET Ids == DOMAIN categories IN
    /\ admin \in BOOLEAN /\ overlapped \in BOOLEAN /\ starts \in 0 .. MaxStarts
    /\ categories \in Seq([name : Names, parent : Ids \cup {NoId}])
    /\ transactions \in Seq([entry : DOMAIN Data, category : Ids])
    /\ run \in [Runs -> [pc : Steps, item : CategoryMap \cup {NoItem}, next : DOMAIN Data,
                        createdCategories : [Names -> Ids \cup {NoId}],
                        createdSubcategories : [Names -> Ids \cup {NoId}]]]

\* Whatever runs failed before, a transaction is filed under the category of
\* its name, and a subcategory under its own category; also where a name is
\* both a category and a subcategory.
FiledRight ==
    \A i \in DOMAIN transactions :
        LET d == Data[transactions[i].entry]
            c == categories[transactions[i].category]
        IN IF d.subcategory = NoName
           THEN c = [name |-> d.category, parent |-> NoId]
           ELSE /\ c.name = d.subcategory
                /\ c.parent # NoId
                /\ categories[c.parent] = [name |-> d.category, parent |-> NoId]

\* Running the script again after any failure creates no category twice; only
\* runs that overlap do.
NoDuplicates ==
    overlapped \/ \A i, j \in DOMAIN categories : categories[i] = categories[j] => i = j

Copies(n) == Cardinality({i \in DOMAIN transactions : transactions[i].entry = n})

\* Failed runs leave the file's entries from its start: no later entry is in
\* the table more often than an earlier one.
PrefixesOnly ==
    \A m, n \in DOMAIN Data : m < n => Copies(n) <= Copies(m)
=============================================================================
