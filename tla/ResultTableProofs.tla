------------------------- MODULE ResultTableProofs --------------------------
(***************************************************************************)
(* The table a callback gets, for result sets of any size with any names,  *)
(* texts and NULLs.                                                        *)
(*                                                                         *)
(* That a finished table is the reference one is not inductive.  What each *)
(* step keeps is that the rows read are stored as they were sent, NULLs    *)
(* apart, that the rows shown so far are the reference ones, and that the  *)
(* row at work holds of every key the last column before the current one:  *)
(* a repeated name overwrites, or deletes, what an earlier column set.     *)
(***************************************************************************)
EXTENDS ResultTable, TLAPS

ColumnType == [name : Names, type : Types]
Cells == Texts \cup {Blank}
Shown == Cells \cup {<<"number", t>> : t \in Cells}
KeyType == (1 .. MaxCols) \cup Names
Tables == UNION {[K -> Shown] : K \in SUBSET KeyType}

\* What the variables hold.
TypeOK ==
  /\ isStatement \in BOOLEAN
  /\ useNumbers \in BOOLEAN
  /\ columns \in Seq(ColumnType)
  /\ Len(columns) <= MaxCols
  /\ sent \in Seq(Rows(Len(columns)))
  /\ pc \in {"construct", "fetch", "rows", "cell", "done", "deleted"}
  /\ error \in BOOLEAN
  /\ rowCount \in Nat
  /\ colCount \in Nat
  /\ m_rows \in Seq([1 .. Len(columns) -> Cells])
  /\ nulls \subseteq Nat \X Nat
  /\ rowsPointer \in {"null", "garbage", "array"}
  /\ fetched \in Nat
  /\ row \in Tables
  /\ c \in Nat \ {0}
  /\ data \in Seq(Tables)

\* A result set without columns has no rows; the counts are zero or those of the
\* result set, and of its rows when its columns are there and no error is; the
\* array of rows is there when there are rows.
Counts ==
  /\ columns = << >> => sent = << >>
  /\ pc = "construct" => rowCount = 0 /\ colCount = 0 /\ fetched = 0 /\ nulls = {}
  /\ colCount \in {0, Len(columns)}
  /\ rowCount \in {0, Len(sent)}
  /\ colCount = 0 => rowCount = 0
  /\ ~error /\ colCount > 0 => rowCount = Len(sent)
  /\ fetched <= rowCount
  /\ rowsPointer = "array" <=> rowCount > 0
  /\ rowCount > 0 => Len(m_rows) = rowCount

\* How far the rows, and the table of rows, have come.
Order ==
  /\ pc \in {"construct", "fetch"} => data = << >> /\ ~error
  /\ Len(data) <= rowCount
  /\ pc = "cell" => Len(data) < rowCount /\ ~error /\ c <= colCount + 1
  /\ pc \in {"done", "deleted"} /\ ~error => Len(data) = rowCount
  /\ pc = "deleted" => freed = Deleted

\* The rows read are stored as they were sent, NULL as a blank and a mark;
\* nothing is marked in the others.
Stored ==
  /\ \A r \in 1 .. fetched : \A n \in 1 .. Len(columns) :
       /\ m_rows[r][n] = IF sent[r][n] = Null THEN Blank ELSE sent[r][n]
       /\ <<r, n>> \in nulls <=> sent[r][n] = Null
  /\ \A p \in nulls : p[1] <= fetched

\* No column from n to the one before k has the key of column n.
LastBefore(n, k) == \A m \in n + 1 .. k - 1 : Key(m) # Key(n)

\* Of the columns before k with one key there is a last one.
HasLast(k) ==
  \A n \in 1 .. k - 1 : \E m \in 1 .. k - 1 : Key(m) = Key(n) /\ LastBefore(m, k)

\* The table t is what the columns of row r before k make of it.
RowUpTo(t, r, k) ==
  /\ DOMAIN t = {Key(n) : n \in {m \in 1 .. k - 1 : LastBefore(m, k) /\ sent[r][m] # Null}}
  /\ \A n \in 1 .. k - 1 :
       LastBefore(n, k) /\ sent[r][n] # Null => t[Key(n)] = ShownAs(columns[n].type, sent[r][n])

\* The rows shown, and the one at work.
RowsShown ==
  /\ \A r \in 1 .. Len(data) : r <= fetched => data[r] = RowReference(r)
  /\ pc = "cell" => HasLast(c)
  /\ pc = "cell" /\ Len(data) < fetched => RowUpTo(row, Len(data) + 1, c)

IInv == TypeOK /\ Counts /\ Order /\ Stored /\ RowsShown

-----------------------------------------------------------------------------
(* The row at work.                                                        *)

\* A key is a column's number or name.
LEMMA KeyTyped ==
  ASSUME ResultAssumption, TypeOK, NEW n \in 1 .. Len(columns)
  PROVE  Key(n) \in KeyType
<1>1. Len(columns) \in Nat /\ Len(columns) <= MaxCols /\ MaxCols \in Nat
  BY DEF TypeOK, ResultAssumption
<1>2. n \in 1 .. MaxCols
  BY <1>1
<1>3. columns[n] \in ColumnType
  BY <1>1 DEF TypeOK
<1>4. columns[n].name \in Names
  BY <1>3 DEF ColumnType
<1> QED
  BY <1>2, <1>4 DEF Key, KeyType

\* The next column is the last one of its key, and ends that for another.
LEMMA LastNext ==
  ASSUME NEW k \in Nat \ {0}, NEW n \in 1 .. k
  PROVE  LastBefore(n, k + 1) <=> n = k \/ (n < k /\ LastBefore(n, k) /\ Key(k) # Key(n))
<1>1. CASE n = k
  <2>1. n + 1 .. (k + 1) - 1 = {}
    BY <1>1
  <2> QED
    BY <1>1, <2>1 DEF LastBefore
<1>2. CASE n < k
  <2>1. n + 1 .. (k + 1) - 1 = (n + 1 .. k - 1) \cup {k}
    BY <1>2
  <2> QED
    BY <1>2, <2>1 DEF LastBefore
<1> QED
  BY <1>1, <1>2

\* A last column of every key is found after another column, too.
LEMMA HasLastNext == ASSUME NEW k \in Nat \ {0}, HasLast(k) PROVE HasLast(k + 1)
<1> SUFFICES ASSUME NEW n \in 1 .. k
             PROVE  \E m \in 1 .. k : Key(m) = Key(n) /\ LastBefore(m, k + 1)
  BY DEF HasLast
<1>1. CASE Key(n) = Key(k)
  BY <1>1, LastNext
<1>2. CASE Key(n) # Key(k)
  <2>1. n \in 1 .. k - 1
    BY <1>2
  <2>2. PICK m \in 1 .. k - 1 : Key(m) = Key(n) /\ LastBefore(m, k)
    BY <2>1 DEF HasLast
  <2>3. m \in 1 .. k /\ m < k
    OBVIOUS
  <2>4. LastBefore(m, k + 1)
    BY <1>2, <2>2, <2>3, LastNext
  <2> QED
    BY <2>2, <2>3, <2>4
<1> QED
  BY <1>1, <1>2

\* A NULL takes away what an earlier column of the name has set: t[key] = nil.
LEMMA SetNilNext ==
  ASSUME NEW t, NEW r, NEW k \in Nat \ {0}, RowUpTo(t, r, k), sent[r][k] = Null
  PROVE  RowUpTo(SetNil(t, Key(k)), r, k + 1)
<1> DEFINE u == SetNil(t, Key(k))
<1>1. DOMAIN u = DOMAIN t \ {Key(k)} /\ \A x \in DOMAIN u : u[x] = t[x]
  BY DEF SetNil, Restrict
<1> HIDE DEF u
<1>2. ASSUME NEW n \in 1 .. k, LastBefore(n, k + 1), sent[r][n] # Null
      PROVE  n \in 1 .. k - 1 /\ LastBefore(n, k) /\ Key(n) # Key(k)
  BY <1>2, LastNext
<1>3. ASSUME NEW n \in 1 .. k - 1, LastBefore(n, k), Key(n) # Key(k)
      PROVE  n \in 1 .. k /\ LastBefore(n, k + 1)
  BY <1>3, LastNext
<1>4. \A x \in DOMAIN u :
        \E n \in 1 .. k : LastBefore(n, k + 1) /\ sent[r][n] # Null /\ x = Key(n)
  <2> SUFFICES ASSUME NEW x \in DOMAIN u
               PROVE  \E n \in 1 .. k : LastBefore(n, k + 1) /\ sent[r][n] # Null /\ x = Key(n)
    OBVIOUS
  <2>1. PICK n \in 1 .. k - 1 : LastBefore(n, k) /\ sent[r][n] # Null /\ x = Key(n)
    BY <1>1 DEF RowUpTo
  <2> QED
    BY <1>1, <1>3, <2>1
<1>5. \A n \in 1 .. k : LastBefore(n, k + 1) /\ sent[r][n] # Null =>
        Key(n) \in DOMAIN u /\ u[Key(n)] = ShownAs(columns[n].type, sent[r][n])
  BY <1>1, <1>2 DEF RowUpTo
<1>6. (k + 1) - 1 = k
  OBVIOUS
<1>7. RowUpTo(u, r, k + 1)
  BY <1>4, <1>5, <1>6 DEF RowUpTo
<1> QED
  BY <1>7 DEF u

\* A value takes the place of what an earlier column of the name has set.
LEMMA SetFieldNext ==
  ASSUME NEW t, NEW r, NEW k \in Nat \ {0}, RowUpTo(t, r, k), sent[r][k] # Null
  PROVE  RowUpTo(SetField(t, Key(k), ShownAs(columns[k].type, sent[r][k])), r, k + 1)
<1> DEFINE v == ShownAs(columns[k].type, sent[r][k])
           u == SetField(t, Key(k), v)
<1>1. /\ DOMAIN u = DOMAIN t \cup {Key(k)}
      /\ u[Key(k)] = v
      /\ \A x \in DOMAIN t : x # Key(k) => u[x] = t[x]
  BY DEF SetField
<1> HIDE DEF u
<1>2. ASSUME NEW n \in 1 .. k, LastBefore(n, k + 1)
      PROVE  n = k \/ (n \in 1 .. k - 1 /\ LastBefore(n, k) /\ Key(n) # Key(k))
  BY <1>2, LastNext
<1>3. ASSUME NEW n \in 1 .. k - 1, LastBefore(n, k), Key(n) # Key(k)
      PROVE  n \in 1 .. k /\ LastBefore(n, k + 1)
  BY <1>3, LastNext
<1>4. k \in 1 .. k /\ LastBefore(k, k + 1)
  BY LastNext
<1>5. \A x \in DOMAIN u :
        \E n \in 1 .. k : LastBefore(n, k + 1) /\ sent[r][n] # Null /\ x = Key(n)
  <2> SUFFICES ASSUME NEW x \in DOMAIN u
               PROVE  \E n \in 1 .. k : LastBefore(n, k + 1) /\ sent[r][n] # Null /\ x = Key(n)
    OBVIOUS
  <2>1. CASE x = Key(k)
    BY <2>1, <1>4
  <2>2. CASE x # Key(k)
    <3>1. PICK n \in 1 .. k - 1 : LastBefore(n, k) /\ sent[r][n] # Null /\ x = Key(n)
      BY <1>1, <2>2 DEF RowUpTo
    <3> QED
      BY <2>2, <1>3, <3>1
  <2> QED
    BY <2>1, <2>2
<1>6. \A n \in 1 .. k : LastBefore(n, k + 1) /\ sent[r][n] # Null =>
        Key(n) \in DOMAIN u /\ u[Key(n)] = ShownAs(columns[n].type, sent[r][n])
  BY <1>1, <1>2 DEF RowUpTo
<1>7. (k + 1) - 1 = k
  OBVIOUS
<1>8. RowUpTo(u, r, k + 1)
  BY <1>5, <1>6, <1>7 DEF RowUpTo
<1> QED
  BY <1>8 DEF u

\* What a column that is the last one of its key of them all is to the
\* reference.
LEMMA LastIsLastColumn ==
  ASSUME TypeOK, NEW n \in 1 .. Len(columns), LastBefore(n, Len(columns) + 1)
  PROVE  LastColumn(Key(n)) = n
<1> DEFINE IsLast(m) == Key(m) = Key(n) /\ \A k \in m + 1 .. Len(columns) : Key(k) # Key(n)
<1>1. Len(columns) \in Nat /\ (Len(columns) + 1) - 1 = Len(columns)
  BY DEF TypeOK
<1>2. IsLast(n)
  BY <1>1 DEF LastBefore
<1>3. ASSUME NEW m \in 1 .. Len(columns), IsLast(m) PROVE m = n
  <2>1. ~ m < n
    <3> SUFFICES ASSUME m < n PROVE FALSE
      OBVIOUS
    <3>1. n \in m + 1 .. Len(columns)
      BY <1>1
    <3> QED
      BY <1>3, <3>1
  <2>2. ~ n < m
    <3> SUFFICES ASSUME n < m PROVE FALSE
      OBVIOUS
    <3>1. m \in n + 1 .. Len(columns)
      BY <1>1
    <3> QED
      BY <1>2, <1>3, <3>1
  <2> QED
    BY <1>1, <2>1, <2>2
<1>4. LastColumn(Key(n)) = CHOOSE m \in 1 .. Len(columns) : IsLast(m)
  BY DEF LastColumn, Key
<1> HIDE DEF IsLast
<1> QED
  BY <1>2, <1>3, <1>4

\* After the last column the row is the reference one.
LEMMA RowIsReference ==
  ASSUME TypeOK, NEW t \in Tables, NEW r, HasLast(Len(columns) + 1),
         RowUpTo(t, r, Len(columns) + 1)
  PROVE  t = RowReference(r)
<1> DEFINE N == Len(columns)
           Ref == {k \in Keys : sent[r][LastColumn(k)] # Null}
           Value(k) == IF columns[LastColumn(k)].type = "number"
                       THEN <<"number", sent[r][LastColumn(k)]>> ELSE sent[r][LastColumn(k)]
<1>1. N \in Nat /\ (N + 1) - 1 = N
  BY DEF TypeOK
<1>2. Keys = {Key(n) : n \in 1 .. N}
  BY <1>1 DEF Keys, Key
<1>3. \A x \in DOMAIN t : x \in Ref /\ t[x] = Value(x)
  <2> SUFFICES ASSUME NEW x \in DOMAIN t PROVE x \in Ref /\ t[x] = Value(x)
    OBVIOUS
  <2>1. PICK n \in 1 .. N : LastBefore(n, N + 1) /\ sent[r][n] # Null /\ x = Key(n)
    BY <1>1 DEF RowUpTo
  <2>2. LastColumn(x) = n
    BY <2>1, LastIsLastColumn
  <2>3. t[x] = ShownAs(columns[n].type, sent[r][n])
    BY <1>1, <2>1 DEF RowUpTo
  <2> QED
    BY <1>2, <2>1, <2>2, <2>3 DEF ShownAs
<1>4. \A x \in Ref : x \in DOMAIN t
  <2> SUFFICES ASSUME NEW x \in Ref PROVE x \in DOMAIN t
    OBVIOUS
  <2>1. PICK n \in 1 .. N : x = Key(n)
    BY <1>2
  <2>2. PICK m \in 1 .. N : Key(m) = Key(n) /\ LastBefore(m, N + 1)
    BY <1>1 DEF HasLast
  <2>3. LastColumn(x) = m
    BY <2>1, <2>2, LastIsLastColumn
  <2> QED
    BY <1>1, <2>1, <2>2, <2>3 DEF RowUpTo
<1>5. t = [x \in DOMAIN t |-> t[x]]
  BY DEF Tables
<1>6. DOMAIN t = Ref
  BY <1>3, <1>4
<1>7. RowReference(r) = [x \in Ref |-> Value(x)]
  BY DEF RowReference
<1> HIDE DEF Ref, Value
<1> QED
  BY <1>3, <1>5, <1>6, <1>7

\* The reference depends on the result set only.
LEMMA SameReference == ASSUME UNCHANGED input, NEW r PROVE RowReference(r)' = RowReference(r)
<1>1. UNCHANGED <<isStatement, useNumbers, columns, sent>>
  BY DEF input
<1>2. \A key : LastColumn(key)' = LastColumn(key)
  BY <1>1 DEF LastColumn
<1>3. Keys' = Keys
  BY <1>1 DEF Keys
<1> QED
  BY <1>1, <1>2, <1>3 DEF RowReference

-----------------------------------------------------------------------------
(* The steps.                                                              *)

\* A result set of the server, and a Result that is not constructed yet.
LEMMA InitHolds == ASSUME ResultAssumption, Init PROVE IInv
<1>1. /\ pc = "construct" /\ error = FALSE /\ rowCount = 0 /\ colCount = 0
      /\ m_rows = << >> /\ nulls = {} /\ rowsPointer \in {"null", "garbage"}
      /\ fetched = 0 /\ row = << >> /\ c = 1 /\ data = << >>
      /\ isStatement \in BOOLEAN /\ useNumbers \in BOOLEAN
  BY DEF Init, EmptyTable
<1>2. columns \in Seq(ColumnType) /\ Len(columns) <= MaxCols
  <2>1. PICK n \in 0 .. MaxCols : columns \in [1 .. n -> ColumnType]
    BY DEF Init, BoundedSeq, SeqOf, ColumnType
  <2> QED
    BY <2>1
<1>3. sent \in Seq(Rows(Len(columns))) /\ (columns = << >> => sent = << >>)
  <2>1. CASE columns = << >>
    BY <2>1 DEF Init
  <2>2. CASE columns # << >>
    <3>1. PICK n \in 0 .. MaxRows : sent \in [1 .. n -> Rows(Len(columns))]
      BY <2>2 DEF Init, BoundedSeq, SeqOf
    <3> QED
      BY <2>2, <3>1
  <2> QED
    BY <2>1, <2>2
<1>4. << >> \in Tables
  <2>1. << >> \in [{} -> Shown]
    OBVIOUS
  <2> QED
    BY <2>1 DEF Tables
<1>5. row \in Tables /\ data \in Seq(Tables)
  BY <1>1, <1>4
<1>6. m_rows \in Seq([1 .. Len(columns) -> Cells])
  BY <1>1
<1>7. TypeOK
  <2>1. /\ pc \in {"construct", "fetch", "rows", "cell", "done", "deleted"}
        /\ rowCount \in Nat /\ colCount \in Nat /\ nulls \subseteq Nat \X Nat
        /\ rowsPointer \in {"null", "garbage", "array"} /\ fetched \in Nat
        /\ c \in Nat \ {0}
    BY <1>1
  <2>2. error \in BOOLEAN
    BY <1>1
  <2> QED
    BY <1>1, <1>2, <1>3, <1>5, <1>6, <2>1, <2>2, Zenon DEF TypeOK
<1>8. Counts /\ Order
  BY <1>1, <1>3 DEF Counts, Order
<1>9. Stored /\ RowsShown
  BY <1>1 DEF Stored, RowsShown
<1> QED
  BY <1>7, <1>8, <1>9 DEF IInv

\* A step of a constructor: the table is not begun.
LEMMA ConstructStep ==
  ASSUME IInv, pc \in {"construct", "fetch"}, UNCHANGED <<input, row, c, data, freed>>,
         pc' \in {"fetch", "rows"}, pc' = "fetch" => ~error'
  PROVE  /\ data' = << >> /\ Len(data') = 0
         /\ Order' <=> Len(data') <= rowCount'
         /\ RowsShown'
<1>1. data = << >> /\ data' = << >>
  BY DEF IInv, Order
<1>2. Len(data') = 0
  BY <1>1
<1>3. Order' <=> Len(data') <= rowCount'
  BY <1>1 DEF Order
<1>4. RowsShown'
  BY <1>2 DEF RowsShown
<1> QED
  BY <1>1, <1>2, <1>3, <1>4

\* Result(MYSQL*) and Result(PStatement*) without a result set.
LEMMA NothingStep ==
  ASSUME ResultAssumption, IInv, NEW err \in BOOLEAN, ConstructNothing(err) PROVE IInv'
<1> USE DEF ConstructNothing, input
<1>1. TypeOK'
  BY DEF IInv, TypeOK
<1>2. Counts'
  BY DEF IInv, Counts
<1>3. Stored'
  BY DEF IInv, Counts, Stored
<1>4. Order' /\ RowsShown'
  BY ConstructStep DEF IInv, Counts
<1> QED
  BY <1>1, <1>2, <1>3, <1>4 DEF IInv

\* No result set to be had of rows there are, or none of its rows.
LEMMA LostStep ==
  ASSUME ResultAssumption, IInv, ConstructLost \/ ConstructFailed PROVE IInv'
<1> USE DEF input
<1>0. /\ TypeOK /\ Counts /\ Stored /\ Order /\ pc = "construct" /\ pc' = "rows"
      /\ UNCHANGED <<isStatement, useNumbers, columns, sent, rowCount, m_rows, nulls,
                     rowsPointer, fetched, row, c, data, freed>>
      /\ \/ UNCHANGED <<error, colCount>>
         \/ error' = TRUE /\ colCount' = Len(columns)
  BY DEF IInv, ConstructLost, ConstructFailed, result
<1>1. TypeOK'
  <2>1. error' \in BOOLEAN
    BY <1>0, Zenon DEF TypeOK
  <2>2. colCount' \in Nat
    <3>1. Len(columns) \in Nat
      BY <1>0 DEF TypeOK
    <3> QED
      BY <1>0, <3>1 DEF TypeOK
  <2>3. pc' \in {"construct", "fetch", "rows", "cell", "done", "deleted"}
    BY <1>0
  <2> QED
    BY <1>0, <2>1, <2>2, <2>3, Zenon DEF TypeOK
<1>2. Counts'
  BY <1>0 DEF Counts
<1>3. Stored'
  BY <1>0 DEF Counts, Stored
<1>4. Order' /\ RowsShown'
  <2>1. Len(data') <= rowCount'
    BY <1>0 DEF Order
  <2> QED
    BY <1>0, <2>1, ConstructStep
<1> QED
  BY <1>1, <1>2, <1>3, <1>4 DEF IInv

\* What a constructor stores of a row: each cell, and a blank for a NULL.
LEMMA CellStored ==
  ASSUME TypeOK, NEW r \in 1 .. Len(sent)
  PROVE  /\ sent[r] \in Rows(Len(columns))
         /\ [n \in 1 .. Len(columns) |-> IF sent[r][n] = Null THEN Blank ELSE sent[r][n]]
              \in [1 .. Len(columns) -> Cells]
<1>1. sent[r] \in Rows(Len(columns))
  BY DEF TypeOK
<1> QED
  BY <1>1 DEF Rows, Cells

\* Result(MYSQL*): all rows at once.
LEMMA QueryStep == ASSUME ResultAssumption, IInv, ConstructQuery PROVE IInv'
<1> DEFINE N == Len(columns)
           CellOf(r) == [n \in 1 .. N |-> IF sent[r][n] = Null THEN Blank ELSE sent[r][n]]
<1> USE DEF input
<1>0. /\ TypeOK /\ Counts /\ Stored /\ pc = "construct" /\ columns # << >>
      /\ UNCHANGED <<isStatement, useNumbers, columns, sent, error, row, c, data, freed>>
      /\ pc' = "rows" /\ colCount' = N /\ rowCount' = Len(sent) /\ fetched' = Len(sent)
      /\ rowsPointer' = IF sent = << >> THEN rowsPointer ELSE "array"
      /\ m_rows' = [r \in 1 .. Len(sent) |-> CellOf(r)]
      /\ nulls' = {p \in (1 .. Len(sent)) \X (1 .. N) : sent[p[1]][p[2]] = Null}
  BY DEF IInv, ConstructQuery, Resize
<1>1. N \in Nat /\ Len(sent) \in Nat
  BY <1>0 DEF TypeOK
<1>2. \A r \in 1 .. Len(sent) : CellOf(r) \in [1 .. N -> Cells]
  BY <1>0, CellStored
<1>3. m_rows' \in Seq([1 .. N -> Cells]) /\ Len(m_rows') = Len(sent)
  <2> HIDE DEF CellOf
  <2> DEFINE S == [1 .. N -> Cells]
  <2> HIDE DEF S
  <2>1. m_rows' \in [1 .. Len(sent) -> S]
    BY <1>0, <1>2 DEF S
  <2>2. m_rows' \in Seq(S) /\ Len(m_rows') = Len(sent)
    BY <1>1, <2>1
  <2> QED
    BY <2>2 DEF S
<1>4. nulls' \subseteq Nat \X Nat
  BY <1>0, <1>1
<1>5. TypeOK'
  BY <1>0, <1>1, <1>3, <1>4 DEF TypeOK
<1>6. Counts'
  <2>1. sent = << >> <=> Len(sent) = 0
    BY <1>0 DEF TypeOK
  <2>2. rowsPointer # "array"
    BY <1>0 DEF Counts
  <2> QED
    BY <1>0, <1>1, <1>3, <2>1, <2>2 DEF Counts
<1>7. Stored'
  BY <1>0, <1>1 DEF Stored
<1>8. Order' /\ RowsShown'
  BY <1>0, <1>1, ConstructStep
<1> QED
  BY <1>5, <1>6, <1>7, <1>8 DEF IInv

\* Result(PStatement*): blank rows to begin with.
LEMMA StatementStep == ASSUME ResultAssumption, IInv, ConstructStatement PROVE IInv'
<1> DEFINE N == Len(columns)
           BlankRow == [n \in 1 .. N |-> Blank]
<1> USE DEF input
<1>0. /\ TypeOK /\ Counts /\ Stored /\ Order /\ pc = "construct" /\ columns # << >>
      /\ UNCHANGED <<isStatement, useNumbers, columns, sent, error, row, c, data, freed,
                     nulls, fetched>>
      /\ pc' = "fetch" /\ colCount' = N /\ rowCount' = Len(sent)
      /\ rowsPointer' = IF sent = << >> THEN rowsPointer ELSE "array"
      /\ m_rows' = [r \in 1 .. Len(sent) |-> BlankRow]
  BY DEF IInv, ConstructStatement, Resize
<1>1. N \in Nat /\ Len(sent) \in Nat
  BY <1>0 DEF TypeOK
<1>2. BlankRow \in [1 .. N -> Cells]
  BY DEF Cells
<1>3. m_rows' \in Seq([1 .. N -> Cells]) /\ Len(m_rows') = Len(sent)
  <2> HIDE DEF BlankRow
  <2> DEFINE S == [1 .. N -> Cells]
  <2> HIDE DEF S
  <2>1. m_rows' \in [1 .. Len(sent) -> S]
    BY <1>0, <1>2 DEF S
  <2>2. m_rows' \in Seq(S) /\ Len(m_rows') = Len(sent)
    BY <1>1, <2>1
  <2> QED
    BY <2>2 DEF S
<1>4. TypeOK'
  BY <1>0, <1>1, <1>3 DEF TypeOK
<1>5. Counts'
  <2>1. sent = << >> <=> Len(sent) = 0
    BY <1>0 DEF TypeOK
  <2>2. rowsPointer # "array" /\ fetched = 0
    BY <1>0 DEF Counts
  <2> QED
    BY <1>0, <1>1, <1>3, <2>1, <2>2 DEF Counts
<1>6. Stored'
  BY <1>0 DEF Counts, Stored
<1>7. Order' /\ RowsShown'
  <2>1. ~error'
    BY <1>0 DEF Order
  <2> QED
    BY <1>0, <1>1, <2>1, ConstructStep
<1> QED
  BY <1>4, <1>5, <1>6, <1>7 DEF IInv

\* mysql_stmt_fetch: the next row is stored, and its NULLs are marked.
LEMMA FetchStep == ASSUME ResultAssumption, IInv, Fetch PROVE IInv'
<1> DEFINE N == Len(columns)
           f == fetched + 1
           CellOf == [n \in 1 .. N |-> IF sent[f][n] = Null THEN Blank ELSE sent[f][n]]
<1> USE DEF input
<1>0. /\ TypeOK /\ Counts /\ Stored /\ Order /\ pc = "fetch" /\ f <= rowCount
      /\ UNCHANGED <<isStatement, useNumbers, columns, sent, pc, error, rowCount, colCount,
                     rowsPointer, row, c, data, freed>>
      /\ m_rows' = [m_rows EXCEPT ![f] = CellOf]
      /\ nulls' = nulls \cup {p \in {f} \X (1 .. N) : sent[f][p[2]] = Null}
      /\ fetched' = f
  BY DEF IInv, Fetch, MarkNulls
<1>1. /\ N \in Nat /\ fetched \in Nat /\ f \in 1 .. Len(sent) /\ f \in 1 .. Len(m_rows)
      /\ rowCount = Len(sent) /\ Len(m_rows) = rowCount
  BY <1>0 DEF TypeOK, Counts
<1>2. CellOf \in [1 .. N -> Cells]
  BY <1>0, <1>1, CellStored
<1>3. m_rows' \in Seq([1 .. N -> Cells]) /\ Len(m_rows') = Len(m_rows)
  <2> HIDE DEF CellOf
  <2> DEFINE S == [1 .. N -> Cells]
  <2>1. m_rows \in Seq(S)
    BY <1>0 DEF TypeOK
  <2> HIDE DEF S
  <2>2. m_rows' \in Seq(S) /\ Len(m_rows') = Len(m_rows)
    BY <1>0, <1>1, <1>2, <2>1 DEF S
  <2> QED
    BY <2>2 DEF S
<1>4. nulls' \subseteq Nat \X Nat
  BY <1>0, <1>1 DEF TypeOK
<1>5. TypeOK'
  BY <1>0, <1>1, <1>3, <1>4 DEF TypeOK
<1>6. Counts'
  BY <1>0, <1>1, <1>3 DEF Counts
<1>7. Stored'
  <2>1. ASSUME NEW r \in 1 .. f, NEW n \in 1 .. N
        PROVE  /\ m_rows'[r][n] = IF sent[r][n] = Null THEN Blank ELSE sent[r][n]
               /\ <<r, n>> \in nulls' <=> sent[r][n] = Null
    <3>1. CASE r = f
      <4>1. <<f, n>> \notin nulls
        BY <1>0, <1>1 DEF Stored
      <4>2. m_rows'[f] = CellOf
        BY <1>0, <1>1 DEF TypeOK
      <4> QED
        BY <1>0, <3>1, <4>1, <4>2
    <3>2. CASE r # f
      <4>1. r \in 1 .. fetched /\ r \in 1 .. Len(m_rows)
        BY <1>1, <3>2
      <4>2. m_rows'[r] = m_rows[r]
        BY <1>0, <3>2, <4>1 DEF TypeOK
      <4>3. <<r, n>> \in nulls' <=> <<r, n>> \in nulls
        BY <1>0, <3>2
      <4> QED
        BY <1>0, <4>1, <4>2, <4>3 DEF Stored
    <3> QED
      BY <3>1, <3>2
  <2>2. \A p \in nulls' : p[1] <= f
    BY <1>0, <1>1 DEF Stored, TypeOK
  <2> QED
    BY <1>0, <2>1, <2>2 DEF Stored
<1>8. Order' /\ RowsShown'
  <2>1. ~error' /\ rowCount' \in Nat
    BY <1>0 DEF Order, TypeOK
  <2> QED
    BY <1>0, <1>1, <2>1, ConstructStep
<1> QED
  BY <1>5, <1>6, <1>7, <1>8 DEF IInv

\* The last row is read, or a fetch fails.
LEMMA FetchOver ==
  ASSUME ResultAssumption, IInv,
         FetchEnds \/ \E truncated \in BOOLEAN : FetchFails(truncated)
  PROVE  IInv'
<1> USE DEF input
<1>0. /\ pc = "fetch" /\ pc' = "rows" /\ error' \in BOOLEAN
      /\ UNCHANGED <<isStatement, useNumbers, columns, sent, rowCount, colCount, m_rows,
                     nulls, rowsPointer, fetched, row, c, data, freed>>
  BY DEF IInv, TypeOK, FetchEnds, FetchFails, result
<1>1. TypeOK'
  BY <1>0 DEF IInv, TypeOK
<1>2. Counts'
  <2>1. ~error
    BY <1>0 DEF IInv, Order
  <2> QED
    BY <1>0, <2>1 DEF IInv, Counts
<1>3. Stored'
  BY <1>0 DEF IInv, Stored
<1>4. Order' /\ RowsShown'
  <2>1. rowCount' \in Nat
    BY <1>0 DEF IInv, TypeOK
  <2> QED
    BY <1>0, <2>1, ConstructStep
<1> QED
  BY <1>1, <1>2, <1>3, <1>4 DEF IInv

\* PopulateLuaTable leaves the result as it is.
LEMMA ResultStays ==
  ASSUME Counts, Stored, UNCHANGED <<input, result>>, pc # "construct", pc' # "construct"
  PROVE  Counts' /\ Stored'
  BY DEF Counts, Stored, input, result

\* A row's table is begun, empty.
LEMMA NextRowStep == ASSUME ResultAssumption, IInv, NextRow PROVE IInv'
<1>0. /\ TypeOK /\ Counts /\ Stored /\ Order /\ RowsShown /\ pc = "rows" /\ ~error
      /\ UNCHANGED <<input, result, data, freed>> /\ Len(data) < rowCount
      /\ row' = << >> /\ c' = 1 /\ pc' = "cell"
  BY DEF IInv, NextRow, EmptyTable
<1>1. UNCHANGED <<isStatement, useNumbers, columns, sent, error, rowCount, colCount, m_rows,
                  nulls, rowsPointer, fetched>>
  BY <1>0 DEF input, result
<1>2. TypeOK'
  <2>1. << >> \in [{} -> Shown]
    OBVIOUS
  <2>2. row' \in Tables
    BY <1>0, <2>1 DEF Tables
  <2> QED
    BY <1>0, <1>1, <2>2 DEF TypeOK
<1>3. Counts' /\ Stored'
  BY <1>0, ResultStays
<1>4. Order'
  BY <1>0, <1>1 DEF Order, TypeOK
<1>5. RowsShown'
  <2>1. \A r \in 1 .. Len(data) : r <= fetched => data[r] = RowReference(r)'
    BY <1>0, SameReference DEF RowsShown
  <2>2. 1 .. c' - 1 = {}
    BY <1>0
  <2>3. HasLast(c)'
    BY <2>2 DEF HasLast
  <2>4. RowUpTo(row, Len(data) + 1, c)'
    BY <1>0, <2>2 DEF RowUpTo
  <2> QED
    BY <1>0, <1>1, <2>1, <2>3, <2>4 DEF RowsShown
<1> QED
  BY <1>2, <1>3, <1>4, <1>5 DEF IInv

\* A cell of the row: t[key] = nil, or the value.
LEMMA CellStep == ASSUME ResultAssumption, IInv, Cell PROVE IInv'
<1> DEFINE r == Len(data) + 1
           value == ShownAs(columns[c].type, m_rows[r][c])
<1>0. /\ TypeOK /\ Counts /\ Stored /\ Order /\ RowsShown /\ pc = "cell" /\ pc' = "cell"
      /\ UNCHANGED <<input, result, data, freed>> /\ c <= colCount /\ c' = c + 1
      /\ row' = IF <<r, c>> \in nulls THEN SetNil(row, Key(c)) ELSE SetField(row, Key(c), value)
  BY DEF IInv, Cell
<1>1. UNCHANGED <<isStatement, useNumbers, columns, sent, error, rowCount, colCount, m_rows,
                  nulls, rowsPointer, fetched>>
  BY <1>0 DEF input, result
<1>2. /\ c \in 1 .. Len(columns) /\ c \in Nat \ {0} /\ colCount = Len(columns)
      /\ Len(data) \in Nat /\ r \in 1 .. Len(m_rows)
  BY <1>0 DEF TypeOK, Counts, Order
<1>3. row' \in Tables
  <2>1. PICK K \in SUBSET KeyType : row \in [K -> Shown]
    BY <1>0 DEF TypeOK, Tables
  <2>2. Key(c) \in KeyType
    BY <1>0, <1>2, KeyTyped
  <2>3. value \in Shown
    <3>1. m_rows[r] \in [1 .. Len(columns) -> Cells]
      BY <1>0, <1>2 DEF TypeOK
    <3>2. m_rows[r][c] \in Cells
      BY <1>2, <3>1
    <3> QED
      BY <3>2 DEF ShownAs, Shown
  <2>4. SetNil(row, Key(c)) \in [K \ {Key(c)} -> Shown]
    BY <2>1 DEF SetNil, Restrict
  <2>5. SetField(row, Key(c), value) \in [K \cup {Key(c)} -> Shown]
    <3> HIDE DEF value
    <3> QED
      BY <2>1, <2>3 DEF SetField
  <2>6. K \ {Key(c)} \in SUBSET KeyType /\ K \cup {Key(c)} \in SUBSET KeyType
    BY <2>1, <2>2
  <2> HIDE DEF value
  <2>7. SetNil(row, Key(c)) \in Tables /\ SetField(row, Key(c), value) \in Tables
    BY <2>4, <2>5, <2>6 DEF Tables
  <2> QED
    BY <1>0, <2>7
<1>4. TypeOK'
  BY <1>0, <1>1, <1>3 DEF TypeOK
<1>5. Counts' /\ Stored'
  BY <1>0, ResultStays
<1>6. Order'
  BY <1>0, <1>1, <1>2 DEF Order
<1>7. RowsShown'
  <2>1. \A i \in 1 .. Len(data) : i <= fetched => data[i] = RowReference(i)'
    BY <1>0, SameReference DEF RowsShown
  <2>2. HasLast(c + 1)
    BY <1>0, <1>2, HasLastNext DEF RowsShown
  <2>3. HasLast(c)'
    <3>1. HasLast(c')
      BY <1>0, <2>2
    <3>2. \A n : Key(n)' = Key(n)
      BY <1>1 DEF Key
    <3> QED
      BY <3>1, <3>2 DEF HasLast, LastBefore
  <2>4. ASSUME Len(data) < fetched PROVE RowUpTo(row', r, c + 1)
    <3>1. RowUpTo(row, r, c)
      BY <1>0, <2>4 DEF RowsShown
    <3>2. /\ m_rows[r][c] = IF sent[r][c] = Null THEN Blank ELSE sent[r][c]
          /\ <<r, c>> \in nulls <=> sent[r][c] = Null
      <4>1. r \in 1 .. fetched
        BY <1>0, <1>2, <2>4 DEF TypeOK
      <4> QED
        BY <1>0, <1>2, <4>1 DEF Stored
    <3>3. CASE sent[r][c] = Null
      BY <1>0, <1>2, <3>1, <3>2, <3>3, SetNilNext
    <3>4. CASE sent[r][c] # Null
      BY <1>0, <1>2, <3>1, <3>2, <3>4, SetFieldNext
    <3> QED
      BY <3>3, <3>4
  <2>5. Len(data) < fetched => RowUpTo(row, Len(data) + 1, c)'
    BY <1>0, <1>1, <2>4 DEF RowUpTo, LastBefore, Key
  <2> QED
    BY <1>0, <1>1, <2>1, <2>3, <2>5 DEF RowsShown
<1> QED
  BY <1>4, <1>5, <1>6, <1>7 DEF IInv

\* The row goes into the table of rows.
LEMMA RowEndsStep == ASSUME ResultAssumption, IInv, RowEnds PROVE IInv'
<1>0. /\ TypeOK /\ Counts /\ Stored /\ Order /\ RowsShown /\ pc = "cell" /\ pc' = "rows"
      /\ UNCHANGED <<input, result, row, c, freed>> /\ c > colCount
      /\ data' = Append(data, row)
  BY DEF IInv, RowEnds
<1>1. UNCHANGED <<isStatement, useNumbers, columns, sent, error, rowCount, colCount, m_rows,
                  nulls, rowsPointer, fetched>>
  BY <1>0 DEF input, result
<1>2. /\ data' \in Seq(Tables) /\ Len(data) \in Nat /\ Len(data') = Len(data) + 1
      /\ data'[Len(data) + 1] = row /\ \A i \in 1 .. Len(data) : data'[i] = data[i]
  BY <1>0 DEF TypeOK
<1>3. TypeOK'
  BY <1>0, <1>1, <1>2 DEF TypeOK
<1>4. Counts' /\ Stored'
  BY <1>0, ResultStays
<1>5. Order'
  BY <1>0, <1>1, <1>2 DEF Order, TypeOK
<1>6. RowsShown'
  <2>1. c = Len(columns) + 1
    BY <1>0 DEF Counts, Order, TypeOK
  <2>2. ASSUME NEW i \in 1 .. Len(data) + 1, i <= fetched PROVE data'[i] = RowReference(i)
    <3>1. CASE i = Len(data) + 1
      <4>1. HasLast(c) /\ RowUpTo(row, i, c)
        BY <1>0, <1>2, <2>2, <3>1 DEF RowsShown, TypeOK
      <4>2. row \in Tables
        BY <1>0 DEF TypeOK
      <4> QED
        BY <1>0, <1>2, <2>1, <3>1, <4>1, <4>2, RowIsReference
    <3>2. CASE i # Len(data) + 1
      <4>1. i \in 1 .. Len(data)
        BY <1>2, <3>2
      <4> QED
        BY <1>0, <1>2, <2>2, <4>1 DEF RowsShown
    <3> QED
      BY <3>1, <3>2
  <2>3. \A i \in 1 .. Len(data') : i <= fetched => data'[i] = RowReference(i)'
    BY <1>0, <1>2, <2>2, SameReference
  <2> QED
    BY <1>0, <1>1, <2>3 DEF RowsShown
<1> QED
  BY <1>3, <1>4, <1>5, <1>6 DEF IInv

\* The table is complete, or only the error is shown; then ~Result.
LEMMA OverStep == ASSUME ResultAssumption, IInv, Populated \/ Delete PROVE IInv'
<1>0. /\ TypeOK /\ Counts /\ Stored /\ Order /\ RowsShown
      /\ UNCHANGED <<input, result, row, c, data>> /\ pc \in {"rows", "done"}
      /\ pc' \in {"done", "deleted"}
  BY DEF IInv, Populated, Delete
<1>1. UNCHANGED <<isStatement, useNumbers, columns, sent, error, rowCount, colCount, m_rows,
                  nulls, rowsPointer, fetched>>
  BY <1>0 DEF input, result
<1>2. TypeOK'
  BY <1>0, <1>1 DEF TypeOK
<1>3. Counts' /\ Stored'
  BY <1>0, ResultStays
<1>4. Order'
  BY <1>0, <1>1 DEF Order, Counts, TypeOK, Populated, Delete, Deleted
<1>5. RowsShown'
  <2>1. \A i \in 1 .. Len(data) : i <= fetched => data[i] = RowReference(i)'
    BY <1>0, SameReference DEF RowsShown
  <2> QED
    BY <1>0, <1>1, <2>1 DEF RowsShown
<1> QED
  BY <1>2, <1>3, <1>4, <1>5 DEF IInv

\* Every step keeps the invariant.
LEMMA StepKeeps == ASSUME ResultAssumption, IInv, [Next]_vars PROVE IInv'
<1>1. CASE UNCHANGED vars
  <2>1. UNCHANGED <<input, result, pc, row, c, data, freed>>
    BY <1>1 DEF vars
  <2>2. UNCHANGED <<isStatement, useNumbers, columns, sent, error, rowCount, colCount, m_rows,
                    nulls, rowsPointer, fetched>>
    BY <2>1 DEF input, result
  <2>3. TypeOK' /\ Counts' /\ Stored'
    BY <2>1, <2>2 DEF IInv, TypeOK, Counts, Stored
  <2>4. Order'
    BY <2>1, <2>2 DEF IInv, Order, Deleted
  <2>5. \A i \in 1 .. Len(data) : i <= fetched => data[i] = RowReference(i)'
    BY <2>1, SameReference DEF IInv, RowsShown
  <2>6. pc = "cell" => HasLast(c)'
    BY <2>1, <2>2 DEF IInv, RowsShown, HasLast, LastBefore, Key
  <2>7. pc = "cell" /\ Len(data) < fetched => RowUpTo(row, Len(data) + 1, c)'
    BY <2>1, <2>2 DEF IInv, RowsShown, RowUpTo, LastBefore, Key
  <2>8. RowsShown'
    BY <2>1, <2>2, <2>5, <2>6, <2>7 DEF RowsShown
  <2> QED
    BY <2>3, <2>4, <2>8 DEF IInv
<1>2. CASE \E err \in BOOLEAN : ConstructNothing(err)
  BY <1>2, NothingStep
<1>3. CASE ConstructQuery
  BY <1>3, QueryStep
<1>4. CASE ConstructStatement
  BY <1>4, StatementStep
<1>11. CASE ConstructLost \/ ConstructFailed
  BY <1>11, LostStep
<1>5. CASE Fetch
  BY <1>5, FetchStep
<1>6. CASE FetchEnds \/ \E truncated \in BOOLEAN : FetchFails(truncated)
  BY <1>6, FetchOver
<1>7. CASE NextRow
  BY <1>7, NextRowStep
<1>8. CASE Cell
  BY <1>8, CellStep
<1>9. CASE RowEnds
  BY <1>9, RowEndsStep
<1>10. CASE Populated \/ Delete
  BY <1>10, OverStep
<1> QED
  BY <1>1, <1>2, <1>3, <1>4, <1>5, <1>6, <1>7, <1>8, <1>9, <1>10, <1>11
  DEF Next, Stop

\* The invariant implies what a run checks of every state.
LEMMA InvariantSuffices == ASSUME ResultAssumption, IInv PROVE DataFaithful /\ ArraysOnly
<1>1. DataFaithful
  <2> SUFFICES ASSUME pc = "done", ~error
               PROVE  /\ Unstored => data = << >>
                      /\ ~Unstored => Len(data) = Len(sent)
                      /\ \A r \in 1 .. Len(data) :
                           data[r] = RowReference(r) \/ (Truncated /\ r > fetched)
    BY DEF DataFaithful
  <2>1. /\ Len(data) = rowCount /\ rowCount \in Nat /\ fetched \in Nat
        /\ colCount \in Nat /\ data \in Seq(Tables)
        /\ rowCount \in {0, Len(sent)} /\ (colCount = 0 => rowCount = 0)
    BY DEF IInv, TypeOK, Counts, Order
  <2>2. Unstored => data = << >>
    BY <2>1 DEF Unstored
  <2>3. ~Unstored => Len(data) = Len(sent)
    <3>1. CASE colCount = 0
      <4>1. ~Unstored => columns = << >>
        BY <3>1 DEF Unstored
      <4>2. columns = << >> => Len(sent) = 0
        BY DEF IInv, Counts
      <4> QED
        BY <2>1, <3>1, <4>1, <4>2
    <3>2. CASE colCount > 0
      BY <2>1, <3>2 DEF IInv, Counts
    <3> QED
      BY <2>1, <3>1, <3>2
  <2>4. ASSUME NEW r \in 1 .. Len(data)
        PROVE  data[r] = RowReference(r) \/ (Truncated /\ r > fetched)
    BY <2>1 DEF IInv, RowsShown, Truncated
  <2> QED
    BY <2>2, <2>3, <2>4
<1>2. ArraysOnly
  BY DEF ArraysOnly, IInv, TypeOK, Counts, Order, Deleted
<1> QED
  BY <1>1, <1>2
=============================================================================
