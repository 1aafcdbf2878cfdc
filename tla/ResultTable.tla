---------------------------- MODULE ResultTable -----------------------------
(***************************************************************************)
(* From a result set on the connection to the table a callback gets: the   *)
(* two constructors of Result, PopulateLuaTable and the destructor.        *)
(*                                                                         *)
(* A behaviour starts with a result set of the server; a cell is NULL or a *)
(* text.  The rows of a query come all at once (mysql_store_result), those *)
(* of a statement one by one (mysql_stmt_fetch), which may fail, or report *)
(* a value cut to the size of its buffer without setting an error.  The    *)
(* error number is read before the result set is asked for, so that one    *)
(* that cannot be had leaves no error.                                     *)
(***************************************************************************)
EXTENDS Naturals, Sequences, SequencesExt, Functions

CONSTANTS
  Names,        \* names of columns
  Texts,        \* texts of cells
  Null,         \* the cell NULL
  MaxCols,      \* bound: columns
  MaxRows       \* bound: rows

\* What the constants must be; the modules that instantiate this one assume it.
ResultAssumption ==
  /\ Null \notin Texts
  /\ MaxCols \in Nat
  /\ MaxRows \in Nat

Blank == "blank"                              \* an empty std::string
Types == {"number", "longlong", "string"}     \* IS_NUM, but LONGLONG is not shown as one

VARIABLES
  \* the server's result set
  isStatement,
  useNumbers,
  columns,      \* name and type of each
  sent,         \* the rows
  \* the Result
  pc,           \* "construct", "fetch", "rows", "cell", "done", "deleted"
  error,        \* m_iError is not 0
  rowCount, colCount,
  m_rows,       \* text of each cell of each row
  nulls,        \* m_nullRowValues, the cells that are NULL
  rowsPointer,  \* m_rows is "array", or what an unset member happens to be
  fetched,      \* rows read (history)
  \* PopulateLuaTable
  row,          \* the row's table
  c,            \* the column
  data,         \* the table of rows
  freed         \* what the destructor has deleted

input == <<isStatement, useNumbers, columns, sent>>
result == <<error, rowCount, colCount, m_rows, nulls, rowsPointer, fetched>>
vars == <<input, result, pc, row, c, data, freed>>

EmptyTable == << >>

-----------------------------------------------------------------------------
(* The constructors.                                                       *)

\* No result set: an INSERT, or an error that was on the connection.
ConstructNothing(err) ==
  /\ pc = "construct"
  /\ columns = << >>
  /\ error' = err
  /\ pc' = "rows"
  /\ UNCHANGED <<input, rowCount, colCount, m_rows, nulls, rowsPointer, fetched, row, c,
                 data, freed>>

\* The server has rows, and mysql_store_result returns NULL because the link is
\* lost while they come (or mysql_stmt_result_metadata because memory is out):
\* m_iError was read before, and Resize is not called.
ConstructLost ==
  /\ pc = "construct"
  /\ columns # << >>
  /\ pc' = "rows"
  /\ UNCHANGED <<input, result, row, c, data, freed>>

\* Resize: blank cells, none of them NULL.
Resize ==
  /\ colCount' = Len(columns)
  /\ rowCount' = Len(sent)
  /\ rowsPointer' = IF sent = << >> THEN rowsPointer ELSE "array"

\* Result(MYSQL*): the rows are all there.
ConstructQuery ==
  /\ pc = "construct"
  /\ columns # << >>
  /\ ~isStatement
  /\ Resize
  /\ m_rows' = [r \in 1 .. Len(sent) |->
                  [n \in 1 .. Len(columns) |-> IF sent[r][n] = Null THEN Blank ELSE sent[r][n]]]
  /\ nulls' = {p \in (1 .. Len(sent)) \X (1 .. Len(columns)) : sent[p[1]][p[2]] = Null}
  /\ fetched' = Len(sent)
  /\ pc' = "rows"
  /\ UNCHANGED <<input, error, row, c, data, freed>>

\* Result(PStatement*): the columns are bound to buffers.
ConstructStatement ==
  /\ pc = "construct"
  /\ columns # << >>
  /\ isStatement
  /\ Resize
  /\ m_rows' = [r \in 1 .. Len(sent) |-> [n \in 1 .. Len(columns) |-> Blank]]
  /\ pc' = "fetch"
  /\ UNCHANGED <<input, error, nulls, fetched, row, c, data, freed>>

\* Result(PStatement*) after mysql_stmt_store_result has failed: its error, the
\* columns, and no row.
ConstructFailed ==
  /\ pc = "construct"
  /\ columns # << >>
  /\ isStatement
  /\ error' = TRUE
  /\ colCount' = Len(columns)
  /\ pc' = "rows"
  /\ UNCHANGED <<input, rowCount, m_rows, nulls, rowsPointer, fetched, row, c, data, freed>>

\* Mutant: the cells of the row are taken as they are in the buffers.
IgnoreNull(r) == UNCHANGED nulls

\* *(binds[n].is_null).
MarkNulls(r) == nulls' = nulls \cup {p \in {r} \X (1 .. Len(columns)) : sent[r][p[2]] = Null}

\* mysql_stmt_fetch returns 0.
Fetch ==
  LET r == fetched + 1
  IN /\ pc = "fetch"
     /\ r <= rowCount
     /\ m_rows' = [m_rows EXCEPT ![r] =
                     [n \in 1 .. Len(columns) |-> IF sent[r][n] = Null THEN Blank ELSE sent[r][n]]]
     /\ MarkNulls(r)
     /\ fetched' = r
     /\ UNCHANGED <<input, pc, error, rowCount, colCount, rowsPointer, row, c, data, freed>>

\* It returns 1, or MYSQL_DATA_TRUNCATED, for which mysql_stmt_errno is 0.
FetchFails(truncated) ==
  /\ pc = "fetch"
  /\ fetched < rowCount
  /\ error' = ~truncated
  /\ pc' = "rows"
  /\ UNCHANGED <<input, rowCount, colCount, m_rows, nulls, rowsPointer, fetched, row, c,
                 data, freed>>

FetchEnds ==
  /\ pc = "fetch"
  /\ fetched = rowCount
  /\ pc' = "rows"
  /\ UNCHANGED <<input, result, row, c, data, freed>>

-----------------------------------------------------------------------------
(* PopulateLuaTable.                                                       *)

\* A number (atof), or the text; a longlong does not fit a Lua number.
ShownAs(type, text) == IF type = "number" THEN <<"number", text>> ELSE text

\* Column numbers, or names.
Key(n) == IF useNumbers THEN n ELSE columns[n].name

\* t[key] = nil or a value.
SetNil(t, key) == Restrict(t, DOMAIN t \ {key})
SetField(t, key, value) ==
  [k \in DOMAIN t \cup {key} |-> IF k = key THEN value ELSE t[k]]

\* The next row's table is made.
NextRow ==
  /\ pc = "rows"
  /\ ~error
  /\ rowsPointer # "null"
  /\ Len(data) < rowCount
  /\ row' = EmptyTable
  /\ c' = 1
  /\ pc' = "cell"
  /\ UNCHANGED <<input, result, data, freed>>

\* A cell of the row.
Cell ==
  LET r == Len(data) + 1
  IN /\ pc = "cell"
     /\ c <= colCount
     /\ row' = IF <<r, c>> \in nulls THEN SetNil(row, Key(c))
               ELSE SetField(row, Key(c), ShownAs(columns[c].type, m_rows[r][c]))
     /\ c' = c + 1
     /\ UNCHANGED <<input, pc, result, data, freed>>

RowEnds ==
  /\ pc = "cell"
  /\ c > colCount
  /\ data' = Append(data, row)
  /\ pc' = "rows"
  /\ UNCHANGED <<input, result, row, c, freed>>

\* Only the error, or all rows; m_rows == nullptr ends it early.
Populated ==
  /\ pc = "rows"
  /\ error \/ rowsPointer = "null" \/ Len(data) = rowCount
  /\ pc' = "done"
  /\ UNCHANGED <<input, result, row, c, data, freed>>

\* ~Result, by the two counts.
Deleted == IF colCount = 0 THEN {} ELSE IF rowCount = 0 THEN {"columns"} ELSE {"columns", "rows"}

Delete ==
  /\ pc = "done"
  /\ freed' = Deleted
  /\ pc' = "deleted"
  /\ UNCHANGED <<input, result, row, c, data>>

\* The next result set is another behaviour.
Stop == pc = "deleted" /\ UNCHANGED vars

-----------------------------------------------------------------------------
Rows(n) == [1 .. n -> Texts \cup {Null}]

Init ==
  /\ isStatement \in BOOLEAN
  /\ useNumbers \in BOOLEAN
  /\ columns \in BoundedSeq([name : Names, type : Types], MaxCols)
  /\ sent \in IF columns = << >> THEN {<< >>} ELSE BoundedSeq(Rows(Len(columns)), MaxRows)
  /\ pc = "construct"
  /\ error = FALSE
  /\ rowCount = 0
  /\ colCount = 0
  /\ m_rows = << >>
  /\ nulls = {}
  /\ rowsPointer \in {"null", "garbage"}
  /\ fetched = 0
  /\ row = EmptyTable
  /\ c = 1
  /\ data = << >>
  /\ freed = {}

Next ==
  \/ \E err \in BOOLEAN : ConstructNothing(err)
  \/ ConstructQuery \/ ConstructStatement \/ ConstructLost \/ ConstructFailed
  \/ Fetch \/ FetchEnds
  \/ \E truncated \in BOOLEAN : FetchFails(truncated)
  \/ NextRow \/ Cell \/ RowEnds \/ Populated
  \/ Delete \/ Stop

Spec == Init /\ [][Next]_vars

-----------------------------------------------------------------------------
(* Properties.                                                             *)

\* The reference: a key has the cell of the last column of that key, unless
\* that is NULL.
LastColumn(key) ==
  CHOOSE n \in 1 .. Len(columns) :
    /\ (IF useNumbers THEN n ELSE columns[n].name) = key
    /\ \A k \in n + 1 .. Len(columns) : (IF useNumbers THEN k ELSE columns[k].name) # key

Keys == IF useNumbers THEN 1 .. Len(columns) ELSE {columns[n].name : n \in 1 .. Len(columns)}

RowReference(r) ==
  [key \in {k \in Keys : sent[r][LastColumn(k)] # Null} |->
    IF columns[LastColumn(key)].type = "number" THEN <<"number", sent[r][LastColumn(key)]>>
    ELSE sent[r][LastColumn(key)]]

\* The two ways to a table that is not what the server sent without an error:
\* there was no result set to be had, or a value was cut.
Unstored == pc # "construct" /\ ~error /\ columns # << >> /\ colCount = 0
Truncated == pc # "fetch" /\ ~error /\ colCount > 0 /\ fetched < rowCount

\* When the status is true the callback sees every row the server sent, each
\* cell under its key, for both kinds of result, but for the two ways the code
\* has: of a result set that could not be had there is an empty table, and
\* after a value that was cut the rows that were not read are there with blank
\* cells.  RowsComplete has no such exception, and fails.
DataFaithful ==
  pc = "done" /\ ~error =>
    /\ Unstored => data = << >>
    /\ ~Unstored => Len(data) = Len(sent)
    /\ \A r \in 1 .. Len(data) : data[r] = RowReference(r) \/ (Truncated /\ r > fetched)

\* What the documentation says of a result: with the status true, its data are
\* the rows.
RowsComplete ==
  pc = "done" /\ ~error =>
    Len(data) = Len(sent) /\ \A r \in 1 .. Len(data) : data[r] = RowReference(r)

\* PopulateLuaTable tests an m_rows that no constructor has set; the rows it
\* then goes through are never more than there are arrays for, and the
\* destructor deletes exactly the arrays that Resize made.
ArraysOnly ==
  /\ pc = "cell" => rowsPointer = "array"
  /\ pc = "deleted" =>
       freed = (IF colCount > 0 THEN {"columns"} ELSE {}) \cup
               (IF rowsPointer = "array" THEN {"rows"} ELSE {})
=============================================================================
