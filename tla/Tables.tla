------------------------------- MODULE Tables -------------------------------
(***************************************************************************)
(* A program that keeps values of its struct types in tables: it makes the *)
(* table with createTableFor, writes the fields of a value with QParams,   *)
(* inserts them and selects them again.  What comes back is what three     *)
(* parts that know nothing of each other make of it: the columns           *)
(* mapTypeToSQL chose, the values QParams wrote, and the texts getResult   *)
(* reads.  The connection is up and no other program is about; both are    *)
(* in module Psql.                                                         *)
(***************************************************************************)
EXTENDS Naturals, SequencesExt

CONSTANTS Structs,   \* the program's struct types: typeName and fields
          Lower,     \* lower case of every word, a function
          Reserved,  \* lower-case words that are no names in SQL
          Callable,  \* those of them that are functions, as user is
          MaxRows    \* bound on the rows of a table

ASSUME TablesAssumption ==
    /\ \A w \in DOMAIN Lower : Lower[w] \in DOMAIN Lower /\ Lower[Lower[w]] = Lower[w]
    /\ Callable \subseteq Reserved /\ Reserved \subseteq Range(Lower)
    /\ \A T \in Structs : T.fields \in Seq(Range(T.fields))
    /\ MaxRows \in Nat

VARIABLES tables,  \* for each table the struct it was made for and its rows
          answer,  \* what the last call returned
          seen     \* the rows the last call returned, if it was select

vars == <<tables, answer, seen>>

(* A value stands for all that are alike: "int" is a number an INTEGER     *)
(* holds, "big" a whole number it does not, "digits" a text written like   *)
(* an "int", "padded" a text of more than 255 characters that are blanks   *)
(* from there on, "long" any other, "nul" a text with a NUL, "invalid" one *)
(* that is not UTF-8, "text" one that is no number, and "other" any value  *)
(* of a type QParams does not write.                                       *)
ValuesOf(type) ==
    CASE type = "i32"        -> {"int"}
      [] type = "f32"        -> {"int", "big", "fraction", "negzero", "nan", "inf"}
      [] type = "[]const u8" -> {"text", "digits", "empty", "padded", "long", "nul",
                                  "invalid"}
      [] OTHER               -> {"other"}

Rows(T) == {row \in [DOMAIN T.fields -> UNION {ValuesOf(f.type) : f \in Range(T.fields)}] :
               \A i \in DOMAIN T.fields : row[i] \in ValuesOf(T.fields[i].type)}

NoAnswer == [op |-> "none", of |-> <<>>, given |-> <<>>, val |-> "none"]
-----------------------------------------------------------------------------
(* The table of a struct.                                                  *)

(* Mutant: a float is kept as a text.                                     *)
mapTypeToSQLText(type) ==
    IF type \in {"i32", "i64"} THEN "INTEGER" ELSE "VARCHAR(255)"

mapTypeToSQL(type) ==
    CASE type \in {"i32", "i64"} -> "INTEGER"
      [] type \in {"f32", "f64"} -> "NUMERIC(255)"
      [] OTHER                   -> "VARCHAR(255)"

(* What follows the last dot of the type's name, or all of it.             *)
stripModuleName(typeName) ==
    LET dots == {i \in DOMAIN typeName : typeName[i] = "."}
    IN  IF dots = {} THEN typeName ELSE SubSeq(typeName, Max(dots) + 1, Len(typeName))

(* Names are written without quotes, so the server takes them in lower     *)
(* case, and rejects what is not one word, or a reserved one.              *)
IsName(words) ==
    Len(words) = 1 /\ words[1] \in DOMAIN Lower /\ Lower[words[1]] \notin Reserved

NameOf(T) == LET name == stripModuleName(T.typeName)
             IN  [i \in DOMAIN name |-> IF name[i] \in DOMAIN Lower THEN Lower[name[i]]
                                        ELSE name[i]]

(* The server takes CREATE TABLE for T: name and columns are names, and no *)
(* two columns have the same.                                              *)
Definable(T) ==
    /\ IsName(stripModuleName(T.typeName))
    /\ \A f \in Range(T.fields) : IsName(<<f.name>>)
    /\ NameOf(T) \in DOMAIN tables \/
       \A i, j \in DOMAIN T.fields :
          Lower[T.fields[i].name] = Lower[T.fields[j].name] => i = j

Columns(T) == [i \in DOMAIN T.fields |-> mapTypeToSQL(T.fields[i].type)]
ColumnsAt(name) == Columns(tables[name].maker)
-----------------------------------------------------------------------------
(* The values of a row.                                                    *)

Supported == {"i32", "f32", "[]const u8"}

(* Mutant: a field of any type is written.                                 *)
QParamsAll(T, row) == row

(* Mutant: the numbers are written before the texts.                       *)
QParamsSorted(T, row) ==
    LET written(types) == SelectSeq([i \in DOMAIN row |-> i],
                                    LAMBDA i : T.fields[i].type \in types)
    IN  [i \in DOMAIN written(Supported) |->
           row[(written({"i32", "f32"}) \o written({"[]const u8"}))[i]]]

(* QParams passes over the fields of the types it does not know.           *)
QParams(T, row) ==
    LET written[n \in 0..Len(T.fields)] ==
          IF n = 0 THEN <<>>
          ELSE IF T.fields[n].type \in Supported THEN Append(written[n - 1], row[n])
          ELSE written[n - 1]
    IN  written[Len(T.fields)]

(* No column takes these: NaN and the infinities are written as bare words,*)
(* which are no values, and at a NUL the query ends, within a literal.     *)
Never == {"nan", "inf", "long", "nul", "invalid"}

(* A value as a column of the type stores it.  Numbers are converted to    *)
(* texts and rounded to the column's scale, which is none for NUMERIC(255) *)
(* either; -0 is 0, whatever it becomes; a text that is too long is cut if *)
(* nothing but blanks is lost.                                             *)
Stored(column, value) ==
    CASE value \in Never    -> "refused"
      [] value = "negzero"  -> "zero"
      [] value = "padded"   -> IF column = "VARCHAR(255)" THEN "cut" ELSE "refused"
      [] value \in {"text", "empty"} -> IF column = "VARCHAR(255)" THEN value ELSE "refused"
      [] value = "big"      -> IF column = "INTEGER" THEN "refused" ELSE value
      [] value = "fraction" -> IF column = "VARCHAR(255)" THEN value ELSE "rounded"
      [] OTHER              -> value

(* The values go to the columns in order; columns left over are NULL.      *)
Insertable(columns, values) ==
    /\ Len(values) \in 1..Len(columns)
    /\ \A i \in DOMAIN values : Stored(columns[i], values[i]) # "refused"
StoredRow(columns, values) ==
    [i \in DOMAIN columns |-> IF i \in DOMAIN values THEN Stored(columns[i], values[i])
                              ELSE "null"]

(* Mutant: the loop over the columns starts at the second.                 *)
getResultSkipping(cells) ==
    [i \in 1..(Len(cells) - 1) |-> IF cells[i + 1] = "null" THEN "empty" ELSE cells[i + 1]]

(* Mutant: a NULL leaves the text of the cell before it.                   *)
getResultKeepsLast(cells) ==
    [i \in DOMAIN cells |-> cells[Max({j \in 1..i : cells[j] # "null"})]]

(* getResult copies the text of every cell; that of a NULL is empty.       *)
getResult(cells) ==
    [i \in DOMAIN cells |-> IF cells[i] = "null" THEN "empty" ELSE cells[i]]
-----------------------------------------------------------------------------
Init ==
    /\ tables = [name \in {} |-> {}]
    /\ answer = NoAnswer
    /\ seen = {}

Answer(op, T, row, val) == answer' = [op |-> op, of |-> T, given |-> row, val |-> val]

NewTable(T) == [maker |-> T, rows |-> {}]

(* Mutant: the columns of a table that is there are changed.               *)
createTableForAlters(T) ==
    /\ Definable(T)
    /\ Answer("createTableFor", T, <<>>, "ok")
    /\ tables' = [name \in DOMAIN tables \cup {NameOf(T)} |->
                     IF name \notin DOMAIN tables THEN NewTable(T)
                     ELSE IF name = NameOf(T) THEN [tables[name] EXCEPT !.maker = T]
                     ELSE tables[name]]
    /\ seen' = {}

(* createTableFor.  A table that is there stays what it is.                *)
createTableFor(T) ==
    /\ \/ ~ Definable(T) /\ Answer("createTableFor", T, <<>>, "QueryFailed") /\ UNCHANGED tables
       \/ /\ Definable(T)
          /\ Answer("createTableFor", T, <<>>, "ok")
          /\ tables' = [name \in DOMAIN tables \cup {NameOf(T)} |->
                           IF name \in DOMAIN tables THEN tables[name] ELSE NewTable(T)]
    /\ seen' = {}

(* insert of what QParams makes of the fields of a T.                      *)
insert(T, row) ==
    /\ LET name == NameOf(T)
           values == QParams(T, row)
           taken == name \in DOMAIN tables /\ Insertable(ColumnsAt(name), values)
       IN  \/ ~ taken /\ Answer("insert", T, row, "InsertionFailed") /\ UNCHANGED tables
           \/ /\ taken /\ Cardinality(tables[name].rows) < MaxRows
              /\ Answer("insert", T, row, "ok")
              /\ tables' = [tables EXCEPT ![name].rows = @ \cup
                     {[of |-> T, given |-> row, cells |-> StoredRow(ColumnsAt(name), values)]}]
    /\ seen' = {}

(* select.  SELECT * FROM user is no error: it calls the function, and     *)
(* gives a row that is none of a table's.                                  *)
select(T) ==
    /\ LET there  == NameOf(T) \in DOMAIN tables
           called == \E w \in Callable : NameOf(T) = <<w>>
       IN
       \/ /\ ~ there /\ ~ called
          /\ Answer("select", T, <<>>, "QueryFailed")
          /\ seen' = {}
       \/ /\ called
          /\ Answer("select", T, <<>>, "ok")
          /\ seen' = {}
       \/ /\ there
          /\ Answer("select", T, <<>>, "ok")
          /\ seen' = {[of |-> r.of, given |-> r.given, got |-> getResult(r.cells)] :
                         r \in tables[NameOf(T)].rows}
    /\ UNCHANGED tables

Next == \E T \in Structs :
    createTableFor(T) \/ select(T) \/ \E row \in Rows(T) : insert(T, row)

Spec == Init /\ [][Next]_vars
-----------------------------------------------------------------------------
Texts == {"int", "big", "fraction", "rounded", "zero", "text", "digits", "empty", "cut"}

Kept  == [of : Structs, given : UNION {Rows(T) : T \in Structs}, cells : Seq(Texts \cup {"null"})]

TypeOK ==
    /\ \A name \in DOMAIN tables :
          /\ tables[name] \in [maker : Structs, rows : SUBSET Kept]
          /\ \A r \in tables[name].rows : r.given \in Rows(r.of)
    /\ answer.val \in {"none", "ok", "QueryFailed", "InsertionFailed"}
    /\ \A r \in seen : r.got \in Seq(Texts)

(* What stands between a value and its text in the result of select.       *)
Fields(T)       == {f.type : f \in Range(T.fields)}
SkipsFields(T)  == ~ Fields(T) \subseteq Supported
OwnColumns(T)   == ColumnsAt(NameOf(T)) = Columns(T)

(* A row comes back as it was given, followed by empty texts where the     *)
(* table has more columns, or there is a reason the program can know       *)
(* beforehand: a fraction, -0.0, blanks at the end of a text that is too   *)
(* long, or a field of a type QParams does not write.  That the table was  *)
(* made for another struct of that name is none.                           *)
LossHasACause ==
    \A r \in seen :
        \/ Range(r.given) \cap {"fraction", "negzero", "padded"} # {}
        \/ SkipsFields(r.of)
        \/ LET columns == ColumnsAt(NameOf(r.of)) IN
           /\ DOMAIN r.given \subseteq DOMAIN columns
           /\ r.got = [i \in DOMAIN columns |-> IF i \in DOMAIN r.given THEN r.given[i]
                                                ELSE "empty"]

(* The other way round, -0.0, such blanks and a field that is not written  *)
(* are always lost, and a fraction is in the struct's own table.           *)
CauseMeansLoss ==
    \A r \in seen :
        \/ SkipsFields(r.of)
        \/ Range(r.given) \cap {"negzero", "padded"} # {}
        \/ OwnColumns(r.of) /\ "fraction" \in Range(r.given)
        => r.got # r.given

(* An empty text in a column stands for one that was given, or for no      *)
(* value at all: the two cannot be told apart.  But it never stands for    *)
(* another value, and in a column of numbers it stands for no value.       *)
EmptyMeansNothingGiven ==
    \A r \in seen : \A i \in DOMAIN r.got :
        LET written == QParams(r.of, r.given)
            column  == ColumnsAt(NameOf(r.of))[i]
        IN  r.got[i] = "empty" <=>
                \/ i \notin DOMAIN written
                \/ written[i] = "empty" /\ column = "VARCHAR(255)"

(* The table of T has a column for every field, and one that is not of the *)
(* field's type is one of texts.                                           *)
TakesFieldsOf(T) ==
    LET columns == ColumnsAt(NameOf(T)) IN
    \A i \in DOMAIN T.fields :
        i \in DOMAIN columns /\ columns[i] \in {Columns(T)[i], "VARCHAR(255)"}

(* Where there is such a table, inserting a T fails for a value that does  *)
(* not fit only: NaN, an infinity, a text of more than 255 characters, or  *)
(* one with a NUL or that is not UTF-8; unless there is a field that is    *)
(* not written, or no field at all.                                        *)
RefusalHasACause ==
    /\ answer.op = "insert" /\ answer.val = "InsertionFailed"
    /\ NameOf(answer.of) \in DOMAIN tables /\ TakesFieldsOf(answer.of)
    => \/ Range(answer.given) \cap {"nan", "inf", "long", "nul", "invalid"} # {}
       \/ SkipsFields(answer.of) \/ Fields(answer.of) = {}

(* The first struct of a name decides: no call changes a table's columns   *)
(* or drops a row.                                                         *)
TablesOnlyGrow ==
    [][\A name \in DOMAIN tables :
          /\ name \in DOMAIN tables'
          /\ tables'[name].maker = tables[name].maker
          /\ tables[name].rows \subseteq tables'[name].rows]_vars
=============================================================================
