---------------------------- MODULE TablesProofs ----------------------------
(***************************************************************************)
(* Proofs about module Tables, for every set of struct types, all names    *)
(* and any number of rows.                                                 *)
(***************************************************************************)
EXTENDS Tables, NatRecursion, SequenceTheorems

(* A row in a table is what the server made of the values QParams wrote.   *)
RowsAreStored ==
    \A name \in DOMAIN tables : \A r \in tables[name].rows :
        LET values == QParams(r.of, r.given) IN
        /\ NameOf(r.of) = name
        /\ Insertable(ColumnsAt(name), values)
        /\ r.cells = StoredRow(ColumnsAt(name), values)

(* What select returned are the texts of rows that are still there.        *)
SeenIsStored ==
    \A s \in seen :
        /\ NameOf(s.of) \in DOMAIN tables
        /\ \E r \in tables[NameOf(s.of)].rows :
              s = [of |-> r.of, given |-> r.given, got |-> getResult(r.cells)]

(* A row that was refused would be refused again.                          *)
RefusedNow ==
    answer.op = "insert" /\ answer.val = "InsertionFailed" =>
        /\ answer.of \in Structs /\ answer.given \in Rows(answer.of)
        /\ NameOf(answer.of) \in DOMAIN tables =>
              ~ Insertable(ColumnsAt(NameOf(answer.of)), QParams(answer.of, answer.given))

(* The inductive invariant: the properties are about single answers and    *)
(* follow from what the tables hold.                                       *)
TablesInv == TypeOK /\ RowsAreStored /\ SeenIsStored /\ RefusedNow

AllValues == {"int", "big", "fraction", "negzero", "nan", "inf", "text", "digits", "empty",
              "padded", "long", "nul", "invalid", "other"}
Altered   == {"fraction", "negzero", "padded"}
-----------------------------------------------------------------------------
(* Values, types and columns.                                              *)

LEMMA ValuesTyped ==
    /\ \A type : ValuesOf(type) \subseteq AllValues
    /\ \A type : type \in Supported => "other" \notin ValuesOf(type)
    /\ \A type : type \notin Supported => ValuesOf(type) = {"other"}
BY DEF ValuesOf, AllValues, Supported

(* What a row of T is.                                                     *)
LEMMA RowTyped ==
    ASSUME NEW T \in Structs, NEW row \in Rows(T)
    PROVE  /\ Len(T.fields) \in Nat
           /\ DOMAIN T.fields = 1..Len(T.fields)
           /\ row \in [1..Len(T.fields) -> AllValues]
           /\ \A i \in 1..Len(T.fields) : row[i] \in ValuesOf(T.fields[i].type)
<1>1. T.fields \in Seq(Range(T.fields))
    BY TablesAssumption
<1>2. Len(T.fields) \in Nat /\ DOMAIN T.fields = 1..Len(T.fields)
    BY <1>1
<1>3. row \in [DOMAIN T.fields -> UNION {ValuesOf(f.type) : f \in Range(T.fields)}]
      /\ \A i \in DOMAIN T.fields : row[i] \in ValuesOf(T.fields[i].type)
    BY DEF Rows
<1>4. \A i \in 1..Len(T.fields) : row[i] \in AllValues
    BY <1>2, <1>3, ValuesTyped
<1>. QED  BY <1>2, <1>3, <1>4

(* Value by value, what a column stores.                                   *)
LEMMA StoredValues ==
    ASSUME NEW c
    PROVE  /\ \A v \in Never : Stored(c, v) = "refused"
           /\ Stored(c, "negzero") = "zero"
           /\ Stored(c, "padded") = IF c = "VARCHAR(255)" THEN "cut" ELSE "refused"
           /\ \A v \in {"text", "empty"} :
                 Stored(c, v) = IF c = "VARCHAR(255)" THEN v ELSE "refused"
           /\ Stored(c, "big") = IF c = "INTEGER" THEN "refused" ELSE "big"
           /\ Stored(c, "fraction") = IF c = "VARCHAR(255)" THEN "fraction" ELSE "rounded"
           /\ \A v \in {"int", "digits", "other"} : Stored(c, v) = v
BY DEF Stored, Never

(* A column stores texts only, "fraction" only if it is one of texts, and  *)
(* "empty" only if that was given and it is one of texts.                  *)
LEMMA StoredTyped ==
    ASSUME NEW c, NEW v \in AllValues \ {"other"}
    PROVE  /\ Stored(c, v) \in Texts \cup {"refused"}
           /\ Stored(c, v) = "fraction" => c = "VARCHAR(255)"
           /\ Stored(c, v) = "empty" <=> v = "empty" /\ c = "VARCHAR(255)"
BY StoredValues DEF AllValues, Never, Texts

(* A value that is not altered stays what it is, whatever the column.      *)
LEMMA StoredKeeps ==
    ASSUME NEW c, NEW v \in AllValues \ Altered
    PROVE  Stored(c, v) \in {v, "refused"}
BY StoredValues DEF AllValues, Never, Altered

(* The column of a field's own type, and one of texts, refuses no value    *)
(* but those that none takes.                                              *)
LEMMA FieldIsTaken ==
    ASSUME NEW type \in Supported, NEW v \in ValuesOf(type), v \notin Never,
           NEW c \in {mapTypeToSQL(type), "VARCHAR(255)"}
    PROVE  Stored(c, v) # "refused"
<1>1. CASE type = "i32"
  <2>1. v = "int"
      BY <1>1 DEF ValuesOf
  <2>. QED  BY <2>1, StoredValues
<1>2. CASE type = "f32"
  <2>1. v \in {"int", "big", "fraction", "negzero"} /\ c \in {"NUMERIC(255)", "VARCHAR(255)"}
      BY <1>2 DEF ValuesOf, mapTypeToSQL, Never
  <2>. QED  BY <2>1, StoredValues
<1>3. CASE type = "[]const u8"
  <2>1. v \in {"text", "digits", "empty", "padded"} /\ c = "VARCHAR(255)"
      BY <1>3 DEF ValuesOf, mapTypeToSQL, Never
  <2>. QED  BY <2>1, StoredValues
<1>. QED  BY <1>1, <1>2, <1>3 DEF Supported
-----------------------------------------------------------------------------
(* The loop of QParams.                                                    *)

Writable(T, row) == {row[i] : i \in {k \in 1..Len(T.fields) : T.fields[k].type \in Supported}}

IsWritten(w, T, row) ==
    w = [n \in 0..Len(T.fields) |->
           IF n = 0 THEN <<>>
           ELSE IF T.fields[n].type \in Supported THEN Append(w[n - 1], row[n])
           ELSE w[n - 1]]

(* The loop is well defined, and QParams returns what it ends with.        *)
LEMMA QParamsLoop ==
    ASSUME NEW T \in Structs, NEW row \in Rows(T)
    PROVE  \E w : IsWritten(w, T, row) /\ QParams(T, row) = w[Len(T.fields)]
<1>. DEFINE N == Len(T.fields)
            X == Seq(Writable(T, row))
            Step == [n \in 1..N |-> [x \in X |->
                       IF T.fields[n].type \in Supported THEN Append(x, row[n]) ELSE x]]
<1>1. N \in Nat
    BY RowTyped
<1>2. PICK step \in [1..N -> [X -> X]] : step = Step
  <2>. SUFFICES ASSUME NEW n \in 1..N, NEW x \in X, T.fields[n].type \in Supported
                PROVE  Append(x, row[n]) \in X
      OBVIOUS
  <2>1. row[n] \in Writable(T, row)
      BY DEF Writable
  <2>. QED  BY <2>1
<1>3. PICK f \in [0..N -> X] : IsLoop(f, <<>>, N, step)
  <2>1. <<>> \in X
      OBVIOUS
  <2>. HIDE DEF N, X
  <2>. QED  BY <1>1, <2>1, LoopIsDefined, Zenon
<1>4. IsWritten(f, T, row)
  <2>1. \A n \in 0..N : n # 0 => n - 1 \in 0..N /\ n \in 1..N
      BY <1>1
  <2>2. \A n \in 0..N : n # 0 => f[n - 1] \in X
      BY <2>1
  <2>3. \A n \in 0..N : n # 0 =>
          step[n][f[n - 1]] = IF T.fields[n].type \in Supported THEN Append(f[n - 1], row[n])
                              ELSE f[n - 1]
      BY <1>2, <2>1, <2>2
  <2>4. f = [n \in 0..N |-> IF n = 0 THEN <<>> ELSE step[n][f[n - 1]]]
      BY <1>3 DEF IsLoop
  <2>. QED  BY <2>3, <2>4 DEF IsWritten
<1>. DEFINE w == CHOOSE g : IsWritten(g, T, row)
<1>5. IsWritten(w, T, row)
    BY <1>4, Zenon
<1>6. QParams(T, row) = w[N]
    BY DEF QParams, IsWritten
<1>. QED  BY <1>5, <1>6

(* What is written are values of the fields that can be, no more than      *)
(* there are fields; if all can be, it is the row.                         *)
LEMMA QParamsWrites ==
    ASSUME NEW T \in Structs, NEW row \in Rows(T)
    PROVE  /\ QParams(T, row) \in Seq(Writable(T, row))
           /\ Len(QParams(T, row)) <= Len(T.fields)
           /\ ~ SkipsFields(T) => QParams(T, row) = row
<1>. DEFINE N == Len(T.fields)
            W == Writable(T, row)
<1>1. PICK w : IsWritten(w, T, row) /\ QParams(T, row) = w[Len(T.fields)]
    BY QParamsLoop
<1>2. /\ N \in Nat
      /\ DOMAIN T.fields = 1..N
      /\ row \in [1..N -> AllValues]
    BY RowTyped
<1>3. /\ w[0] = <<>>
      /\ \A n \in 1..N : w[n] = IF T.fields[n].type \in Supported
                                THEN Append(w[n - 1], row[n]) ELSE w[n - 1]
  <2>1. 0 \in 0..N /\ \A n \in 1..N : n \in 0..N /\ n # 0
      BY <1>2
  <2>. QED  BY <1>1, <2>1 DEF IsWritten
<1>4. \A n \in 0..N : w[n] \in Seq(W) /\ Len(w[n]) <= n
  <2>. DEFINE S == {n \in 0..N : w[n] \in Seq(W) /\ Len(w[n]) <= n}
  <2>1. 0 \in S
    <3>1. <<>> \in Seq(W) /\ Len(<<>>) = 0
        OBVIOUS
    <3>2. w[0] \in Seq(W) /\ Len(w[0]) <= 0 /\ 0 \in 0..N
        BY <1>2, <1>3, <3>1
    <3>. QED  BY <3>2
  <2>2. ASSUME NEW n \in 1..N, n - 1 \in S PROVE n \in S
    <3>1. w[n - 1] \in Seq(W) /\ Len(w[n - 1]) <= n - 1
        BY <2>2
    <3>2. CASE T.fields[n].type \in Supported
      <4>1. row[n] \in W
          BY <3>2 DEF Writable
      <4>2. w[n] = Append(w[n - 1], row[n])
          BY <1>3, <3>2
      <4>3. w[n] \in Seq(W) /\ Len(w[n]) = Len(w[n - 1]) + 1
          BY <3>1, <4>1, <4>2
      <4>4. n \in 0..N
          BY <1>2
      <4>. QED  BY <3>1, <4>3, <4>4
    <3>3. CASE T.fields[n].type \notin Supported
      <4>1. w[n] = w[n - 1]
          BY <1>3, <3>3
      <4>. QED  BY <3>1, <4>1
    <3>. QED  BY <3>2, <3>3
  <2>. HIDE DEF S
  <2>3. \A n \in 0..N : n \in S
      BY <1>2, <2>1, <2>2, RoundByRound, Zenon
  <2>. QED  BY <2>3 DEF S
<1>5. ASSUME ~ SkipsFields(T) PROVE w[N] = row
  <2>1. \A n \in 1..N : T.fields[n].type \in Supported
    <3>1. \A f \in Range(T.fields) : f.type \in Supported
        BY <1>5 DEF SkipsFields, Fields
    <3>2. \A n \in 1..N : T.fields[n] \in Range(T.fields)
        BY <1>2 DEF Range
    <3>. QED  BY <3>1, <3>2
  <2>. DEFINE S == {n \in 0..N : Len(w[n]) = n /\ \A i \in 1..n : w[n][i] = row[i]}
  <2>2. 0 \in S
      BY <1>2, <1>3
  <2>3. ASSUME NEW n \in 1..N, n - 1 \in S PROVE n \in S
    <3>1. w[n] = Append(w[n - 1], row[n])
        BY <1>3, <2>1
    <3>2. w[n - 1] \in Seq(W) /\ Len(w[n - 1]) = n - 1 /\ \A i \in 1..(n - 1) : w[n - 1][i] = row[i]
        BY <1>4, <2>3
    <3>3. Len(w[n]) = n /\ w[n][n] = row[n] /\ \A i \in 1..(n - 1) : w[n][i] = w[n - 1][i]
        BY <3>1, <3>2
    <3>. QED  BY <3>2, <3>3
  <2>. HIDE DEF S
  <2>4. \A n \in 0..N : n \in S
      BY <1>2, <2>2, <2>3, RoundByRound, Zenon
  <2>5. w[N] \in Seq(W) /\ Len(w[N]) = N /\ \A i \in 1..N : w[N][i] = row[i]
      BY <1>2, <1>4, <2>4 DEF S
  <2>6. w[N] = [i \in 1..N |-> w[N][i]]
      BY <2>5
  <2>. QED  BY <1>2, <2>5, <2>6
<1>. QED  BY <1>1, <1>2, <1>4, <1>5
-----------------------------------------------------------------------------
(* A row on its way into a table and out of it.                            *)

LEMMA ColumnsTyped ==
    ASSUME NEW M \in Structs
    PROVE  /\ Len(M.fields) \in Nat
           /\ DOMAIN Columns(M) = 1..Len(M.fields)
           /\ Len(Columns(M)) = Len(M.fields)
           /\ \A i \in 1..Len(M.fields) : Columns(M)[i] = mapTypeToSQL(M.fields[i].type)
<1>1. Len(M.fields) \in Nat /\ DOMAIN M.fields = 1..Len(M.fields)
  <2>1. M.fields \in Seq(Range(M.fields))
      BY TablesAssumption
  <2>. QED  BY <2>1
<1>2. Columns(M) = [i \in 1..Len(M.fields) |-> mapTypeToSQL(M.fields[i].type)]
    BY <1>1 DEF Columns
<1>. QED  BY <1>1, <1>2

(* QParams writes no value of a field it passes over.                      *)
LEMMA WrittenTyped ==
    ASSUME NEW T \in Structs, NEW row \in Rows(T)
    PROVE  /\ Len(QParams(T, row)) \in Nat
           /\ DOMAIN QParams(T, row) = 1..Len(QParams(T, row))
           /\ \A i \in DOMAIN QParams(T, row) : QParams(T, row)[i] \in AllValues \ {"other"}
<1>1. Writable(T, row) \subseteq AllValues \ {"other"}
    BY RowTyped, ValuesTyped DEF Writable
<1>2. QParams(T, row) \in Seq(Writable(T, row))
    BY QParamsWrites
<1>. QED  BY <1>1, <1>2

LEMMA CellsTyped ==
    ASSUME NEW M \in Structs, NEW T \in Structs, NEW row \in Rows(T),
           Insertable(Columns(M), QParams(T, row))
    PROVE  /\ StoredRow(Columns(M), QParams(T, row)) \in [1..Len(M.fields) -> Texts \cup {"null"}]
           /\ getResult(StoredRow(Columns(M), QParams(T, row))) \in [1..Len(M.fields) -> Texts]
<1>. DEFINE values == QParams(T, row)
            cells  == StoredRow(Columns(M), values)
            N      == Len(M.fields)
<1>1. \A i \in DOMAIN values : Stored(Columns(M)[i], values[i]) \in Texts
    BY WrittenTyped, StoredTyped DEF Insertable
<1>2. cells = [i \in 1..N |-> IF i \in DOMAIN values THEN Stored(Columns(M)[i], values[i])
                              ELSE "null"]
    BY ColumnsTyped DEF StoredRow
<1>3. cells \in [1..N -> Texts \cup {"null"}]
  <2>. HIDE DEF values, N
  <2>. QED  BY <1>1, <1>2
<1>4. ASSUME NEW c \in [1..N -> Texts \cup {"null"}], Len(c) = N
      PROVE  getResult(c) \in [1..N -> Texts]
  <2>1. getResult(c) = [i \in 1..N |-> IF c[i] = "null" THEN "empty" ELSE c[i]]
      BY DEF getResult
  <2>2. "empty" \in Texts
      BY DEF Texts
  <2>. QED  BY <2>1, <2>2
<1>5. Len(cells) = N
    BY <1>3, ColumnsTyped
<1>. QED  BY <1>3, <1>4, <1>5

(* What select returns of a row, cell by cell.                             *)
LEMMA CellByCell ==
    ASSUME NEW M \in Structs, NEW T \in Structs, NEW row \in Rows(T),
           Insertable(Columns(M), QParams(T, row))
    PROVE  getResult(StoredRow(Columns(M), QParams(T, row))) =
             [i \in 1..Len(M.fields) |->
                IF i \in DOMAIN QParams(T, row) THEN Stored(Columns(M)[i], QParams(T, row)[i])
                ELSE "empty"]
<1>. DEFINE values == QParams(T, row)
            cells  == StoredRow(Columns(M), values)
            N      == Len(M.fields)
<1>1. \A i \in DOMAIN values : Stored(Columns(M)[i], values[i]) \in Texts
    BY WrittenTyped, StoredTyped DEF Insertable
<1>2. cells = [i \in 1..N |-> IF i \in DOMAIN values THEN Stored(Columns(M)[i], values[i])
                              ELSE "null"]
    BY ColumnsTyped DEF StoredRow
<1>3. getResult(cells) = [i \in 1..N |-> IF cells[i] = "null" THEN "empty" ELSE cells[i]]
    BY CellsTyped DEF getResult
<1>4. \A i \in 1..N : (IF cells[i] = "null" THEN "empty" ELSE cells[i]) =
        IF i \in DOMAIN values THEN Stored(Columns(M)[i], values[i]) ELSE "empty"
  <2>1. "null" \notin Texts
      BY DEF Texts
  <2>. HIDE DEF values, N
  <2>. QED  BY <1>1, <1>2, <2>1
<1>. QED  BY <1>3, <1>4

(* With every field written and no value altered, the row comes back, with *)
(* empty texts behind it if the table has more columns.                    *)
LEMMA ComesBack ==
    ASSUME NEW M \in Structs, NEW T \in Structs, NEW row \in Rows(T), ~ SkipsFields(T),
           Range(row) \cap Altered = {}, Insertable(Columns(M), QParams(T, row))
    PROVE  /\ DOMAIN row \subseteq DOMAIN Columns(M)
           /\ getResult(StoredRow(Columns(M), QParams(T, row))) =
                [i \in DOMAIN Columns(M) |-> IF i \in DOMAIN row THEN row[i] ELSE "empty"]
<1>1. QParams(T, row) = row
    BY QParamsWrites
<1>2. /\ Len(T.fields) \in Nat /\ row \in [1..Len(T.fields) -> AllValues]
      /\ Len(row) = Len(T.fields)
    BY RowTyped
<1>3. /\ Len(M.fields) \in Nat /\ DOMAIN Columns(M) = 1..Len(M.fields)
      /\ Len(Columns(M)) = Len(M.fields)
    BY ColumnsTyped
<1>4. DOMAIN row \subseteq DOMAIN Columns(M)
  <2>1. Len(row) \in 1..Len(Columns(M))
      BY <1>1 DEF Insertable
  <2>. QED  BY <1>2, <1>3, <2>1
<1>5. \A i \in DOMAIN row : Stored(Columns(M)[i], row[i]) = row[i]
  <2>. SUFFICES ASSUME NEW i \in DOMAIN row PROVE Stored(Columns(M)[i], row[i]) = row[i]
      OBVIOUS
  <2>1. Stored(Columns(M)[i], row[i]) # "refused"
      BY <1>1 DEF Insertable
  <2>2. row[i] \in AllValues \ Altered
      BY <1>2 DEF Range
  <2>. QED  BY <2>1, <2>2, StoredKeeps
<1>6. getResult(StoredRow(Columns(M), row)) =
        [i \in 1..Len(M.fields) |->
           IF i \in DOMAIN row THEN Stored(Columns(M)[i], row[i]) ELSE "empty"]
    BY <1>1, CellByCell
<1>. QED  BY <1>1, <1>3, <1>4, <1>5, <1>6

(* With -0.0, a text that is cut or a field that is not written, it does   *)
(* not, nor with a fraction in a table of its own.                         *)
LEMMA DoesNotComeBack ==
    ASSUME NEW M \in Structs, NEW T \in Structs, NEW row \in Rows(T),
           \/ SkipsFields(T)
           \/ Range(row) \cap {"negzero", "padded"} # {}
           \/ Columns(M) = Columns(T) /\ "fraction" \in Range(row),
           Insertable(Columns(M), QParams(T, row))
    PROVE  getResult(StoredRow(Columns(M), QParams(T, row))) # row
<1>. DEFINE N      == Len(T.fields)
            got    == getResult(StoredRow(Columns(M), QParams(T, row)))
<1>1. /\ N \in Nat /\ DOMAIN T.fields = 1..N /\ row \in [1..N -> AllValues]
      /\ \A i \in 1..N : row[i] \in ValuesOf(T.fields[i].type)
    BY RowTyped
<1>2. got \in [1..Len(M.fields) -> Texts]
    BY CellsTyped
<1>3. ASSUME NEW i \in 1..N, row[i] \in {"other", "negzero", "padded"} PROVE got # row
  <2>1. row[i] \notin Texts
      BY <1>3 DEF Texts
  <2>2. DOMAIN row = 1..N /\ \A j \in 1..Len(M.fields) : got[j] \in Texts
      BY <1>1, <1>2
  <2>3. DOMAIN got = 1..Len(M.fields)
      BY <1>2
  <2>. HIDE DEF got, N
  <2>. QED  BY <2>1, <2>2, <2>3
<1>4. CASE SkipsFields(T)
  <2>1. PICK i \in 1..N : T.fields[i].type \notin Supported
      BY <1>1, <1>4 DEF SkipsFields, Fields, Range
  <2>2. row[i] = "other"
      BY <1>1, <2>1, ValuesTyped
  <2>. QED  BY <1>3, <2>2
<1>5. CASE Range(row) \cap {"negzero", "padded"} # {}
  <2>1. PICK i \in 1..N : row[i] \in {"negzero", "padded"}
      BY <1>1, <1>5 DEF Range
  <2>. QED  BY <1>3, <2>1
<1>6. CASE Columns(M) = Columns(T) /\ "fraction" \in Range(row)
  <2>1. PICK i \in 1..N : row[i] = "fraction"
      BY <1>1, <1>6 DEF Range
  <2>2. T.fields[i].type = "f32"
      BY <1>1, <2>1 DEF ValuesOf
  <2>3. Columns(M)[i] = "NUMERIC(255)" /\ Len(M.fields) = N
    <3>1. /\ DOMAIN Columns(M) = 1..Len(M.fields) /\ DOMAIN Columns(T) = 1..N
          /\ Len(Columns(M)) = Len(M.fields) /\ Len(Columns(T)) = N
          /\ Columns(T)[i] = mapTypeToSQL(T.fields[i].type)
        BY ColumnsTyped
    <3>. QED  BY <1>6, <2>2, <3>1 DEF mapTypeToSQL
  <2>4. got[i] = IF i \in DOMAIN QParams(T, row) THEN Stored(Columns(M)[i], QParams(T, row)[i])
                 ELSE "empty"
      BY <2>3, CellByCell
  <2>5. got[i] # "fraction"
      BY <2>3, <2>4, WrittenTyped, StoredTyped
  <2>. QED  BY <2>1, <2>5
<1>. QED  BY <1>4, <1>5, <1>6

(* A cell is read as an empty text if nothing was written for its column,  *)
(* or an empty text for one of texts.                                      *)
LEMMA EmptyCells ==
    ASSUME NEW M \in Structs, NEW T \in Structs, NEW row \in Rows(T),
           Insertable(Columns(M), QParams(T, row)), NEW i \in 1..Len(M.fields)
    PROVE  getResult(StoredRow(Columns(M), QParams(T, row)))[i] = "empty" <=>
             \/ i \notin DOMAIN QParams(T, row)
             \/ QParams(T, row)[i] = "empty" /\ Columns(M)[i] = "VARCHAR(255)"
<1>. DEFINE values == QParams(T, row)
<1>1. getResult(StoredRow(Columns(M), values))[i] =
        IF i \in DOMAIN values THEN Stored(Columns(M)[i], values[i]) ELSE "empty"
    BY CellByCell
<1>2. i \in DOMAIN values => values[i] \in AllValues \ {"other"}
    BY WrittenTyped
<1>3. CASE i \in DOMAIN values
  <2>. PICK c : c = Columns(M)[i]
      OBVIOUS
  <2>. PICK v : v = values[i]
      OBVIOUS
  <2>1. Stored(c, v) = "empty" <=> v = "empty" /\ c = "VARCHAR(255)"
      BY <1>2, <1>3, StoredTyped
  <2>. QED  BY <1>1, <1>3, <2>1
<1>4. CASE i \notin DOMAIN values
    BY <1>1, <1>4
<1>. QED  BY <1>3, <1>4

(* A row that has fields, all of them written, and no value that no column *)
(* takes fits a table that takes the fields of its struct.                 *)
LEMMA Fits ==
    ASSUME NEW T \in Structs, NEW row \in Rows(T), ~ SkipsFields(T), Fields(T) # {},
           Range(row) \cap Never = {}, NEW M \in Structs,
           \A i \in DOMAIN T.fields : i \in DOMAIN Columns(M) /\
              Columns(M)[i] \in {Columns(T)[i], "VARCHAR(255)"}
    PROVE  Insertable(Columns(M), QParams(T, row))
<1>. DEFINE N == Len(T.fields)
<1>1. QParams(T, row) = row
    BY QParamsWrites
<1>2. /\ N \in Nat /\ DOMAIN T.fields = 1..N /\ row \in [1..N -> AllValues]
      /\ \A i \in 1..N : row[i] \in ValuesOf(T.fields[i].type)
    BY RowTyped
<1>3. N # 0
    BY <1>2 DEF Fields, Range
<1>4. \A i \in 1..N : T.fields[i].type \in Supported
    BY <1>2 DEF SkipsFields, Fields, Range
<1>5. ASSUME NEW i \in 1..N PROVE Stored(Columns(M)[i], row[i]) # "refused"
  <2>1. row[i] \notin Never
      BY <1>2 DEF Range
  <2>2. Columns(M)[i] \in {mapTypeToSQL(T.fields[i].type), "VARCHAR(255)"}
      BY <1>2, ColumnsTyped
  <2>. QED  BY <1>2, <1>4, <2>1, <2>2, FieldIsTaken
<1>6. Len(row) = N /\ DOMAIN row = 1..N
    BY <1>2
<1>7. N \in 1..Len(Columns(M))
  <2>1. N \in 1..N
      BY <1>2, <1>3
  <2>2. N \in DOMAIN Columns(M) /\ DOMAIN Columns(M) = 1..Len(Columns(M))
      BY <1>2, <2>1, ColumnsTyped
  <2>. QED  BY <2>2
<1>. QED  BY <1>1, <1>5, <1>6, <1>7 DEF Insertable
-----------------------------------------------------------------------------
(* The inductive invariant.                                                *)

LEMMA NewRow ==
    ASSUME TablesInv, NEW T \in Structs, NEW row \in Rows(T), NameOf(T) \in DOMAIN tables,
           Insertable(ColumnsAt(NameOf(T)), QParams(T, row))
    PROVE  [of |-> T, given |-> row,
            cells |-> StoredRow(ColumnsAt(NameOf(T)), QParams(T, row))] \in Kept
<1>. DEFINE M     == tables[NameOf(T)].maker
            cells == StoredRow(Columns(M), QParams(T, row))
<1>1. M \in Structs
    BY DEF TablesInv, TypeOK
<1>2. Len(M.fields) \in Nat
    BY <1>1, ColumnsTyped
<1>3. cells \in [1..Len(M.fields) -> Texts \cup {"null"}]
    BY <1>1, CellsTyped DEF ColumnsAt
<1>4. cells \in Seq(Texts \cup {"null"})
    BY <1>2, <1>3
<1>5. row \in UNION {Rows(U) : U \in Structs}
    OBVIOUS
<1>. QED  BY <1>4, <1>5 DEF Kept, ColumnsAt

(* createTableFor of a T that can be defined: a table with no rows, if     *)
(* there is none of that name.                                             *)
LEMMA CreateKeeps ==
    ASSUME TablesInv, NEW T \in Structs, createTableFor(T)
    PROVE  /\ \A name \in DOMAIN tables : name \in DOMAIN tables' /\ tables'[name] = tables[name]
           /\ TablesInv'
<1>1. seen' = {} /\ answer'.op = "createTableFor" /\ answer'.val \in {"ok", "QueryFailed"}
    BY DEF createTableFor, Answer
<1>2. CASE UNCHANGED tables
  <2>1. TypeOK' /\ RowsAreStored'
      BY <1>1, <1>2 DEF TablesInv, TypeOK, RowsAreStored, ColumnsAt
  <2>2. SeenIsStored' /\ RefusedNow'
      BY <1>1 DEF SeenIsStored, RefusedNow
  <2>. QED  BY <1>2, <2>1, <2>2 DEF TablesInv
<1>3. CASE tables' = [name \in DOMAIN tables \cup {NameOf(T)} |->
                        IF name \in DOMAIN tables THEN tables[name] ELSE NewTable(T)]
  <2>1. /\ DOMAIN tables' = DOMAIN tables \cup {NameOf(T)}
        /\ \A name \in DOMAIN tables : tables'[name] = tables[name]
        /\ NameOf(T) \notin DOMAIN tables => tables'[NameOf(T)] = NewTable(T)
      BY <1>3
  <2>2. NewTable(T) \in [maker : Structs, rows : SUBSET Kept] /\ NewTable(T).rows = {}
      BY DEF NewTable
  <2>3. TypeOK'
      BY <1>1, <2>1, <2>2 DEF TablesInv, TypeOK
  <2>4. RowsAreStored'
      BY <2>1, <2>2 DEF TablesInv, RowsAreStored, ColumnsAt
  <2>5. SeenIsStored' /\ RefusedNow'
      BY <1>1 DEF SeenIsStored, RefusedNow
  <2>. QED  BY <2>1, <2>3, <2>4, <2>5 DEF TablesInv
<1>. QED  BY <1>2, <1>3 DEF createTableFor

(* insert: no change, or one row more.                                     *)
LEMMA InsertKeeps ==
    ASSUME TablesInv, NEW T \in Structs, NEW row \in Rows(T), insert(T, row)
    PROVE  /\ \A name \in DOMAIN tables : /\ name \in DOMAIN tables'
                                          /\ tables'[name].maker = tables[name].maker
                                          /\ tables[name].rows \subseteq tables'[name].rows
           /\ TablesInv'
<1>. DEFINE at     == NameOf(T)
            values == QParams(T, row)
            new    == [of |-> T, given |-> row, cells |-> StoredRow(ColumnsAt(at), values)]
            taken  == at \in DOMAIN tables /\ Insertable(ColumnsAt(at), values)
<1>1. SeenIsStored'
    BY DEF insert, SeenIsStored
<1>2. CASE ~ taken /\ Answer("insert", T, row, "InsertionFailed") /\ UNCHANGED tables
  <2>1. TypeOK' /\ RowsAreStored'
      BY <1>2 DEF TablesInv, TypeOK, RowsAreStored, ColumnsAt, insert, Answer
  <2>2. RefusedNow'
      BY <1>2 DEF RefusedNow, Answer, ColumnsAt
  <2>. QED  BY <1>1, <1>2, <2>1, <2>2 DEF TablesInv
<1>3. CASE /\ taken
           /\ Answer("insert", T, row, "ok")
           /\ tables' = [tables EXCEPT ![at].rows = @ \cup {new}]
  <2>1. /\ DOMAIN tables' = DOMAIN tables
        /\ \A name \in DOMAIN tables : name # at => tables'[name] = tables[name]
        /\ tables'[at].maker = tables[at].maker
        /\ tables'[at].rows = tables[at].rows \cup {new}
        /\ tables'[at] \in [maker : Structs, rows : SUBSET Kept]
    <3>1. tables[at] \in [maker : Structs, rows : SUBSET Kept]
        BY <1>3 DEF TablesInv, TypeOK
    <3>2. new \in Kept
        BY <1>3, NewRow
    <3>. HIDE DEF new
    <3>. QED  BY <1>3, <3>1, <3>2
  <2>2. TypeOK'
    <3>1. \A name \in DOMAIN tables' : \A r \in tables'[name].rows :
             r = new \/ (name \in DOMAIN tables /\ r \in tables[name].rows)
        BY <2>1
    <3>2. \A name \in DOMAIN tables' : \A r \in tables'[name].rows : r.given \in Rows(r.of)
        BY <3>1 DEF TablesInv, TypeOK
    <3>3. answer'.val = "ok" /\ seen' = {}
        BY <1>3 DEF Answer, insert
    <3>. QED  BY <2>1, <3>2, <3>3 DEF TablesInv, TypeOK
  <2>3. RowsAreStored'
    <3>1. \A name \in DOMAIN tables : tables'[name].maker = tables[name].maker
        BY <2>1
    <3>2. ASSUME NEW name \in DOMAIN tables', NEW r \in tables'[name].rows
          PROVE  /\ NameOf(r.of) = name
                 /\ Insertable(ColumnsAt(name), QParams(r.of, r.given))
                 /\ r.cells = StoredRow(ColumnsAt(name), QParams(r.of, r.given))
      <4>1. CASE name = at /\ r = new
          BY <1>3, <4>1
      <4>2. CASE name \in DOMAIN tables /\ r \in tables[name].rows
          BY <4>2 DEF TablesInv, RowsAreStored
      <4>. QED  BY <2>1, <4>1, <4>2
    <3>. QED  BY <2>1, <3>1, <3>2 DEF RowsAreStored, ColumnsAt
  <2>4. RefusedNow'
      BY <1>3 DEF RefusedNow, Answer
  <2>. QED  BY <1>1, <2>1, <2>2, <2>3, <2>4 DEF TablesInv
<1>. QED  BY <1>2, <1>3 DEF insert

(* select: the texts of the rows of one table, or nothing.                 *)
LEMMA SelectKeeps ==
    ASSUME TablesInv, NEW T \in Structs, select(T)
    PROVE  tables' = tables /\ TablesInv'
<1>1. tables' = tables /\ answer'.op = "select" /\ answer'.val \in {"ok", "QueryFailed"}
    BY DEF select, Answer
<1>2. RowsAreStored' /\ RefusedNow'
    BY <1>1 DEF TablesInv, RowsAreStored, RefusedNow, ColumnsAt
<1>3. CASE seen' = {}
    BY <1>1, <1>2, <1>3 DEF TablesInv, TypeOK, SeenIsStored
<1>4. CASE /\ NameOf(T) \in DOMAIN tables
           /\ seen' = {[of |-> r.of, given |-> r.given, got |-> getResult(r.cells)] :
                          r \in tables[NameOf(T)].rows}
  <2>1. SeenIsStored'
      BY <1>1, <1>4 DEF TablesInv, SeenIsStored, RowsAreStored
  <2>2. ASSUME NEW r \in tables[NameOf(T)].rows PROVE getResult(r.cells) \in Seq(Texts)
    <3>. DEFINE M == tables[NameOf(T)].maker
    <3>1. /\ M \in Structs /\ r \in Kept /\ r.given \in Rows(r.of)
        BY <1>4 DEF TablesInv, TypeOK
    <3>2. r.of \in Structs
        BY <3>1 DEF Kept
    <3>3. Len(M.fields) \in Nat
        BY <3>1, ColumnsTyped
    <3>4. /\ Insertable(Columns(M), QParams(r.of, r.given))
          /\ r.cells = StoredRow(Columns(M), QParams(r.of, r.given))
        BY <1>4 DEF TablesInv, RowsAreStored, ColumnsAt
    <3>5. getResult(r.cells) \in [1..Len(M.fields) -> Texts]
        BY <3>1, <3>2, <3>4, CellsTyped
    <3>. QED  BY <3>3, <3>5
  <2>3. \A s \in seen' : s.got \in Seq(Texts)
      BY <1>4, <2>2
  <2>4. TypeOK'
      BY <1>1, <2>3 DEF TablesInv, TypeOK
  <2>. QED  BY <1>1, <1>2, <2>1, <2>4 DEF TablesInv
<1>. QED  BY <1>1, <1>3, <1>4 DEF select

LEMMA TablesInit == Init => TablesInv
BY DEF Init, TablesInv, TypeOK, RowsAreStored, SeenIsStored, RefusedNow, NoAnswer

LEMMA TablesStep == TablesInv /\ [Next]_vars => TablesInv'
<1>. SUFFICES ASSUME TablesInv, [Next]_vars PROVE TablesInv'
    OBVIOUS
<1>1. CASE Next
    BY <1>1, CreateKeeps, InsertKeeps, SelectKeeps DEF Next
<1>2. CASE UNCHANGED vars
    BY <1>2 DEF vars, TablesInv, TypeOK, RowsAreStored, SeenIsStored, RefusedNow, ColumnsAt
<1>. QED  BY <1>1, <1>2

LEMMA TablesInvariant == Spec => []TablesInv
BY TablesInit, TablesStep, PTL DEF Spec

(* The variables of Tables keep their types: createTableFor, insert and    *)
(* select give the answers listed, and every cell read is a text.          *)
THEOREM TypeCorrect == Spec => []TypeOK
<1>1. TablesInv => TypeOK
    BY DEF TablesInv
<1>. QED  BY <1>1, TablesInvariant, PTL
-----------------------------------------------------------------------------
(* The properties.                                                         *)

(* What a row that select returned went through.                           *)
LEMMA SeenRow ==
    ASSUME TablesInv, NEW s \in seen
    PROVE  /\ s.of \in Structs /\ s.given \in Rows(s.of)
           /\ NameOf(s.of) \in DOMAIN tables
           /\ tables[NameOf(s.of)].maker \in Structs
           /\ Insertable(ColumnsAt(NameOf(s.of)), QParams(s.of, s.given))
           /\ s.got = getResult(StoredRow(ColumnsAt(NameOf(s.of)), QParams(s.of, s.given)))
<1>1. /\ NameOf(s.of) \in DOMAIN tables
      /\ \E r \in tables[NameOf(s.of)].rows :
            s = [of |-> r.of, given |-> r.given, got |-> getResult(r.cells)]
    BY DEF TablesInv, SeenIsStored
<1>2. PICK r \in tables[NameOf(s.of)].rows :
            s = [of |-> r.of, given |-> r.given, got |-> getResult(r.cells)]
    BY <1>1
<1>3. s.of = r.of /\ s.given = r.given /\ s.got = getResult(r.cells)
    BY <1>2
<1>4. r \in Kept /\ r.given \in Rows(r.of) /\ tables[NameOf(s.of)].maker \in Structs
    BY <1>1 DEF TablesInv, TypeOK
<1>5. r.of \in Structs
    BY <1>4 DEF Kept
<1>6. /\ Insertable(ColumnsAt(NameOf(s.of)), QParams(r.of, r.given))
      /\ r.cells = StoredRow(ColumnsAt(NameOf(s.of)), QParams(r.of, r.given))
    BY <1>1 DEF TablesInv, RowsAreStored
<1>. QED  BY <1>1, <1>3, <1>4, <1>5, <1>6

(* A row comes back from select as it was given to insert, with empty      *)
(* texts behind it in a wider table, or one of the causes is there.        *)
THEOREM LossesHaveCauses == Spec => []LossHasACause
<1>1. ASSUME TablesInv PROVE LossHasACause
  <2>. SUFFICES ASSUME NEW s \in seen, Range(s.given) \cap Altered = {}, ~ SkipsFields(s.of)
                PROVE  LET columns == ColumnsAt(NameOf(s.of)) IN
                       /\ DOMAIN s.given \subseteq DOMAIN columns
                       /\ s.got = [i \in DOMAIN columns |->
                                     IF i \in DOMAIN s.given THEN s.given[i] ELSE "empty"]
      BY DEF LossHasACause, Altered
  <2>. QED  BY <1>1, SeenRow, ComesBack DEF ColumnsAt
<1>. QED  BY <1>1, TablesInvariant, PTL

(* -0.0, a text that is cut and a field that is not written always make a  *)
(* difference, and a fraction does in the struct's own table.              *)
THEOREM CausesMeanLoss == Spec => []CauseMeansLoss
<1>1. ASSUME TablesInv PROVE CauseMeansLoss
    BY <1>1, SeenRow, DoesNotComeBack DEF CauseMeansLoss, OwnColumns, ColumnsAt
<1>. QED  BY <1>1, TablesInvariant, PTL

(* What select gives as an empty text is one that was inserted, or the     *)
(* NULL of a column that got no value; in a column of numbers it is always *)
(* the NULL.                                                               *)
THEOREM EmptyTextsMeanNothing == Spec => []EmptyMeansNothingGiven
<1>1. ASSUME TablesInv PROVE EmptyMeansNothingGiven
  <2>. SUFFICES ASSUME NEW s \in seen, NEW i \in DOMAIN s.got
                PROVE  s.got[i] = "empty" <=>
                         \/ i \notin DOMAIN QParams(s.of, s.given)
                         \/ /\ QParams(s.of, s.given)[i] = "empty"
                            /\ ColumnsAt(NameOf(s.of))[i] = "VARCHAR(255)"
      BY DEF EmptyMeansNothingGiven
  <2>1. DOMAIN s.got = 1..Len(tables[NameOf(s.of)].maker.fields)
      BY <1>1, SeenRow, CellsTyped DEF ColumnsAt
  <2>. QED  BY <1>1, <2>1, SeenRow, EmptyCells DEF ColumnsAt
<1>. QED  BY <1>1, TablesInvariant, PTL

(* Where the table takes the fields of a struct, insert is only refused    *)
(* for a value that no column takes, or because a field or all of them     *)
(* are not written.                                                        *)
THEOREM RefusalsHaveCauses == Spec => []RefusalHasACause
<1>1. ASSUME TablesInv PROVE RefusalHasACause
  <2>. SUFFICES ASSUME answer.op = "insert", answer.val = "InsertionFailed",
                       NameOf(answer.of) \in DOMAIN tables, TakesFieldsOf(answer.of),
                       Range(answer.given) \cap Never = {}, ~ SkipsFields(answer.of),
                       Fields(answer.of) # {}
                PROVE  FALSE
      BY DEF RefusalHasACause, Never
  <2>. DEFINE M == tables[NameOf(answer.of)].maker
  <2>1. /\ answer.of \in Structs /\ answer.given \in Rows(answer.of) /\ M \in Structs
        /\ ~ Insertable(Columns(M), QParams(answer.of, answer.given))
      BY <1>1 DEF TablesInv, TypeOK, RefusedNow, ColumnsAt
  <2>2. \A i \in DOMAIN answer.of.fields :
           i \in DOMAIN Columns(M) /\ Columns(M)[i] \in {Columns(answer.of)[i], "VARCHAR(255)"}
      BY DEF TakesFieldsOf, ColumnsAt
  <2>. HIDE DEF M
  <2>. QED  BY <2>1, <2>2, Fits
<1>. QED  BY <1>1, TablesInvariant, PTL

(* No call changes the columns of a table or drops a row.                  *)
THEOREM TablesGrowOnly == Spec => TablesOnlyGrow
<1>. DEFINE Grows == \A name \in DOMAIN tables :
                        /\ name \in DOMAIN tables'
                        /\ tables'[name].maker = tables[name].maker
                        /\ tables[name].rows \subseteq tables'[name].rows
<1>1. TablesInv /\ [Next]_vars => [Grows]_vars
  <2>. SUFFICES ASSUME TablesInv, Next PROVE Grows
      OBVIOUS
  <2>. QED  BY CreateKeeps, InsertKeeps, SelectKeeps DEF Next
<1>. QED  BY <1>1, TablesInvariant, PTL DEF Spec, TablesOnlyGrow
=============================================================================
