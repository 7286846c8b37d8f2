------------------------------- MODULE Memory -------------------------------
(***************************************************************************)
(* Who owns what psql.zig allocates.  A call is the sequence of its memory *)
(* operations, run one at a time; any allocation can fail.  An error runs  *)
(* the `defer`s registered so far, as Zig does; `catch unreachable` does   *)
(* not come back.  The blocks are the page allocator's and libpq's, named  *)
(* by the variable that holds them.                                        *)
(***************************************************************************)
EXTENDS Naturals, SequencesExt

CONSTANTS MaxRows, MaxCols,  \* bounds on the size of a result
          MaxValues,         \* bound on the tuple given to QParams
          AllocMayFail

ASSUME MemoryAssumption ==
    MaxRows \in Nat /\ MaxCols \in Nat /\ MaxValues \in Nat /\ AllocMayFail \in BOOLEAN

VARIABLES job,       \* the call being made, and what the world answers to it
          steps,     \* what is left of it
          deferred,  \* blocks its defers will free
          live,      \* blocks of this call that are allocated
          val        \* what it returned; "none" while it runs

vars == <<job, steps, deferred, live, val>>

Block(name, i, j) == [name |-> name, i |-> i, j |-> j]
One(name) == Block(name, 0, 0)

(* The operations.  "try" propagates a failure, "must" panics on it, "get" *)
(* receives a block of libpq's.  A list is one block whatever it grows to. *)
Op(do, block) == [do |-> do, block |-> block]
Try(block)    == Op("try", block)
Must(block)   == Op("must", block)
Get(name)     == Op("get", One(name))
Free(block)   == Op("free", block)
Defer(name)   == Op("defer", One(name))
Return(v)     == [do |-> "return", block |-> One(v)]
Panic         == [do |-> "panic", block |-> One("none")]

ForEach(n, Body(_)) == FlattenSeq([i \in 1..n |-> Body(i)])
-----------------------------------------------------------------------------
(* The calls, each on the answer it gets.                                  *)
(* Mutant: libpq's status is returned in the place of the error.           *)
initReturnsStatus(answer) ==
    <<Try(One("port_str")), Defer("port_str"), Try(One("connection")), Get("PGconn"),
      Return(IF answer = "ok" THEN "psql" ELSE "CONNECTION_BAD")>>

init(answer) ==
    <<Try(One("port_str")), Defer("port_str"), Try(One("connection")), Get("PGconn")>>
    \o IF answer = "ok" THEN <<Free(One("connection")), Return("psql")>>
       ELSE <<Free(One("PGconn")), Return("ConnectionFailed")>>

execQuery(answer) ==
    <<Get("result"), Free(One("result")),
      Return(IF answer = "ok" THEN "ok" ELSE "QueryFailed")>>

(* Mutant: the names and cells are not copied out before PQclear.          *)
getResultClearsFirst(rows, cols) ==
    <<Free(One("result"))>>
    \o ForEach(cols, LAMBDA i : <<Must(One("columns"))>>)
    \o ForEach(rows, LAMBDA i : <<Must(One("rows"))>>)
    \o <<Free(One("result")), Return("queryResult")>>

(* Every name and every cell is copied before PQclear.  The list of a row  *)
(* is only kept as its items.                                              *)
copyNames(cols) ==
    ForEach(cols, LAMBDA i : <<Try(Block("column", i, 0)), Must(One("columns"))>>)

copyCells(i, cols) ==
    ForEach(cols, LAMBDA j : <<Try(Block("cell", i, j)), Must(Block("row", i, 0))>>)

copyRows(rows, cols) ==
    ForEach(rows, LAMBDA i : copyCells(i, cols) \o <<Must(One("rows"))>>)

getResult(rows, cols) ==
    copyNames(cols) \o copyRows(rows, cols) \o <<Free(One("result")), Return("queryResult")>>

(* Mutant: a failed query is freed before its error is returned, and again *)
(* by the defer.                                                           *)
selectFreesTwice(answer, rows, cols) ==
    <<Try(One("query")), Defer("query"), Get("result")>>
    \o IF answer = "ok" THEN getResult(rows, cols)
       ELSE <<Free(One("result")), Free(One("query")), Return("QueryFailed")>>

select(answer, rows, cols) ==
    <<Try(One("query")), Defer("query"), Get("result")>>
    \o IF answer = "ok" THEN getResult(rows, cols)
       ELSE <<Free(One("result")), Return("QueryFailed")>>

(* Mutant: the query is freed after the early return.                      *)
selectJoinFreesLate(answer, rows, cols) ==
    <<Try(One("query")), Get("result")>>
    \o IF answer = "ok" THEN <<Free(One("query"))>> \o getResult(rows, cols)
       ELSE <<Free(One("result")), Return("SelectJoinFailed")>>

selectJoin(answer, rows, cols) ==
    <<Try(One("query")), Get("result"), Free(One("query"))>>
    \o IF answer = "ok" THEN getResult(rows, cols)
       ELSE <<Free(One("result")), Return("SelectJoinFailed")>>

insert(answer) ==
    <<Try(One("query")), Get("result"), Free(One("query"))>>
    \o CASE answer = "ok" -> <<Free(One("result")), Return("ok")>>
         [] answer = "duplicate" ->
              <<Try(One("errorCode")), Defer("errorCode"), Return("PrimaryKeyDuplicate")>>
         [] answer = "error" ->
              <<Try(One("errorCode")), Defer("errorCode"), Free(One("result")),
                Return("InsertionFailed")>>
         [] answer = "lost" -> <<Panic>>

createTableFor(answer) ==
    <<Defer("parts"), Try(One("parts")), Try(One("query")), Get("result"), Free(One("result"))>>
    \o IF answer = "ok" THEN <<Free(One("query")), Return("ok")>>
       ELSE <<Return("QueryFailed")>>

(* A string is escaped into a block of its own and then formatted.         *)
formatStrings(strings) ==
    ForEach(strings, LAMBDA i : <<Try(Block("safe_value", i, 0)), Must(Block("text", i, 0)),
                                  Try(One("paramString"))>>)

formatNumbers(strings, numbers) ==
    ForEach(numbers, LAMBDA i : <<Must(Block("text", strings + i, 0)), Try(One("paramString"))>>)

QParams(strings, numbers) ==
    <<Defer("paramString")>>
    \o formatStrings(strings) \o formatNumbers(strings, numbers)
    \o <<Try(One("joined")), Return("QueryParams")>>

Program(j) ==
    CASE j.op = "init" -> init(j.answer)
      [] j.op = "execQuery" -> execQuery(j.answer)
      [] j.op = "select" -> select(j.answer, j.n, j.m)
      [] j.op = "selectJoin" -> selectJoin(j.answer, j.n, j.m)
      [] j.op = "insert" -> insert(j.answer)
      [] j.op = "createTableFor" -> createTableFor(j.answer)
      [] j.op = "QParams" -> QParams(j.n, j.m)

Jobs == [op : {"init", "execQuery", "createTableFor"}, answer : {"ok", "error"}, n : {0}, m : {0}]
          \cup [op : {"insert"}, answer : {"ok", "duplicate", "error", "lost"}, n : {0}, m : {0}]
          \cup [op : {"select", "selectJoin"}, answer : {"ok", "error"},
                n : 0..MaxRows, m : 0..MaxCols]
          \cup [op : {"QParams"}, answer : {"ok"}, n : 0..MaxValues, m : 0..MaxValues]
-----------------------------------------------------------------------------
Start(j) ==
    /\ job' = j
    /\ steps' = Program(j)
    /\ deferred' = {}
    /\ live' = {}
    /\ val' = "none"

Init ==
    \E j \in Jobs : /\ job = j
                    /\ steps = Program(j)
                    /\ deferred = {}
                    /\ live = {}
                    /\ val = "none"

Running(do) == val = "none" /\ Head(steps).do = do

Allocate ==
    /\ Running("try") \/ Running("must") \/ Running("get")
    /\ live' = live \cup {Head(steps).block}
    /\ steps' = Tail(steps)
    /\ UNCHANGED <<job, deferred, val>>

Ends(v) ==
    /\ val' = v
    /\ live' = live \ deferred
    /\ steps' = <<>>
    /\ deferred' = {}
    /\ UNCHANGED job

TryFails  == AllocMayFail /\ Running("try") /\ Ends("OutOfMemory")
ReturnVal == Running("return") /\ Ends(Head(steps).block.name)

(* The process is gone, and its memory with it.                            *)
Panics ==
    /\ \/ AllocMayFail /\ Running("must")
       \/ Running("panic")
    /\ val' = "panic"
    /\ live' = {}
    /\ steps' = <<>>
    /\ deferred' = {}
    /\ UNCHANGED job

FreeBlock ==
    /\ Running("free")
    /\ live' = live \ {Head(steps).block}
    /\ steps' = Tail(steps)
    /\ UNCHANGED <<job, deferred, val>>

DeferFree ==
    /\ Running("defer")
    /\ deferred' = deferred \cup {Head(steps).block}
    /\ steps' = Tail(steps)
    /\ UNCHANGED <<job, live, val>>

(* What a result of the size of job consists of: the names, the cells, the *)
(* items of each row, and the two lists, which have no block while empty.  *)
Columns == {Block("column", i, 0) : i \in 1..job.m}
Cells   == {Block("cell", i, j) : i \in 1..job.n, j \in 1..job.m}
RowArrays == {Block("row", i, 0) : i \in {k \in 1..job.n : job.m > 0}}
Lists   == {One("columns") : i \in 1..job.m} \cup {One("rows") : i \in 1..job.n}

(* The caller gives back what it got: queryResult.deinit, which frees name *)
(* after name and cell after cell, or QueryParams.deinit, or close.        *)
Freed == CASE val = "queryResult" -> Columns \cup Cells \cup Lists
           [] val = "QueryParams" -> {One("joined")}
           [] val = "psql" -> {One("PGconn")}
           [] OTHER -> {}

deinit ==
    /\ val \in {"queryResult", "QueryParams", "psql"}
    /\ live' = live \ Freed
    /\ val' = "done"
    /\ UNCHANGED <<job, steps, deferred>>

NextCall ==
    /\ val \notin {"none", "queryResult", "QueryParams", "psql"}
    /\ \E j \in Jobs : Start(j)

Next == Allocate \/ TryFails \/ ReturnVal \/ Panics \/ FreeBlock \/ DeferFree \/ deinit \/ NextCall

Spec == Init /\ [][Next]_vars
-----------------------------------------------------------------------------
(* Every variable has its type.                                            *)
TypeOK ==
    /\ job \in Jobs
    /\ val \in {"none", "psql", "queryResult", "QueryParams", "ok", "done", "panic", "OutOfMemory",
                "ConnectionFailed", "QueryFailed", "SelectJoinFailed", "InsertionFailed",
                "PrimaryKeyDuplicate"}
    /\ \A b \in live \cup deferred : b.i \in 0..(job.n + job.m) /\ b.j \in 0..MaxCols

Formatted == {Block("text", i, 0) : i \in 1..(job.n + job.m)}
                \cup {Block("safe_value", i, 0) : i \in 1..job.n}

(* Nothing is freed that is not allocated, on any path: a block that is    *)
(* freed by hand is live and has no defer of its own, no block has two, at *)
(* a return and wherever an error can leave the function the defers find   *)
(* their blocks live, and so do the deinit and close of what was handed    *)
(* over.  (A list that did not grow yet has no block to free.)             *)
Growing == {"parts", "paramString"}

FreesAreOfLiveBlocks ==
    /\ Running("free") => Head(steps).block \in live \ deferred
    /\ Running("defer") => Head(steps).block \notin deferred
    /\ Running("try") \/ Running("return") =>
         {b \in deferred : b.name \notin Growing} \subseteq live
    /\ Freed \subseteq live

(* A queryResult owns a copy of every name and cell, and nothing of libpq  *)
(* is kept: it stays good when the connection is closed.                   *)
ResultIsWhole == val = "queryResult" => live = Columns \cup Cells \cup RowArrays \cup Lists

(* What is still allocated when a call is over and its result has been     *)
(* deinitialised.  With memory enough it is nothing, except: the           *)
(* connection string of a failed init, the PGresult of a duplicate, the    *)
(* query of a failed createTableFor, the arrays of the rows of a result,   *)
(* and every value QParams formatted.                                      *)
Leak == CASE val = "ConnectionFailed" -> {One("connection")}
          [] val = "PrimaryKeyDuplicate" -> {One("result")}
          [] val = "QueryFailed" /\ job.op = "createTableFor" -> {One("query")}
          [] val = "done" /\ job.op \in {"select", "selectJoin"} -> RowArrays
          [] val = "done" /\ job.op = "QParams" -> Formatted
          [] OTHER -> {}

(* When memory runs out more is lost, but never the text of the query, the *)
(* connection string or a list of parts.                                   *)
LeaksAreKnown ==
    /\ val \in {"ok", "done", "ConnectionFailed", "QueryFailed", "SelectJoinFailed",
                "InsertionFailed", "PrimaryKeyDuplicate"} => live = Leak
    /\ val = "OutOfMemory" =>
         \A b \in live : b.name \notin {"query", "connection", "port_str", "parts", "paramString"}

(* "It is important to free the memory allocated for the columns and rows. *)
(* Otherwise, memory leaks may occur": after deinit none of it is left.    *)
NothingLeftAfterDeinit ==
    val = "done" /\ job.op \in {"select", "selectJoin"} => live = {}
=============================================================================
