# A verification of zig-postgresql-wrapper

The program is one file, `src/psql.zig`: a struct `psql` whose functions build an
SQL text, hand it to libpq's `PQexec`, block until the result is there and turn it
into a Zig value or error. Everything below `src/pq/` is PostgreSQL's own headers and
binaries. This directory models the wrapper, and of PostgreSQL only what the wrapper
can see.

## The system

| Part | State | Operations | Modelled by |
|---|---|---|---|
| connection and query functions | the `PGconn` behind a `psql` value, the call it is in | `init`, `close`, `execQuery`, `select`, `selectJoin`, `insert`, `createTableFor` | `Psql` |
| what a caller may conclude from answers | the caller's belief about its BEGIN block | reading return values and errors | `PsqlHistory` |
| PostgreSQL server (external) | committed entries; sessions, transaction blocks, pending entries | running one statement | `Server` |
| libpq results (external) | status and SQLSTATE of a `PGresult`, or NULL | none | `Libpq` |
| parameter formatting | the loop's `first` flag and output | `QParams`, `escapeString` | `QParams` |
| memory ownership | blocks of the page allocator and of libpq | every allocation, `defer` and free; `getResult`, `deinit` | `Memory` |
| what callers are promised | entries, drafts of open blocks, lost calls | the calls as a program sees them | `KeyTable`, `PsqlRefinement` |
| connection string | what the `psql` value holds and what libpq asks for | the join in `init`, libpq's reading | `ConnInfo` |
| structs and their tables | tables, the struct each was made for, rows | `createTableFor`, `mapTypeToSQL`, `stripModuleName`; `insert` of `QParams`, `select` | `Tables` |
| query buffers | where they are, how long, what libpq took | building, `PQexec`'s reading, freeing | `CString` |
| printing, build files, tests | none | debug output, build steps | not modelled |

The functions share nothing but the `PGconn` of their `psql` value and the server's
tables. There are no threads, callbacks or timers in the wrapper. What makes it hard
is around it: other clients of the same server run between the two halves of a
`PQexec`; a connection can go at any moment, before or after the server did what it
was asked; an error inside a BEGIN block aborts the block, while the wrapper reports
each call by itself; an allocation can fail in the middle of copying a result, and is
then sometimes an error and sometimes a panic; and every early return has its own
idea of what to free.

What makes each part correct:

* **Calls.** What an answer tells the caller about the database is true, also with
  other clients, lost connections, deadlocks and restarts. An error the server raised
  means that nothing of the block is left. A duplicate is one. A call that hangs has
  a reason outside of the wrapper.
* **QParams.** The server reads back the values it was given; no text leaves its quotes.
* **Memory.** Nothing is freed twice, on any way out of a function; a `queryResult` owns its data; what leaks is known.
* **Connection string.** The connection has the parameters that the `psql` value holds.
* **Tables.** A value of a struct comes back as it was given, or it can be known beforehand why not.
* **Query buffers.** libpq reads the text that was built.

## Modules

### `Libpq` and `Server` (external)

`Libpq` has the statuses and SQLSTATEs that `psql.zig` tells apart. A result that
libpq makes up when the connection is gone has no SQLSTATE; NULL is such a result too.

`Server` has sessions that run one statement each. `stmt[s]` is what the session was
given, `phase[s]` whether it is idle, running it, waiting for COPY data, or between
the two halves of CREATE TABLE IF NOT EXISTS. A primary key value and the catalog
entry of the table `createTableFor` makes are both entries of a unique index and are
inserted by one rule (`ClaimFree`, `ClaimTaken`, `Waiting`, `DeadlockVictim`). One table
with one unique column is enough for what the wrapper does, since it never looks at which table it was; but
a table with a second one can be reported as `PrimaryKeyDuplicate` for that (`psql.zig:221` only
compares the SQLSTATE), and `DuplicateIsReal` then speaks of an entry of either index.
Rows are only added, since no function of the wrapper deletes; the statements a caller
can give `execQuery` are BEGIN, COMMIT, ROLLBACK, COPY, an empty one and one the server
refuses. There is no SAVEPOINT: a program that uses one can get an aborted block going again, and for such a program
`RefusedBlockIsEmpty` does not hold.

An INSERT is `insert`, answered as a command, or `returning`, answered with rows (`InsertTexts`). `psql.insert` puts its values
between parentheses as they are, so a caller who ends them with `1) RETURNING (id` sends the latter.

### `Psql`

One client is one `psql` value and the program that uses it. `pc` is `start` (no
value), `ready`, `exec` (inside `PQexec`) or `dead` (the program panicked); `link` is the
server session its socket reaches.

A query function is two steps, split where it blocks. The first is its `...Call`
action: the text is built and sent (`EnterPQexec`). The second is its `...Return`
operator, everything from `PQexec`'s return to the function's own; it is taken together
with the cause of that return: the server's answer (`Reply`), the loss of the connection
(`DropInCall`), or a connection that was gone before the call. Between the two the
rest of the world moves. Nothing the wrapper does on either side is visible to anybody
else, so splitting it further would add states and no behaviours.

What a call can send is all the server can tell apart of it. `insert` and the selects send a good or a refused
statement, and `insert` one of `InsertKinds`; `createTableFor` sends a definition the server takes or, for a struct with a reserved
name or two fields alike, one it refuses (`Tables` says which).

`ReplyLost` is the server finishing a statement whose client is gone: the case in
which the caller sees an error and the row is in the table all the same.

`answer` is what the last step returned to a caller, if it returned. It is an event:
properties speak of it and of the state it is returned in.

The operators that carry a comment "Mutant" are not part of the system: each is a
wrong version of the definition after it, and shows that a property would notice.

### `PsqlHistory`

History variables computed from the answers alone, as a program would that reads only
return values: is it in a block, what has the block been told it added, did a call of
the block fail, did the server refuse one. `PromisedBy` is what such a program may
rely on. The properties compare the belief with the server:

* `PromisesKept`: an insert or table creation that returned outside a block is committed; so is all of
  a block whose COMMIT returned, if no call of the block failed. The condition is
  needed: COMMIT of an aborted block succeeds.
* `RefusedBlockIsEmpty`: once the server has refused a call of a block, the block has
  failed and holds nothing. It does not follow from `QueryFailed` alone:
  an empty query and COPY give `QueryFailed` and leave the block open (`Refuses`).
* `DuplicateIsReal`: `PrimaryKeyDuplicate` is only returned for a key that is committed or was
  added by the caller's own block.
* `CreateRefusedOnlyIfThere`: for a struct whose definition the server takes, connected and outside a block, `createTableFor` fails only
  when the table is there, although it says IF NOT EXISTS.
* `DiesOnlyOfLossOrRows`: a program dies in an insert that lost its connection; in an insert that was answered with
  rows, and then the row is in the table or in the block that dies with it; and, when memory can run out, in a select.
* `HangNeedsHolder` (in `Psql`): see fairness below.

### `QParams`

The loop of `QParams` takes one value of the tuple per step. Every state is one in which
the tuple may end, so every state is a possible result. A text is made of quotes and
other characters, a number of one digit. NaN and the infinities are numbers here, since only the place of a value in the list matters; what
the server makes of the bare words is in `Tables`. `ReadChar` is the server's lexer: numbers,
quoted texts in which a doubled quote is a quote, commas. `ReadBackWhenFirstIsTyped`
says exactly when the server reads back what was given, `TextStaysQuoted` that this
never goes so wrong that a character of a text stands outside its quotes, and `ReadingInv` why: a list is empty, or
read as it was given, or confused, and then it stays confused whatever follows.

### `Memory`

A call is the list of its memory operations in source order, on one answer and one size of
result, run by an interpreter with Zig's rules: a failed `try` runs the defers so far and
returns, a failure under `catch unreachable` panics. The texts are not there, only who
frees them. The answers are those that `Psql`'s `...Return` operators tell apart. The loops of `getResult` and `QParams`
are operators of their own (`copyNames`, `copyCells`, `copyRows`, `formatStrings`, `formatNumbers`).

* `FreesAreOfLiveBlocks`: nothing is freed twice or before it is there, on any path: a block freed by hand is live and has no `defer` that
  will free it again; no block has two defers; wherever the function can be left the defers find their blocks live; and so do
  `deinit` and `close` those of what was returned.
* `ResultIsWhole`: a `queryResult` has a copy of every name and every cell and keeps nothing of libpq's.
* `LeaksAreKnown`: what a call has lost when it is over and deinitialised is exactly what `Leak` lists; when memory
  runs out more is lost, but never the text of a query, the connection string or a list of parts.

### `KeyTable` and `PsqlRefinement`

`KeyTable` is the specification of the wrapper for a program that keeps entries in a table. It
has no sessions, locks, results or SQLSTATEs: a call has its effect in the step that
answers it, or it fails and has none, and of the block it was in nothing is left. There are two exceptions. An insert that is answered with rows
has its effect and ends the program. And a call whose connection is lost (`Lost`): what was at stake, an entry or the draft of a block whose COMMIT was
sent, becomes a ticket that may come late (`ComesLate`), all of it and once, or never.
An insert is only ever refused as a duplicate for an entry that is there.

`PsqlRefinement` maps `Psql` to it. A client's draft is what its session has pending; a ticket is a
session nobody is linked to any more that is still running; and a block whose session was left in COPY IN
counts as failed from the moment of the COPY, because the next call will abort it whatever it is.
That last line is the part of the mapping that has something to say: without it there is no abstract
step for a call that aborts the block before its own statement is looked at. The end points of the program (`close`, a panic) and errors of the
connection or of memory are "failed" or "died" without a reason.

### `ConnInfo`

`init` is one action: it joins the parameters and hands the string to libpq, whose reader is
`conninfo_parse`, a state machine over the characters (`ReadChar`, one after the other in `ReadAll`): a name up to `=`,
blanks, then a quoted or a plain value with backslash escapes. A keyword is one character here, since it only matters
whether a name is one. A parameter that ends up unset has the empty text, because libpq treats an
empty value and an absent one alike. If the string can be read, the server accepts or refuses.

### `Tables`

The program declares struct types (`Structs`), makes tables with `createTableFor`, inserts what `QParams`
makes of a value's fields and selects. The state keeps for every table the struct it was made for, and for every
row the value it was made of, so that what `select` returns can be compared with what was given. A value
stands for a class: an `int`, a `big` number, a `fraction`, -0.0, NaN, an infinity, a `text`, an empty one, one of `digits`,
one that is too long for the column but only by blanks (`padded`) or otherwise (`long`), one with a NUL, one that is not
UTF-8, and a value of a type `QParams` passes over. `Stored` is the server's assignment
cast of such a value to a column: the database is in UTF-8 and `standard_conforming_strings` is on, as both are by default. Texts that
the server would read as other numbers than they spell (`" 42"`, `042`, `NaN`) are left out; they matter only when a text goes to another struct's column. Fields of a struct value have types that are given, so their
list has its separators (`ReadBackWhenFirstIsTyped` in `QParams`); what is left of `QParams` here is which
fields it writes. A reserved name is refused by `createTableFor` and `insert`, but `SELECT * FROM user` succeeds, because
`user` is a function there (`Callable`).

* `LossHasACause`: a row comes back as it was given, with empty texts in columns it has no value for, unless it has a fraction, -0.0, blanks
  beyond the column or a field that is not written. Rows that went into another struct's table are not exempt.
* `CauseMeansLoss`: -0.0, such blanks and unwritten fields always change the row, a fraction does in the struct's own table.
* `EmptyMeansNothingGiven`: `PQgetvalue` of NULL is an empty text, so an empty text that comes back is one that was given or no value at all;
  it is never anything else, and in a column of numbers it is always the latter.
* `RefusalHasACause`: where the table takes the types of all fields, an insert is refused for a listed value or field only.
* `TablesOnlyGrow`: the first struct of a name decides on the columns, and no call drops a row.

### `CString`

`allocPrint` and `join` make blocks of exactly the length of the text. A block of the page allocator
is rounded up to pages that the system has zeroed, so libpq finds a NUL right after the text
unless the text ends with a page; then it finds whatever is mapped behind, or nothing. `PartialPageIsSafe` says
that it reads the text as built in the first case; for the second there is nothing to promise. Any number of
buffers may be alive while a query is read: parameters, rows of earlier results, leaked ones.

## Runs

| Run | Question | Bounds |
|---|---|---|
| `calls_blocks` | promises and duplicates, two clients inserting in and out of blocks | 2 clients, 2 sessions, 2 keys |
| `calls_create` | the race to create a table, definitions that are refused, the invariant of the proofs, `KeyTable` for two clients | 2 clients, 2 sessions, the table |
| `calls_all` | what kills a program; COPY which aborts a block late; `KeyTable` for every function but `createTableFor` and every statement and answer, RETURNING included, allocations failing, a session that outlives its client's connection | 1 client, 2 sessions, 1 key |
| `calls_liveness` | why a call may never return | 2 clients, 2 sessions, a key and the table, blocks without COMMIT, no symmetry |
| `insert_lost` | violation: insert does not always return | 1 client |
| `qparams` | reading back, quoting, the invariant of the proofs | 3 values, texts of 2 characters |
| `qparams_format` | violation: the list is not always formatted properly | 2 values |
| `memory` | double frees, ownership, leaks | 3 by 3 cells, 3 + 3 parameters |
| `memory_deinit` | violation: deinit leaves memory behind | as `memory` |
| `conninfo` | when the string is read as it was meant | 5 characters shared out among the four values in every way |
| `tables` | why a row is refused or comes back changed, and what an empty text stands for | 9 structs, 2 rows a table |
| `cstring` | when libpq reads a query as it was built | 3 buffers of up to 2 pages, 4 pages of 3 bytes |

Why the bounds are enough to meet the cases: two clients and two entries are the least with which two
blocks wait for each other in a cycle; `calls_liveness` has a key and the table for that, so that an `insert`
and a `createTableFor` can wait for each other, and its blocks end by an error, a `close` or a lost connection, which
release what they hold as COMMIT does. Two sessions let one client reconnect while the session
it lost still runs its statement, and fill the server up so that another `init` must
wait. The theorems below hold for any number of each. Three values in `QParams` give every order of a
typed, a guessed and an unsupported one; two characters give a quote at either end of a text and
two quotes in a row. Five characters in `ConnInfo` give every choice of
empty values, and one value of two characters when the others have one, which is what it takes to tell a quote in front
from one behind; a value of five characters when the others are empty has every special character
before and after another. The structs of `Tables` are one of each kind the code can go wrong with: one that
fits, two that share its last name (one after folding), floats, an unwritten field in the middle, nothing that is
written, no field at all, colliding columns, a reserved name, a generic type's. Rows do not
interact, so two are one more than it takes. With pages of three bytes a text can end before, with
and after a page, and other buffers lie before and behind the one that is read. There are no counters, so nothing else is bounded; `MaxValues`, `MaxText`,
`MaxRows` and `MaxCols` are the bounds of the data. Symmetry is over clients, sessions and keys,
and used for invariants and step properties only.

Deadlock is checked except in `QParams`, where the loop ends with the tuple, and in `ConnInfo`, which ends with
`init`.

### What the violations show

* `insert_lost` (`psql.zig:218` against `readme.md:55`): a failure that the server did not
  send has no SQLSTATE, and formatting the NULL pointer trips an assertion. In a build
  without safety checks it is undefined behaviour instead; the model has the panic. The same line is reached by an insert that was
  successful and answered with rows, which `DiesOnlyOfLossOrRows` states in `calls_all`.
* `qparams_format` (`psql.zig:195` against `psql.zig:147` and `readme.md:138`): a value of a
  guessed type does not clear `first`, so the next one has no separator before it.
* `memory_deinit` (`psql.zig:300` against `psql.zig:51-53`): the array of a row is never freed.

Four more disagreements between the code and what is written about it, which passing runs state as what the code does:

* With an empty value, such as the three in the tests' `connInfo` (`psql-tests.zig:7-9`), `password=` becomes the
  user and `port=5432` the host, and a `psql` value (`psql.zig:70`) is connected with other parameters than it
  holds: `AsGivenIfPlain` and `EmptyTakesNext` in `conninfo`.
* "Function to create tables based on a struct" (`psql.zig:335`): a second struct with the same last name gets
  the first one's table (`psql.zig:348`), and `createTableFor` returns normally: `TablesOnlyGrow` and the last case
  of `LossHasACause` in `tables`.
* `readme.md:126` gives `1,John,30` for the three typed values of its example; a text is written with its quotes
  (`psql.zig:171-174`), and without them the server could not read the list back: `ReadBackWhenFirstIsTyped` in `qparams`.
* `readme.md:110` says that the example makes a table `userstest`; `stripModuleName` and the server's folding make it
  `usertestauto`.

### Fairness

Only `calls_liveness` assumes any: the backend of a session does not stop: it goes on with
its statement while it can (`Reply` or `Lookup`) and notices in the end that its client has gone (`Reap`; TCP
keepalive). And the OS closes the sockets of a program that died. `Reap` of a session nobody is linked to stays enabled until it
is taken, so one fairness condition per session says both. All are weak: a lock that is released does not have to go
to the one who waits longest. Callers, the network and restarts are not fair: nobody has to
make another call. `HangNeedsHolder` then says that a call of one client hangs only while,
again and again, another is between two calls of an open block. The wrapper sets no timeout, so more
cannot be promised. If the other client is the same thread with a second `psql`
value, this is a deadlock that the server cannot see.

## Proofs

Eight modules hold what `tlapm` has proved, for every value of the constants that meets the named assumptions: any number
of clients, sessions and keys; any set of functions and statements in use; tuples, texts and parameters of any length;
any structs; any page size. The assumptions (`ServerAssumption`, `PsqlAssumption`, `CStringAssumption`,
`TablesAssumption` and the bounds being numbers) only say that the null values are not members of the
sets they stand beside, that the sets and numbers are what they are called, and that a word in lower case stays
what it is when it is folded again.

| Module | Theorem | Property or invariant |
|---|---|---|
| `PsqlProofs` | `TypeCorrect`, `SystemInvariant` | `TypeOK`, `SystemInv` of `Psql` |
| | `HistoryTypeCorrect`, `BeliefInvariant` | `HistoryTypeOK`, `BeliefInv` |
| | `PromisesAreKept` | `PromisesKept` |
| | `RefusedBlocksAreEmpty` | `RefusedBlockIsEmpty` |
| | `DuplicatesAreReal` | `DuplicateIsReal` |
| | `CreateRefusedOnlyWhenThere` | `CreateRefusedOnlyIfThere` |
| | `DiesOnlyCutOffOrOfRows` | `DiesOnlyOfLossOrRows` |
| `PsqlRefinementProofs` | `Implements` | `ImplementsKeyTable` |
| `QParamsProofs` | `TypeCorrect`, `ReadingInvariant` | `TypeOK`, `ReadingInv` |
| | `NoTextLeavesItsQuotes` | `TextStaysQuoted` |
| | `ReadBackExactly` | `ReadBackWhenFirstIsTyped` |
| `ConnInfoProofs` | `TypeCorrect` | `TypeOK` |
| | `PlainAndOnlyPlain` | `AsGivenIfPlain` |
| | `EmptyOnesTakeTheNext` | `EmptyTakesNext` |
| | `RefusedForAReason` | `RefusedOnlyForBlankOrQuote` |
| `TablesProofs` | `TypeCorrect` | `TypeOK` |
| | `LossesHaveCauses`, `CausesMeanLoss` | `LossHasACause`, `CauseMeansLoss` |
| | `EmptyTextsMeanNothing` | `EmptyMeansNothingGiven` |
| | `RefusalsHaveCauses` | `RefusalHasACause` |
| | `TablesGrowOnly` | `TablesOnlyGrow` |
| `CStringProofs` | `TypeCorrect` | `TypeOK` |
| | `PartialPagesAreSafe` | `PartialPageIsSafe` |
| `MemoryProofs` | `MemoryTypeCorrect` | `TypeOK` of `Memory` |
| | `OnlyLiveBlocksAreFreed` | `FreesAreOfLiveBlocks` |
| | `ResultsAreWhole` | `ResultIsWhole` |
| | `LeaksAreAllKnown` | `LeaksAreKnown` |
| `NatRecursion` | lemmas only | see below |

### The calls

`SystemInv` is what holds of the wrapper and the server whatever the callers believe: a link is one client's own
(`LinksAreOwn`); a client in a call waits for the statement its session was given (`CallsMatch`), and the session
is running it (`CallsRun`); only an open block has something pending (`PendingOnlyIfOpen`); and an entry is pending in one
session at most, and then not committed (`EntriesAreUnique`). Each part is used: without the first a reply could
change two clients' blocks, without the second and third a call could be answered for another's
statement, without the fourth a session that ends would take back or keep what no block holds, without the last
a commit could store an entry that `KeyTable` has already.

`PromisesKept` is not inductive: that COMMIT stores what the block was told it had added depends
on the session still having it pending, which depends on no error having aborted the
block unseen. `BeliefInv` is `SystemInv` and `BlocksMatch`: a client takes itself to be in a block exactly
when its session is; what it was told is pending or committed unless a call failed; a
session left in COPY IN has already told its client of a failure; and a refused block has failed (a client
without a value has none, `OutOfUse`). COPY is
why this speaks of `copyin`: the next call aborts the block without an answer of its own.

`StatementEffects` sums up what a statement does, by its kind and its answer;
`ReturnFromFacts` what a function makes of an answer. `ReplyBelief` puts the two together by cases on the kind: it is the
only step where both sides move. `AnswerSources` says where an answer comes from, and from it and
`BeliefInv` each property follows.

`Implements` goes through `Psql` action by action, from `SystemInv` alone. Entering `PQexec` is the abstract `Ask`; a reply
takes effect and answers, one lemma for each kind of statement (`ReplyBegins`, `ReplyCommits`, `ReplyAdds`, ...); a
connection lost in a call turns the client's draft into a ticket (`DropInCallLoses`); a session that
finishes unseen is the ticket coming late or never (`ReplyLostComesLate`, `ReapNeverComes`); `Lookup` and
`Restart` are stutters. `ClientKept` and `LateKept` say that a step leaves the picture of everybody else alone.

### Texts: induction over data

The library's induction theorems take an operator as a parameter, which the provers cannot instantiate. `NatRecursion`
states induction and recursion with sets and functions instead, and derives them from the library's theorem that
a well-founded set has minimal elements: `LeastNumber`, `Induction`, `Recursion`, then what a loop over the characters of
a text computes (`FoldIsDefined`, `FoldResult`: the recursive functions of the models have a value for every text and
go on by one step with every character) and `OneByOne`, induction over a sequence. With it the readers of `QParams` and
`ConnInfo` can be followed through texts of any length.

`QParamsProofs`. A text that is escaped and read back from inside its quotes is itself and ends inside
(`EscapedStaysInside`); `ReadWhereExpected` reads a value behind a comma, `ReadBehindAnother` one that is written
behind another without. That gives the three cases of `ReadingInv`: nothing is written yet; what was written is
read as given, and the flag is down just if the first value had its type given; or the reader has
refused the list or got fewer values than were written, which no further value repairs.

`ConnInfoProofs`. In one direction the string is followed piece by piece: after every parameter the one that is open is its
own, or the one in front of it, which has taken it (`Border`, `NextPiece`); from that come `EmptyTakesNext` and, if nothing
is empty, that all is read as given. In the other direction the first value that is not plain is followed: as long
as it lasts libpq has read less of it than was given (`Misread`), and from the next keyword on the
value is already another, or holds a keyword, or the string is refused (`Lost`), which nothing behind it changes.
`RefusedForAReason` follows the reader's mode only: without blanks and quotes in front it never comes near a refusal.

### Tables and query buffers

`TablesInv` (in `TablesProofs`) adds to the types that every row is what the server stored of the values `QParams` wrote
(`RowsAreStored`), that `select` returned rows that are still so (`SeenIsStored`) and that a refused row would be refused
again (`RefusedNow`). The properties are then about one row: `ComesBack`, `DoesNotComeBack` and `Fits` follow it through
`QParams`, the column types and `getResult`.

`RoundedIsEnough` is the arithmetic of `CStringProofs`: rounding up leaves room behind a text exactly if it does not end
with a page. `PartialPageIsSafe` alone is not inductive, since a byte of the text could be another buffer's end; that
buffers are apart (`BuffersApart`, from `Build`, which only takes pages nobody has), and not empty, is the rest of the invariant `Inv`.

### Memory

None of the properties of `Memory` is inductive: that the block about to be freed is live depends on every operation before
it. `MemoryInv` (in `MemoryProofs`) says what a running call holds, and will free on its way out, as a function of its program and of how many
of its operations are done (`RunsItsProgram`, with `HeldAfter` and `DeferredAfter`); `HandedOver` says what a call
that is over has given to its caller, which is what `deinit` starts from. With that, a step of a running call is one
operation further in its program (`Goes`), and every property of a state is a property of a program at a position.

What the programs have in common is `WellFormed`: the last operation is the only one that ends a call, frees and defers find their blocks
held (`FreesLive`), and at a `try` nothing is at risk that must not be lost. `EndsWith` says what a program returns and what is
left then, `GivesBack` what each return value stands for. The programs of fixed length are walked
through one operation after the other, on each answer (`InitOk` to `CreateFails`). The others have a loop whose
length is the size of a result or tuple, in which every operation allocates (`CopyResult`, `FormatStrings`,
`FormatNumbers`, from `ElementsOfFlattened`: `FlattenSeq` has the elements of its parts). For such a
loop it is enough to know which blocks its operations name: while it runs, what is held is between what was held before and
that with all of those (`HeldInLoop`), and behind it it is the latter (`AroundALoop`).
`Programs` brings every call and answer together, and `AtAnOperation` carries it to the state. Then there is one lemma
for each kind of step: `OperationRuns`, `FailureEnds`, `PanicEnds`, `ReturnEnds`, `DeinitKeeps`, `CallStarts`.

### What the proofs found

* `RefusalHasACause` was false for a struct without fields: `VALUES ()` is a syntax error. No struct of the run was
  empty; it has one now, and the property names the case.
* The cases of `Stored` and of `ReadValue` overlapped, which TLC resolves by taking the first and the
  logic does not. They are disjoint now.

### Only model-checked

`HangNeedsHolder`, since liveness is outside of the prover's reach. The properties of the three runs that end in a
violation are false of the code and so have nothing to prove.

## Not modelled

* `src/pq`: PostgreSQL's installed headers and binaries, which are all but a few hundred lines of the repository
  (the map's share of the repository is near zero for that reason, while of the 372 lines of `psql.zig` nearly all
  are mapped). None of this code is the project's and none of it has bodies to model; its behaviour
  is in `Libpq`, `Server` and the parts marked external, as far as the wrapper sees it.
* Wording and printing (`printResult`, `printQueryResult`), names longer than 63 bytes, the tests, the build.
* Use of a `psql` value after `close`, a second `close`, or use from two threads at once: undefined behaviour that no
  example of the repository shows and no code of it guards against, so any outcome would be the model's invention.
* `connectionStatus`: written once, read nowhere; there is no behaviour to model.
* COPY TO STDOUT: for `execQuery` as an empty query is, a failure that leaves the block as it was.
* Texts of several statements: `execQuery` passes the text on unread and looks at the last result only. What the server
  does with the statements in it (an implicit transaction, undone as far back as the last COMMIT) is no code of this repository.
* Values given to `insert` that close their parenthesis and go on with more than RETURNING: further statements in the same text (as for
  `execQuery`), or ON CONFLICT, with which a duplicate is answered as a success.
* Asynchronous libpq, notices, cursors, prepared statements: not used.

## State of the project

Every part of `psql.zig` with behaviour is modelled, and every invariant, every action property and the refinement that a
passing run checks is also proved. What would come next depends on the code: a timeout around `PQexec` would make a stronger
liveness property than `HangNeedsHolder` possible, and each of the leaks repaired would take a case out of `Leak`.
