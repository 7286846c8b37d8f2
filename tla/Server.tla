------------------------------- MODULE Server -------------------------------
(***************************************************************************)
(* The PostgreSQL server, as psql.zig uses it: sessions that run one       *)
(* statement at a time against one table with a primary key, and the       *)
(* catalog entry createTableFor adds.  A key and a catalog entry are both  *)
(* an entry of a unique index, so both are inserted by the same rule.      *)
(*                                                                         *)
(* An autocommit statement is a transaction of its own.  Inside a block an *)
(* inserted entry is pending: invisible to the others, but a session that  *)
(* wants the same entry waits for the block to end.  An error aborts the   *)
(* block and drops what it had pending at once; the block then rejects     *)
(* everything but COMMIT and ROLLBACK, and COMMIT of an aborted block is   *)
(* answered like any successful command.                                   *)
(***************************************************************************)
EXTENDS Libpq

CONSTANTS Keys,      \* primary key values of the table insert() writes to
          Table,     \* the catalog entry of the table createTableFor() makes
          Sessions,  \* backend slots of the server (max_connections)
          NoEntry    \* the entry of a statement that inserts nothing

ASSUME ServerAssumption ==
    /\ Table \notin Keys
    /\ NoEntry \notin Keys \cup {Table}

VARIABLES committed,  \* entries every session can see
          phase,      \* what each session is doing
          txn,        \* each session's transaction block
          pend,       \* entries each session's open block has inserted
          stmt        \* the statement each session was given last

serverVars == <<committed, phase, txn, pend, stmt>>

Entries == Keys \cup {Table}

(* An insert with a RETURNING clause is answered with rows.                *)
InsertTexts  == {"insert", "returning"}

Plain(kind)  == [kind |-> kind, entry |-> NoEntry]
InsertOf(text, k) == [kind |-> text, entry |-> k]
CreateTable  == [kind |-> "create", entry |-> Table]

(* "bad" is any statement the server refuses: a syntax error, a missing    *)
(* table, a value that does not fit.  "empty" has no statement in it, and  *)
(* "copy" is COPY ... FROM STDIN.                                          *)
PlainKinds == {"none", "begin", "commit", "rollback", "empty", "bad", "select", "copy"}

Statements == {Plain(kind) : kind \in PlainKinds}
                \cup {InsertOf(text, k) : text \in InsertTexts, k \in Keys}
                \cup {CreateTable}

ServerTypeOK ==
    /\ committed \in SUBSET Entries
    /\ phase \in [Sessions -> {"free", "idle", "copyin", "run", "create"}]
    /\ txn \in [Sessions -> {"idle", "open", "failed"}]
    /\ pend \in [Sessions -> SUBSET Entries]
    /\ stmt \in [Sessions -> Statements]

ServerInit ==
    /\ committed = {}
    /\ phase = [s \in Sessions |-> "free"]
    /\ txn = [s \in Sessions |-> "idle"]
    /\ pend = [s \in Sessions |-> {}]
    /\ stmt = [s \in Sessions |-> Plain("none")]
-----------------------------------------------------------------------------
(* An error inside a block aborts it, releasing what it had pending.       *)
AbortBlock(s) ==
    /\ txn' = [txn EXCEPT ![s] = IF @ = "idle" THEN "idle" ELSE "failed"]
    /\ pend' = [pend EXCEPT ![s] = {}]

(* A connection is accepted on a free backend.                             *)
OpenSession(s) ==
    /\ phase[s] = "free"
    /\ phase' = [phase EXCEPT ![s] = "idle"]
    /\ UNCHANGED <<committed, txn, pend, stmt>>

(* PQexec on a session left in COPY IN first ends the COPY, which fails    *)
(* it, and then sends its own statement.                                   *)
Accept(s, st) ==
    /\ \/ phase[s] = "idle" /\ UNCHANGED <<txn, pend>>
       \/ phase[s] = "copyin" /\ AbortBlock(s)
    /\ phase' = [phase EXCEPT ![s] = "run"]
    /\ stmt' = [stmt EXCEPT ![s] = st]
    /\ UNCHANGED committed

(* The backend of a vanished client stops, whatever it was doing; its open *)
(* block is rolled back.                                                   *)
EndSession(s) ==
    /\ phase[s] # "free"
    /\ phase' = [phase EXCEPT ![s] = "free"]
    /\ txn' = [txn EXCEPT ![s] = "idle"]
    /\ pend' = [pend EXCEPT ![s] = {}]
    /\ stmt' = [stmt EXCEPT ![s] = Plain("none")]
    /\ UNCHANGED committed
-----------------------------------------------------------------------------
(* Running a statement.  r is the answer; the session is idle again after  *)
(* it, except that an accepted COPY waits for its data.                    *)
Answered(s) ==
    /\ phase' = [phase EXCEPT ![s] = "idle"]
    /\ stmt' = [stmt EXCEPT ![s] = Plain("none")]

RunBegin(s, r) ==
    /\ phase[s] = "run" /\ stmt[s].kind = "begin" /\ txn[s] # "failed"
    /\ r = Success("PGRES_COMMAND_OK")
    /\ txn' = [txn EXCEPT ![s] = "open"]
    /\ Answered(s)
    /\ UNCHANGED <<committed, pend>>

RunCommit(s, r) ==
    /\ phase[s] = "run" /\ stmt[s].kind = "commit"
    /\ r = Success("PGRES_COMMAND_OK")
    /\ committed' = committed \cup pend[s]
    /\ pend' = [pend EXCEPT ![s] = {}]
    /\ txn' = [txn EXCEPT ![s] = "idle"]
    /\ Answered(s)

RunRollback(s, r) ==
    /\ phase[s] = "run" /\ stmt[s].kind = "rollback"
    /\ r = Success("PGRES_COMMAND_OK")
    /\ pend' = [pend EXCEPT ![s] = {}]
    /\ txn' = [txn EXCEPT ![s] = "idle"]
    /\ Answered(s)
    /\ UNCHANGED committed

RunEmpty(s, r) ==
    /\ phase[s] = "run" /\ stmt[s].kind = "empty"
    /\ r = Success("PGRES_EMPTY_QUERY")
    /\ Answered(s)
    /\ UNCHANGED <<committed, txn, pend>>

RunSelect(s, r) ==
    /\ phase[s] = "run" /\ stmt[s].kind = "select" /\ txn[s] # "failed"
    /\ r = Success("PGRES_TUPLES_OK")
    /\ Answered(s)
    /\ UNCHANGED <<committed, txn, pend>>

RunCopy(s, r) ==
    /\ phase[s] = "run" /\ stmt[s].kind = "copy" /\ txn[s] # "failed"
    /\ r = Success("PGRES_COPY_IN")
    /\ phase' = [phase EXCEPT ![s] = "copyin"]
    /\ stmt' = [stmt EXCEPT ![s] = Plain("none")]
    /\ UNCHANGED <<committed, txn, pend>>

RunBad(s, r) ==
    /\ phase[s] = "run" /\ stmt[s].kind = "bad" /\ txn[s] # "failed"
    /\ r = Rejected("42601")
    /\ AbortBlock(s)
    /\ Answered(s)
    /\ UNCHANGED committed

(* In an aborted block everything but COMMIT, ROLLBACK and an empty query  *)
(* is refused.                                                             *)
RefuseInFailedBlock(s, r) ==
    /\ phase[s] = "run" /\ txn[s] = "failed"
    /\ stmt[s].kind \notin {"commit", "rollback", "empty"}
    /\ r = Rejected("25P02")
    /\ Answered(s)
    /\ UNCHANGED <<committed, txn, pend>>
-----------------------------------------------------------------------------
(* Unique-index insertion.                                                 *)
Claiming(s) ==
    \/ phase[s] = "run" /\ stmt[s].kind \in InsertTexts /\ txn[s] # "failed"
    \/ phase[s] = "create" /\ stmt[s].kind = "create"

HeldBy(s, t) == t # s /\ stmt[s].entry \in pend[t]

Waiting(s) == Claiming(s) /\ \E t \in Sessions : HeldBy(s, t)

ClaimFree(s, r) ==
    /\ Claiming(s) /\ ~ Waiting(s)
    /\ stmt[s].entry \notin committed \cup pend[s]
    /\ r = Success(IF stmt[s].kind = "returning" THEN "PGRES_TUPLES_OK"
                   ELSE "PGRES_COMMAND_OK")
    /\ \/ /\ txn[s] = "open"
          /\ pend' = [pend EXCEPT ![s] = @ \cup {stmt[s].entry}]
          /\ UNCHANGED committed
       \/ /\ txn[s] = "idle"
          /\ committed' = committed \cup {stmt[s].entry}
          /\ UNCHANGED pend
    /\ Answered(s)
    /\ UNCHANGED txn

ClaimTaken(s, r) ==
    /\ Claiming(s) /\ ~ Waiting(s)
    /\ stmt[s].entry \in committed \cup pend[s]
    /\ r = Rejected("23505")
    /\ AbortBlock(s)
    /\ Answered(s)
    /\ UNCHANGED committed

(* The deadlock detector aborts one session of a cycle of waiting ones.    *)
DeadlockVictim(s, r) ==
    /\ Waiting(s)
    /\ \E D \in SUBSET Sessions :
          /\ s \in D
          /\ \A x \in D : Claiming(x) /\ \E y \in D : HeldBy(x, y)
          /\ \A y \in D : \E x \in D : HeldBy(x, y)
    /\ r = Rejected("40P01")
    /\ AbortBlock(s)
    /\ Answered(s)
    /\ UNCHANGED committed

(* CREATE TABLE IF NOT EXISTS looks the name up first ...                  *)
CreateFindsTable(s, r) ==
    /\ phase[s] = "run" /\ stmt[s].kind = "create" /\ txn[s] # "failed"
    /\ Table \in committed \cup pend[s]
    /\ r = Success("PGRES_COMMAND_OK")
    /\ Answered(s)
    /\ UNCHANGED <<committed, txn, pend>>

(* ... and, not finding it, goes on to insert the catalog entry.           *)
CreateLookup(s) ==
    /\ phase[s] = "run" /\ stmt[s].kind = "create" /\ txn[s] # "failed"
    /\ Table \notin committed \cup pend[s]
    /\ phase' = [phase EXCEPT ![s] = "create"]
    /\ UNCHANGED <<committed, txn, pend, stmt>>

RunStatement(s, r) ==
    \/ RunBegin(s, r) \/ RunCommit(s, r) \/ RunRollback(s, r) \/ RunEmpty(s, r)
    \/ RunSelect(s, r) \/ RunCopy(s, r) \/ RunBad(s, r)
    \/ RefuseInFailedBlock(s, r)
    \/ ClaimFree(s, r) \/ ClaimTaken(s, r) \/ DeadlockVictim(s, r)
    \/ CreateFindsTable(s, r)
=============================================================================
