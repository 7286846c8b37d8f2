-------------------------------- MODULE Psql --------------------------------
(***************************************************************************)
(* The calls of the psql struct (psql.zig).  Each client is one psql value *)
(* used by one program: it makes one call at a time and blocks in PQexec   *)
(* until the result is there.  A query function runs in two steps: the     *)
(* code up to and including the send half of PQexec, and the code from     *)
(* PQexec's return to the function's own return.  Between the two the      *)
(* server, the other clients and the network move.  The code on either     *)
(* side touches nothing but the caller's own memory, so nothing is lost by *)
(* taking it in one step.  What the functions allocate and free is not     *)
(* here, only that an allocation can fail.                                 *)
(*                                                                         *)
(* The caller is assumed to use a psql value between init and close only.  *)
(***************************************************************************)
EXTENDS Server

CONSTANTS Clients,
          NoSession,     \* the link of a client whose socket is gone
          Ops,           \* the query functions the callers use
          ExecKinds,     \* the statements they hand to execQuery
          InsertKinds,   \* what the values they hand to insert end in
          AllocMayFail   \* TRUE if the page allocator can run out

ASSUME PsqlAssumption ==
    /\ NoSession \notin Sessions \cup Clients
    /\ Ops \subseteq {"execQuery", "select", "selectJoin", "insert", "createTableFor"}
    /\ ExecKinds \subseteq PlainKinds \ {"none"}
    /\ InsertKinds \subseteq InsertTexts
    /\ AllocMayFail \in BOOLEAN

VARIABLES pc,      \* start: no psql value; ready; exec: in PQexec; dead
          link,    \* the session its connection reaches
          call,    \* the call it is in
          answer   \* what the last step returned to its caller, if it did

clientVars == <<pc, link, call, answer>>
vars == <<serverVars, clientVars>>

Functions == {"none", "init", "close", "execQuery", "select", "selectJoin",
              "insert", "createTableFor"}
Calls == [op : Functions, stmt : Statements]
Bare(op) == [op |-> op, stmt |-> Plain("none")]
NoCall == Bare("none")

Values == {"none", "ok", "QueryFailed", "InsertionFailed", "PrimaryKeyDuplicate",
           "SelectJoinFailed", "ConnectionFailed", "NotAStruct", "OutOfMemory", "panic"}

Answers == [to : Clients \cup {NoSession}, call : Calls, val : Values]
NoAnswer == [to |-> NoSession, call |-> NoCall, val |-> "none"]

TypeOK ==
    /\ ServerTypeOK
    /\ pc \in [Clients -> {"start", "ready", "exec", "dead"}]
    /\ link \in [Clients -> Sessions \cup {NoSession}]
    /\ call \in [Clients -> Calls]
    /\ answer \in Answers

Init ==
    /\ ServerInit
    /\ pc = [c \in Clients |-> "start"]
    /\ link = [c \in Clients |-> NoSession]
    /\ call = [c \in Clients |-> NoCall]
    /\ answer = NoAnswer
-----------------------------------------------------------------------------
(* How a call ends.                                                        *)

Answer(c, cl, val) == answer' = [to |-> c, call |-> cl, val |-> val]

(* A query function returns val, or the error val.                         *)
Return(c, cl, val) ==
    /\ pc' = [pc EXCEPT ![c] = "ready"]
    /\ call' = [call EXCEPT ![c] = NoCall]
    /\ Answer(c, cl, val)

(* An assertion or an `unreachable` is hit: the whole program is gone.     *)
Panic(c, cl) ==
    /\ pc' = [pc EXCEPT ![c] = "dead"]
    /\ call' = [call EXCEPT ![c] = NoCall]
    /\ Answer(c, cl, "panic")
-----------------------------------------------------------------------------
(* init succeeds.                                                          *)
InitConnected(c) ==
    /\ pc[c] = "start"
    /\ \E s \in Sessions :
          /\ OpenSession(s)
          /\ link' = [link EXCEPT ![c] = s]
    /\ pc' = [pc EXCEPT ![c] = "ready"]
    /\ Answer(c, Bare("init"), "ok")
    /\ UNCHANGED call

(* init fails: the PGconn is finished and no psql value comes to be.       *)
InitFailed(c) ==
    /\ pc[c] = "start"
    /\ \/ Answer(c, Bare("init"), "ConnectionFailed")
       \/ AllocMayFail /\ Answer(c, Bare("init"), "OutOfMemory")
    /\ UNCHANGED <<serverVars, pc, link, call>>

(* Mutant: close forgets PQfinish.                                         *)
CloseWithoutFinish(c) ==
    /\ pc[c] = "ready"
    /\ pc' = [pc EXCEPT ![c] = "start"]
    /\ Answer(c, Bare("close"), "ok")
    /\ UNCHANGED <<serverVars, link, call>>

(* Mutant: close marks the value closed, a state no other code knows.      *)
CloseMarks(c) ==
    /\ pc[c] = "ready"
    /\ pc' = [pc EXCEPT ![c] = "closed"]
    /\ link' = [link EXCEPT ![c] = NoSession]
    /\ Answer(c, Bare("close"), "ok")
    /\ UNCHANGED <<serverVars, call>>

(* close: PQfinish hangs up and frees the PGconn without waiting for the   *)
(* server; the psql value must not be used again.                          *)
Close(c) ==
    /\ pc[c] = "ready"
    /\ pc' = [pc EXCEPT ![c] = "start"]
    /\ link' = [link EXCEPT ![c] = NoSession]
    /\ Answer(c, Bare("close"), "ok")
    /\ UNCHANGED <<serverVars, call>>
-----------------------------------------------------------------------------
(* From PQexec's return to the function's return, on the result r.         *)

(* Mutant: a command is no success, only rows are.                         *)
SucceededRowsOnly(r) == r.status = "PGRES_TUPLES_OK"

(* Mutant: whatever is no error is a success, COPY and nothing included.   *)
SucceededUnlessFatal(r) == r.status # "PGRES_FATAL_ERROR"

Succeeded(r) == r.status \in {"PGRES_TUPLES_OK", "PGRES_COMMAND_OK"}

ExecQueryReturn(c, cl, r) ==
    /\ cl.op = "execQuery"
    /\ \/ Succeeded(r) /\ Return(c, cl, "ok")
       \/ ~ Succeeded(r) /\ Return(c, cl, "QueryFailed")

(* getResult copies the rows out.  A failed allocPrint is returned to the  *)
(* caller; a failed append is `unreachable`.                               *)
GetResult(c, cl) ==
    \/ Return(c, cl, "ok")
    \/ AllocMayFail /\ Return(c, cl, "OutOfMemory")
    \/ AllocMayFail /\ Panic(c, cl)

SelectReturn(c, cl, r) ==
    /\ cl.op = "select"
    /\ \/ r.status = "PGRES_TUPLES_OK" /\ GetResult(c, cl)
       \/ r.status # "PGRES_TUPLES_OK" /\ Return(c, cl, "QueryFailed")

(* Mutant: the status is compared as insert does, with a command's.       *)
SelectJoinReturnWantsCommand(c, cl, r) ==
    /\ cl.op = "selectJoin"
    /\ \/ r.status = "PGRES_COMMAND_OK" /\ GetResult(c, cl)
       \/ r.status # "PGRES_COMMAND_OK" /\ Return(c, cl, "SelectJoinFailed")

SelectJoinReturn(c, cl, r) ==
    /\ cl.op = "selectJoin"
    /\ \/ r.status = "PGRES_TUPLES_OK" /\ GetResult(c, cl)
       \/ r.status # "PGRES_TUPLES_OK" /\ Return(c, cl, "SelectJoinFailed")

(* Mutant: a failure other than a duplicate falls through to the success.  *)
InsertReturnFallsThrough(c, cl, r) ==
    /\ cl.op = "insert"
    /\ \/ r.sqlstate = "23505" /\ Return(c, cl, "PrimaryKeyDuplicate")
       \/ r.sqlstate # "23505" /\ Return(c, cl, "ok")

(* Mutant: every failure is taken for a duplicate.                         *)
InsertReturnAllDuplicate(c, cl, r) ==
    /\ cl.op = "insert"
    /\ \/ r.status = "PGRES_COMMAND_OK" /\ Return(c, cl, "ok")
       \/ r.status # "PGRES_COMMAND_OK" /\ Return(c, cl, "PrimaryKeyDuplicate")

(* Mutant: the SQLSTATE is formatted before the status is looked at.       *)
InsertReturnStateFirst(c, cl, r) ==
    /\ cl.op = "insert"
    /\ \/ r.sqlstate = "none" /\ Panic(c, cl)
       \/ r.sqlstate = "23505" /\ Return(c, cl, "PrimaryKeyDuplicate")
       \/ r.sqlstate \notin {"none", "23505"} /\ Return(c, cl, "InsertionFailed")

(* insert looks at the SQLSTATE of whatever is no command's success, rows  *)
(* included.  Formatting a NULL SQLSTATE trips the assertion in            *)
(* std.mem.len; copying it can fail to allocate.                           *)
InsertReturn(c, cl, r) ==
    /\ cl.op = "insert"
    /\ \/ r.status = "PGRES_COMMAND_OK" /\ Return(c, cl, "ok")
       \/ /\ r.status # "PGRES_COMMAND_OK"
          /\ \/ r.sqlstate = "none" /\ Panic(c, cl)
             \/ /\ r.sqlstate # "none" /\ AllocMayFail
                /\ Return(c, cl, "OutOfMemory")
             \/ r.sqlstate = "23505" /\ Return(c, cl, "PrimaryKeyDuplicate")
             \/ /\ r.sqlstate \notin {"none", "23505"}
                /\ Return(c, cl, "InsertionFailed")

(* Mutant: createTableFor waits for rows, as select does.                  *)
CreateTableForReturnWantsRows(c, cl, r) ==
    /\ cl.op = "createTableFor"
    /\ \/ r.status = "PGRES_TUPLES_OK" /\ Return(c, cl, "ok")
       \/ r.status # "PGRES_TUPLES_OK" /\ Return(c, cl, "QueryFailed")

(* createTableFor returns what its call of execQuery returns.              *)
CreateTableForReturn(c, cl, r) ==
    /\ cl.op = "createTableFor"
    /\ \/ Succeeded(r) /\ Return(c, cl, "ok")
       \/ ~ Succeeded(r) /\ Return(c, cl, "QueryFailed")

ReturnFrom(c, cl, r) ==
    \/ ExecQueryReturn(c, cl, r) \/ SelectReturn(c, cl, r) \/ SelectJoinReturn(c, cl, r)
    \/ InsertReturn(c, cl, r) \/ CreateTableForReturn(c, cl, r)
-----------------------------------------------------------------------------
(* Making a call.                                                          *)

(* The function has built its query and enters PQexec, which sends it or   *)
(* finds the connection gone and gives the result at once.  No function    *)
(* looks at connectionStatus or PQstatus first.                            *)
EnterPQexec(c, op, st) ==
    /\ pc[c] = "ready" /\ op \in Ops
    /\ LET cl == [op |-> op, stmt |-> st] IN
       \/ /\ link[c] \in Sessions
          /\ Accept(link[c], st)
          /\ pc' = [pc EXCEPT ![c] = "exec"]
          /\ call' = [call EXCEPT ![c] = cl]
          /\ answer' = NoAnswer
       \/ /\ link[c] = NoSession
          /\ \E r \in {NullResult} \cup LostResults : ReturnFrom(c, cl, r)
          /\ UNCHANGED serverVars
    /\ UNCHANGED link

ExecQueryCall(c) ==
    \E kind \in ExecKinds : EnterPQexec(c, "execQuery", Plain(kind))

SelectCall(c) ==
    \E kind \in {"select", "bad"} : EnterPQexec(c, "select", Plain(kind))

SelectJoinCall(c) ==
    \E kind \in {"select", "bad"} : EnterPQexec(c, "selectJoin", Plain(kind))

(* The values are a text, which goes between the parentheses as it is: it  *)
(* can be refused, and it can close them and end in a RETURNING clause.    *)
InsertCall(c) ==
    \E st \in {InsertOf(text, k) : text \in InsertKinds, k \in Keys} \cup {Plain("bad")} :
        EnterPQexec(c, "insert", st)

(* The text is made of the struct's names, and refused if one of them is a *)
(* reserved word, or two columns have the same (see module Tables).        *)
CreateTableForCall(c) ==
    \E st \in {CreateTable, Plain("bad")} : EnterPQexec(c, "createTableFor", st)

(* createTableFor of a type that is not a struct, and the query buffer of  *)
(* any function failing to be allocated: nothing is sent.                  *)
RefusedCall(c) ==
    /\ pc[c] = "ready"
    /\ \E op \in Ops \ {"execQuery"} :
          \/ op = "createTableFor" /\ Return(c, Bare(op), "NotAStruct")
          \/ AllocMayFail /\ Return(c, Bare(op), "OutOfMemory")
    /\ UNCHANGED <<serverVars, link>>
-----------------------------------------------------------------------------
(* PQexec returns: with the server's answer, or for the loss of the        *)
(* connection.                                                             *)

Reply(s) ==
    \E c \in Clients :
        /\ link[c] = s
        /\ \E r \in Replies : RunStatement(s, r) /\ ReturnFrom(c, call[c], r)
        /\ UNCHANGED link

(* A session whose client is gone still runs what it was sent: seen from   *)
(* the client, this is the answer that was lost on its way.                *)
ReplyLost(s) ==
    /\ \A c \in Clients : link[c] # s
    /\ \E r \in Replies : RunStatement(s, r)
    /\ answer' = NoAnswer
    /\ UNCHANGED <<pc, link, call>>

Lookup(s) ==
    /\ CreateLookup(s)
    /\ answer' = NoAnswer
    /\ UNCHANGED <<pc, link, call>>

(* The network, or the server, drops the connection of a client that is in *)
(* PQexec: libpq hands back what it has.                                   *)
DropInCall(c) ==
    /\ pc[c] = "exec"
    /\ link' = [link EXCEPT ![c] = NoSession]
    /\ \E r \in LostResults : ReturnFrom(c, call[c], r)
    /\ UNCHANGED serverVars

(* ... or of any other client, which finds out at its next call.  The      *)
(* sockets of a program that has panicked are closed by the OS.            *)
DropIdle(c) ==
    /\ pc[c] \in {"ready", "dead"} /\ link[c] \in Sessions
    /\ link' = [link EXCEPT ![c] = NoSession]
    /\ answer' = NoAnswer
    /\ UNCHANGED <<serverVars, pc, call>>

(* A backend nobody is linked to any more notices and stops.               *)
Reap(s) ==
    /\ \A c \in Clients : link[c] # s
    /\ EndSession(s)
    /\ answer' = NoAnswer
    /\ UNCHANGED <<pc, link, call>>

(* A program that panicked is started again.                               *)
Restart(c) ==
    /\ pc[c] = "dead" /\ link[c] = NoSession
    /\ pc' = [pc EXCEPT ![c] = "start"]
    /\ answer' = NoAnswer
    /\ UNCHANGED <<serverVars, link, call>>
-----------------------------------------------------------------------------
CallerStep(c) ==
    \/ InitConnected(c) \/ InitFailed(c) \/ Close(c)
    \/ ExecQueryCall(c) \/ SelectCall(c) \/ SelectJoinCall(c)
    \/ InsertCall(c) \/ CreateTableForCall(c) \/ RefusedCall(c)

EnvironmentStep(c) == DropInCall(c) \/ DropIdle(c) \/ Restart(c)

ServerStep(s) == Reply(s) \/ ReplyLost(s) \/ Lookup(s) \/ Reap(s)

Next ==
    \/ \E c \in Clients : CallerStep(c) \/ EnvironmentStep(c)
    \/ \E s \in Sessions : ServerStep(s)

Spec == Init /\ [][Next]_vars

(* The server goes on with what it was sent as long as it can, and in the  *)
(* end notices that a client has left; the OS closes the sockets of a dead *)
(* program.  Nothing obliges a caller to make its next call, a connection  *)
(* to break, or the server to wake the waiters of a lock in turn.          *)
Fairness ==
    /\ \A s \in Sessions : WF_vars(Reply(s) \/ Lookup(s) \/ Reap(s))
    /\ \A c \in Clients : WF_vars(pc[c] = "dead" /\ DropIdle(c))

FairSpec == Spec /\ Fairness
-----------------------------------------------------------------------------
(* What ties clients, sessions and the table together.                     *)
Linked(c) == link[c] \in Sessions
Busy(s)   == phase[s] \in {"run", "create"}

(* No two clients share a session, and none has one that is not there.     *)
LinksAreOwn ==
    \A c \in Clients : Linked(c) =>
        /\ phase[link[c]] # "free"
        /\ \A d \in Clients : link[d] = link[c] => d = c

(* The statement a client waits for is the one its session was given.      *)
CallShape(cl) ==
    /\ cl.op = "execQuery" => cl.stmt.kind \in ExecKinds
    /\ cl.op \in {"select", "selectJoin"} => cl.stmt.kind \in {"select", "bad"}
    /\ cl.op = "insert" => cl.stmt.kind \in InsertTexts \cup {"bad"}
    /\ cl.op = "createTableFor" => cl.stmt.kind \in {"create", "bad"}

CallsMatch ==
    \A c \in Clients : call[c].op # "none" =>
        /\ pc[c] = "exec" /\ Linked(c)
        /\ stmt[link[c]] = call[c].stmt
        /\ CallShape(call[c])

PendingOnlyIfOpen ==
    \A s \in Sessions :
        /\ txn[s] # "open" => pend[s] = {}
        /\ phase[s] = "free" => txn[s] = "idle"

(* A client is in a call exactly while its session runs a statement, and a *)
(* psql value that is not there holds no session.                          *)
CallsRun ==
    \A c \in Clients :
        /\ pc[c] = "exec" => Linked(c) /\ call[c].op \in Ops /\ call[c].stmt.kind # "none"
        /\ pc[c] # "exec" => call[c] = NoCall
        /\ pc[c] = "start" => link[c] = NoSession
        /\ Linked(c) => (Busy(link[c]) <=> pc[c] = "exec")

(* An entry is in the table, or pending in one block, or neither: never in *)
(* two of these places.                                                    *)
EntriesAreUnique ==
    \A s \in Sessions :
        /\ pend[s] \cap committed = {}
        /\ \A t \in Sessions \ {s} : pend[s] \cap pend[t] = {}

SystemInv ==
    /\ TypeOK
    /\ LinksAreOwn
    /\ CallsMatch
    /\ PendingOnlyIfOpen
    /\ CallsRun
    /\ EntriesAreUnique
-----------------------------------------------------------------------------
(* PQexec is called with no timeout.  A call of c that never returns can   *)
(* only be kept waiting by another client that is, again and again, in the *)
(* middle of a BEGIN block and not in a call: never by the server, by a    *)
(* lost connection, by a dead program or by two calls waiting on each      *)
(* other.                                                                  *)
OpenBetweenCalls(d) ==
    pc[d] = "ready" /\ link[d] \in Sessions /\ txn[link[d]] = "open"

HangNeedsHolder ==
    \A c \in Clients :
        \/ []<>(pc[c] # "exec")
        \/ []<>(\E d \in Clients \ {c} : OpenBetweenCalls(d))
=============================================================================
