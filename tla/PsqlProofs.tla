----------------------------- MODULE PsqlProofs -----------------------------
(***************************************************************************)
(* Proofs about Psql and PsqlHistory, for any number of clients, sessions  *)
(* and keys, any set of functions in use, and with or without allocation   *)
(* failures.                                                               *)
(***************************************************************************)
EXTENDS PsqlHistory, TLAPS

USE ServerAssumption, PsqlAssumption

LEMMA StatementsAreTyped ==
    /\ \A kind \in PlainKinds : Plain(kind) \in Statements
    /\ \A text \in InsertTexts, k \in Keys : InsertOf(text, k) \in Statements
    /\ CreateTable \in Statements
    /\ \A op \in Functions, st \in Statements : [op |-> op, stmt |-> st] \in Calls
    /\ NoCall \in Calls
    /\ NoAnswer \in Answers
BY DEF Statements, PlainKinds, Calls, Functions, NoCall, Bare, NoAnswer, Answers, Values, Plain,
   InsertTexts

(* Every statement the server runs leaves it in a typed state.             *)
LEMMA StatementTypes ==
    ASSUME ServerTypeOK, NEW s \in Sessions, NEW r, RunStatement(s, r)
    PROVE  ServerTypeOK'
<1> USE StatementsAreTyped DEF ServerTypeOK, Answered, AbortBlock, PlainKinds
<1>1. CASE RunBegin(s, r) BY <1>1 DEF RunBegin
<1>2. CASE RunCommit(s, r) BY <1>2 DEF RunCommit
<1>3. CASE RunRollback(s, r) BY <1>3 DEF RunRollback
<1>4. CASE RunEmpty(s, r) BY <1>4 DEF RunEmpty
<1>5. CASE RunSelect(s, r) BY <1>5 DEF RunSelect
<1>6. CASE RunCopy(s, r) BY <1>6 DEF RunCopy
<1>7. CASE RunBad(s, r) BY <1>7 DEF RunBad
<1>8. CASE RefuseInFailedBlock(s, r) BY <1>8 DEF RefuseInFailedBlock
<1>9. CASE ClaimFree(s, r)
  <2>1. stmt[s].entry \in Entries
    BY <1>9 DEF ClaimFree, Claiming, Statements, Plain, InsertOf, InsertTexts, CreateTable, Entries
  <2>2. QED BY <1>9, <2>1 DEF ClaimFree
<1>10. CASE ClaimTaken(s, r) BY <1>10 DEF ClaimTaken
<1>11. CASE DeadlockVictim(s, r) BY <1>11 DEF DeadlockVictim
<1>12. CASE CreateFindsTable(s, r) BY <1>12 DEF CreateFindsTable
<1>13. QED
  BY <1>1, <1>2, <1>3, <1>4, <1>5, <1>6, <1>7, <1>8, <1>9, <1>10, <1>11, <1>12
  DEF RunStatement
-----------------------------------------------------------------------------
(* What a query function does with the result r of PQexec.                 *)
Outcome(c, cl, r, v) ==
    /\ cl.op \notin {"none", "init", "close"}
    /\ Answer(c, cl, v)
    /\ call' = [call EXCEPT ![c] = NoCall]
    /\ pc' = [pc EXCEPT ![c] = IF v = "panic" THEN "dead" ELSE "ready"]
    /\ v # "none" /\ (v = "ok" => Succeeded(r))
    /\ Succeeded(r) /\ cl.op \notin {"select", "selectJoin", "insert"} => v = "ok"
    /\ r.status = "PGRES_COMMAND_OK" /\ cl.op = "insert" => v = "ok"
    /\ r.status # "PGRES_COMMAND_OK" /\ r.sqlstate = "none" /\ cl.op = "insert" => v = "panic"
    /\ r.status = "PGRES_TUPLES_OK" /\ cl.op \in {"select", "selectJoin"} =>
         v \in {"ok", "OutOfMemory", "panic"}
    /\ v = "PrimaryKeyDuplicate" => r.sqlstate = "23505" /\ cl.op = "insert"
    /\ v = "panic" => \/ cl.op = "insert" /\ ~ Succeeded(r) /\ r.sqlstate = "none"
                      \/ cl.op = "insert" /\ r.status = "PGRES_TUPLES_OK"
                      \/ /\ cl.op \in {"select", "selectJoin"} /\ AllocMayFail
                         /\ r.status = "PGRES_TUPLES_OK"

LEMMA ReturnFromFacts ==
    ASSUME NEW c \in Clients, NEW cl, NEW r, ReturnFrom(c, cl, r)
    PROVE  \E v \in Values : Outcome(c, cl, r, v)
<1> USE DEF Outcome, Return, Panic, Values
<1>1. CASE ExecQueryReturn(c, cl, r) BY <1>1 DEF ExecQueryReturn
<1>2. CASE SelectReturn(c, cl, r) BY <1>2 DEF SelectReturn, GetResult, Succeeded
<1>3. CASE SelectJoinReturn(c, cl, r) BY <1>3 DEF SelectJoinReturn, GetResult, Succeeded
<1>4. CASE InsertReturn(c, cl, r) BY <1>4 DEF InsertReturn, Succeeded
<1>5. CASE CreateTableForReturn(c, cl, r) BY <1>5 DEF CreateTableForReturn
<1>6. QED BY <1>1, <1>2, <1>3, <1>4, <1>5 DEF ReturnFrom

LEMMA ReturnTypes ==
    ASSUME TypeOK, NEW c \in Clients, NEW cl \in Calls, NEW r, ReturnFrom(c, cl, r)
    PROVE  /\ pc' \in [Clients -> {"start", "ready", "exec", "dead"}]
           /\ call' \in [Clients -> Calls]
           /\ answer' \in Answers
<1>1. PICK v \in Values : Outcome(c, cl, r, v)
  BY ReturnFromFacts
<1>2. QED
  BY <1>1, StatementsAreTyped DEF Outcome, Answer, Answers, TypeOK

LEMMA EnterTypes ==
    ASSUME TypeOK, NEW c \in Clients, NEW op \in Functions, NEW st \in Statements,
           EnterPQexec(c, op, st)
    PROVE  TypeOK'
<1> DEFINE cl == [op |-> op, stmt |-> st]
<1>1. cl \in Calls
  BY StatementsAreTyped
<1>2. CASE link[c] \in Sessions /\ Accept(link[c], st)
           /\ pc' = [pc EXCEPT ![c] = "exec"] /\ call' = [call EXCEPT ![c] = cl]
           /\ answer' = NoAnswer
  <2>1. ServerTypeOK'
    BY <1>2 DEF TypeOK, ServerTypeOK, Accept, AbortBlock
  <2>2. QED
    BY <1>1, <1>2, <2>1, StatementsAreTyped DEF TypeOK, EnterPQexec
<1>3. CASE link[c] = NoSession /\ UNCHANGED serverVars
           /\ \E r \in {NullResult} \cup LostResults : ReturnFrom(c, cl, r)
  <2>1. PICK r : ReturnFrom(c, cl, r)
    BY <1>3
  <2>2. ServerTypeOK'
    BY <1>3 DEF TypeOK, ServerTypeOK, serverVars
  <2>3. QED
    BY <1>1, <2>1, <2>2, ReturnTypes DEF TypeOK, EnterPQexec
<1>4. QED
  BY <1>2, <1>3 DEF EnterPQexec

LEMMA CallerTypes ==
    ASSUME TypeOK, NEW c \in Clients, CallerStep(c)
    PROVE  TypeOK'
<1> USE StatementsAreTyped DEF TypeOK, PlainKinds
<1>1. CASE InitConnected(c)
  <2>1. PICK s \in Sessions : OpenSession(s) /\ link' = [link EXCEPT ![c] = s]
    BY <1>1 DEF InitConnected
  <2>2. ServerTypeOK'
    BY <2>1 DEF OpenSession, ServerTypeOK
  <2>3. QED
    BY <1>1, <2>1, <2>2 DEF InitConnected, Answer, Answers, Values, Bare, Calls, Functions
<1>2. CASE InitFailed(c)
  BY <1>2 DEF InitFailed, Answer, Answers, Values, Bare, Calls, Functions, ServerTypeOK, serverVars
<1>3. CASE Close(c)
  BY <1>3 DEF Close, Answer, Answers, Values, Bare, Calls, Functions, ServerTypeOK, serverVars
<1>4. CASE ExecQueryCall(c)
  BY <1>4, EnterTypes DEF ExecQueryCall, Functions
<1>5. CASE SelectCall(c)
  BY <1>5, EnterTypes DEF SelectCall, Functions
<1>6. CASE SelectJoinCall(c)
  BY <1>6, EnterTypes DEF SelectJoinCall, Functions
<1>7. CASE InsertCall(c)
  <2>1. \A st \in {InsertOf(text, k) : text \in InsertKinds, k \in Keys} \cup {Plain("bad")} :
           st \in Statements
    OBVIOUS
  <2>2. QED BY <1>7, <2>1, EnterTypes DEF InsertCall, Functions
<1>8. CASE CreateTableForCall(c)
  BY <1>8, EnterTypes DEF CreateTableForCall, Functions
<1>9. CASE RefusedCall(c)
  <2>1. \A op \in Ops : Bare(op) \in Calls
    BY DEF Bare, Calls, Functions
  <2>2. QED
    BY <1>9, <2>1 DEF RefusedCall, Return, Answer, Answers, Values, ServerTypeOK, serverVars
<1>10. QED
  BY <1>1, <1>2, <1>3, <1>4, <1>5, <1>6, <1>7, <1>8, <1>9 DEF CallerStep

LEMMA EnvironmentTypes ==
    ASSUME TypeOK, NEW c \in Clients, EnvironmentStep(c)
    PROVE  TypeOK'
<1> USE StatementsAreTyped DEF TypeOK, ServerTypeOK, serverVars
<1>1. CASE DropInCall(c)
  BY <1>1, ReturnTypes DEF DropInCall
<1>2. CASE DropIdle(c)
  BY <1>2 DEF DropIdle
<1>3. CASE Restart(c)
  BY <1>3 DEF Restart
<1>4. QED
  BY <1>1, <1>2, <1>3 DEF EnvironmentStep

LEMMA ServerTypes ==
    ASSUME TypeOK, NEW s \in Sessions, ServerStep(s)
    PROVE  TypeOK'
<1> USE StatementsAreTyped DEF TypeOK
<1>1. CASE Reply(s)
  <2>1. PICK c \in Clients, r \in Replies :
           RunStatement(s, r) /\ ReturnFrom(c, call[c], r) /\ UNCHANGED link
    BY <1>1 DEF Reply
  <2>2. ServerTypeOK'
    BY <2>1, StatementTypes
  <2>3. QED BY <2>1, <2>2, ReturnTypes
<1>2. CASE ReplyLost(s)
  BY <1>2, StatementTypes DEF ReplyLost
<1>3. CASE Lookup(s)
  BY <1>3 DEF Lookup, CreateLookup, ServerTypeOK
<1>4. CASE Reap(s)
  BY <1>4 DEF Reap, EndSession, ServerTypeOK, PlainKinds
<1>5. QED
  BY <1>1, <1>2, <1>3, <1>4 DEF ServerStep

LEMMA TypeStep == TypeOK /\ [Next]_vars => TypeOK'
<1> SUFFICES ASSUME TypeOK, [Next]_vars PROVE TypeOK'
  OBVIOUS
<1>1. CASE UNCHANGED vars
  BY <1>1 DEF vars, serverVars, clientVars, TypeOK, ServerTypeOK
<1>2. CASE Next
  BY <1>2, CallerTypes, EnvironmentTypes, ServerTypes DEF Next
<1>3. QED BY <1>1, <1>2

LEMMA TypeInit == Init => TypeOK
BY StatementsAreTyped DEF Init, ServerInit, TypeOK, ServerTypeOK, PlainKinds

(* Whatever the callers do and however many there are, every variable of   *)
(* the system keeps the values the code and the server can give it.        *)
THEOREM TypeCorrect == Spec => []TypeOK
<1>1. QED BY TypeInit, TypeStep, PTL DEF Spec
-----------------------------------------------------------------------------
(* What running a statement does to its session, to the others and to the  *)
(* table, by the kind of the statement and of the answer.                  *)
StatementEffect(s, r) ==
    LET kind == stmt[s].kind
        entry == stmt[s].entry
    IN
    /\ phase[s] \in {"run", "create"}
    /\ phase'[s] \in {"idle", "copyin"}
    /\ phase'[s] = "copyin" => ~ Succeeded(r)
    /\ committed \subseteq committed'
    /\ \A t \in Sessions \ {s} :
          phase'[t] = phase[t] /\ txn'[t] = txn[t] /\ pend'[t] = pend[t] /\ stmt'[t] = stmt[t]
    /\ Succeeded(r) /\ kind = "begin" =>
          /\ r.status = "PGRES_COMMAND_OK"
          /\ txn[s] # "failed" /\ txn'[s] = "open" /\ pend'[s] = pend[s]
    /\ Succeeded(r) /\ kind \in {"commit", "rollback"} =>
          /\ r.status = "PGRES_COMMAND_OK"
          /\ txn'[s] = "idle" /\ pend'[s] = {}
          /\ kind = "commit" => pend[s] \subseteq committed'
    /\ Succeeded(r) /\ kind \in {"insert", "returning", "create"} =>
          /\ r.status = IF kind = "returning" THEN "PGRES_TUPLES_OK" ELSE "PGRES_COMMAND_OK"
          /\ txn[s] # "failed" /\ txn'[s] = txn[s]
          /\ pend[s] \subseteq pend'[s] /\ pend'[s] \subseteq pend[s] \cup {entry}
          /\ entry \in pend'[s] \cup committed'
          /\ txn[s] = "idle" => pend'[s] = pend[s]
    /\ Succeeded(r) => r.sqlstate = "none"
    /\ Succeeded(r) =>
          kind \in {"begin", "commit", "rollback", "insert", "returning", "create", "select"}
    /\ Succeeded(r) /\ kind = "select" =>
          /\ r.status = "PGRES_TUPLES_OK"
          /\ txn'[s] = txn[s] /\ pend'[s] = pend[s]
    /\ ~ Succeeded(r) /\ kind \in {"empty", "copy"} =>
          txn'[s] = txn[s] /\ pend'[s] = pend[s]
    /\ ~ Succeeded(r) /\ kind \notin {"empty", "copy"} =>
          /\ txn'[s] = IF txn[s] = "idle" THEN "idle" ELSE "failed"
          /\ pend'[s] = {}
    /\ ~ Succeeded(r) /\ r.sqlstate = "none" => kind \in {"empty", "copy"}
    /\ r.sqlstate = "23505" => entry \in committed \cup pend[s]
    /\ ~ Succeeded(r) /\ kind = "create" /\ txn[s] = "idle" => Table \in committed

LEMMA StatementEffects ==
    ASSUME ServerTypeOK, PendingOnlyIfOpen, NEW s \in Sessions, NEW r, RunStatement(s, r)
    PROVE  StatementEffect(s, r)
<1> USE DEF StatementEffect, ServerTypeOK, PendingOnlyIfOpen, Answered, AbortBlock,
            Success, Rejected, Succeeded
<1>0. stmt[s].kind = "create" => stmt[s].entry = Table
  BY DEF Statements, Plain, InsertOf, CreateTable, PlainKinds, InsertTexts
<1>1. CASE RunBegin(s, r) BY <1>1 DEF RunBegin
<1>2. CASE RunCommit(s, r) BY <1>2 DEF RunCommit
<1>3. CASE RunRollback(s, r) BY <1>3 DEF RunRollback
<1>4. CASE RunEmpty(s, r) BY <1>4 DEF RunEmpty
<1>5. CASE RunSelect(s, r) BY <1>5 DEF RunSelect
<1>6. CASE RunCopy(s, r) BY <1>6 DEF RunCopy
<1>7. CASE RunBad(s, r) BY <1>7 DEF RunBad
<1>8. CASE RefuseInFailedBlock(s, r) BY <1>8 DEF RefuseInFailedBlock
<1>9. CASE ClaimFree(s, r) BY <1>9 DEF ClaimFree, Claiming, InsertTexts
<1>10. CASE ClaimTaken(s, r) BY <1>10, <1>0 DEF ClaimTaken, Claiming, InsertTexts
<1>11. CASE DeadlockVictim(s, r)
  <2>1. Claiming(s) /\ pend[s] # {}
    BY <1>11 DEF DeadlockVictim, HeldBy
  <2>2. QED BY <1>11, <2>1 DEF DeadlockVictim, Claiming, InsertTexts
<1>12. CASE CreateFindsTable(s, r)
  BY <1>12, <1>0 DEF CreateFindsTable
<1>13. QED
  BY <1>1, <1>2, <1>3, <1>4, <1>5, <1>6, <1>7, <1>8, <1>9, <1>10, <1>11, <1>12
  DEF RunStatement
-----------------------------------------------------------------------------
(* The unique index at work: no statement makes an entry pending in two    *)
(* blocks, or pending and committed.                                       *)
LEMMA StatementKeepsUnique ==
    ASSUME ServerTypeOK, PendingOnlyIfOpen, EntriesAreUnique, NEW s \in Sessions, NEW r,
           RunStatement(s, r)
    PROVE  EntriesAreUnique'
<1> USE DEF ServerTypeOK, EntriesAreUnique
<1>1. CASE UNCHANGED committed /\ pend'[s] \subseteq pend[s]
           /\ \A t \in Sessions \ {s} : pend'[t] = pend[t]
  BY <1>1
<1>2. CASE RunCommit(s, r)
  BY <1>2 DEF RunCommit
<1>3. CASE ClaimFree(s, r)
  <2>1. \A t \in Sessions : stmt[s].entry \notin pend[t] \cup committed
    BY <1>3 DEF ClaimFree, Waiting, HeldBy
  <2>2. CASE committed' = committed \cup {stmt[s].entry} /\ UNCHANGED pend
    BY <2>1, <2>2
  <2>3. CASE pend' = [pend EXCEPT ![s] = @ \cup {stmt[s].entry}] /\ UNCHANGED committed
    BY <2>1, <2>3
  <2>4. QED BY <1>3, <2>2, <2>3 DEF ClaimFree
<1>4. QED
  BY <1>1, <1>2, <1>3 DEF RunStatement, RunBegin, RunRollback, RunEmpty, RunSelect, RunCopy,
     RunBad, RefuseInFailedBlock, ClaimTaken, DeadlockVictim, CreateFindsTable, AbortBlock
-----------------------------------------------------------------------------
LEMMA SystemInit == Init => SystemInv
BY TypeInit DEF Init, ServerInit, SystemInv, LinksAreOwn, CallsMatch, NoCall, Bare,
   PendingOnlyIfOpen, CallsRun, EntriesAreUnique, Linked, Busy

(* A session that answers its client.                                      *)
LEMMA ReplyKeepsSystem ==
    ASSUME SystemInv, TypeOK', NEW s \in Sessions, Reply(s)
    PROVE  SystemInv'
<1> USE DEF Linked, Busy, SystemInv, TypeOK
<1>1. PICK c \in Clients, r \in Replies :
         link[c] = s /\ RunStatement(s, r) /\ ReturnFrom(c, call[c], r) /\ UNCHANGED link
  BY DEF Reply
<1>2. PICK v \in Values : Outcome(c, call[c], r, v)
  BY <1>1, ReturnFromFacts
<1>3. StatementEffect(s, r)
  BY <1>1, StatementEffects
<1>4. /\ pc[c] = "exec" /\ stmt[s] = call[c].stmt /\ CallShape(call[c])
      /\ \A d \in Clients \ {c} : link[d] # s
  BY <1>1, <1>2 DEF CallsMatch, LinksAreOwn, Outcome
<1>5. /\ pc' = [pc EXCEPT ![c] = IF v = "panic" THEN "dead" ELSE "ready"]
      /\ call' = [call EXCEPT ![c] = NoCall]
  BY <1>2 DEF Outcome
<1>6. LinksAreOwn'
  BY <1>1, <1>3 DEF LinksAreOwn, StatementEffect
<1>7. CallsMatch'
  BY <1>1, <1>3, <1>4, <1>5 DEF LinksAreOwn, CallsMatch, StatementEffect, NoCall, Bare, CallShape
<1>8. PendingOnlyIfOpen'
  BY <1>1, <1>3 DEF ServerTypeOK, PendingOnlyIfOpen, StatementEffect
<1>9. CallsRun'
  BY <1>1, <1>3, <1>4, <1>5 DEF CallsRun, StatementEffect
<1>10. EntriesAreUnique'
  BY <1>1, StatementKeepsUnique
<1>11. QED BY <1>6, <1>7, <1>8, <1>9, <1>10

(* A call that ends without the server: its client has lost its session.   *)
LEMMA LossKeepsSystem ==
    ASSUME SystemInv, TypeOK', NEW c \in Clients, NEW cl, NEW r, ReturnFrom(c, cl, r),
           pc[c] \in {"ready", "exec"}, link' = [link EXCEPT ![c] = NoSession],
           UNCHANGED serverVars
    PROVE  SystemInv'
<1> USE DEF Linked, Busy, SystemInv, TypeOK, serverVars
<1>1. PICK v \in Values : Outcome(c, cl, r, v)
  BY ReturnFromFacts
<1>2. /\ pc' = [pc EXCEPT ![c] = IF v = "panic" THEN "dead" ELSE "ready"]
      /\ call' = [call EXCEPT ![c] = NoCall]
  BY <1>1 DEF Outcome
<1>3. LinksAreOwn' BY DEF LinksAreOwn
<1>4. CallsMatch' BY <1>2 DEF CallsMatch, CallShape, NoCall, Bare
<1>5. PendingOnlyIfOpen' BY DEF PendingOnlyIfOpen
<1>6. CallsRun' BY <1>2 DEF CallsRun
<1>7. EntriesAreUnique' BY DEF EntriesAreUnique
<1>8. QED BY <1>3, <1>4, <1>5, <1>6, <1>7

LEMMA EnterKeepsSystem ==
    ASSUME SystemInv, TypeOK', NEW c \in Clients, NEW op \in Ops, NEW st \in Statements,
           st.kind # "none", CallShape([op |-> op, stmt |-> st]), EnterPQexec(c, op, st)
    PROVE  SystemInv'
<1> USE DEF Linked, Busy, SystemInv, TypeOK
<1> DEFINE cl == [op |-> op, stmt |-> st]
<1>1. CASE link[c] \in Sessions /\ Accept(link[c], st)
           /\ pc' = [pc EXCEPT ![c] = "exec"] /\ call' = [call EXCEPT ![c] = cl]
  <2> USE <1>1 DEF ServerTypeOK, Accept, AbortBlock, EnterPQexec, LinksAreOwn
  <2>1. LinksAreOwn' OBVIOUS
  <2>2. CallsMatch' BY DEF CallsMatch, CallShape
  <2>3. PendingOnlyIfOpen' BY DEF PendingOnlyIfOpen
  <2>4. CallsRun' BY DEF CallsRun
  <2>5. EntriesAreUnique' BY DEF EntriesAreUnique
  <2>6. QED BY <2>1, <2>2, <2>3, <2>4, <2>5
<1>2. CASE link[c] = NoSession /\ UNCHANGED serverVars
           /\ \E r \in {NullResult} \cup LostResults : ReturnFrom(c, cl, r)
  <2>1. PICK r : ReturnFrom(c, cl, r)
    BY <1>2
  <2>2. pc[c] = "ready" /\ link' = [link EXCEPT ![c] = NoSession]
    BY <1>2 DEF EnterPQexec
  <2>3. QED BY <1>2, <2>1, <2>2, LossKeepsSystem
<1>3. QED BY <1>1, <1>2 DEF EnterPQexec

(* A query function sends a statement of its own shape or the caller's.    *)
LEMMA QueryCalls ==
    ASSUME NEW c \in Clients,
           \/ ExecQueryCall(c) \/ SelectCall(c) \/ SelectJoinCall(c)
           \/ InsertCall(c) \/ CreateTableForCall(c)
    PROVE  \E op \in Ops, st \in Statements :
              /\ st.kind # "none" /\ CallShape([op |-> op, stmt |-> st])
              /\ EnterPQexec(c, op, st)
<1> DEFINE Made == \E op \in Ops, st \in Statements :
                     /\ st.kind # "none" /\ CallShape([op |-> op, stmt |-> st])
                     /\ EnterPQexec(c, op, st)
<1> SUFFICES Made OBVIOUS
<1>1. ASSUME NEW op, NEW st \in Statements, EnterPQexec(c, op, st), st.kind # "none",
             CallShape([op |-> op, stmt |-> st])
      PROVE  Made
  <2>1. op \in Ops
    BY <1>1 DEF EnterPQexec
  <2>2. QED BY <1>1, <2>1
<1> HIDE DEF Made
<1> USE StatementsAreTyped DEF CallShape, PlainKinds
<1>2. CASE ExecQueryCall(c)
  <2>1. PICK kind \in ExecKinds : EnterPQexec(c, "execQuery", Plain(kind))
    BY <1>2 DEF ExecQueryCall
  <2>2. Plain(kind) \in Statements /\ Plain(kind).kind # "none" /\ Plain(kind).kind \in ExecKinds
    BY DEF Plain
  <2>3. QED BY <1>1, <2>1, <2>2
<1>3. CASE SelectCall(c)
  BY <1>1, <1>3 DEF SelectCall, Plain
<1>4. CASE SelectJoinCall(c)
  BY <1>1, <1>4 DEF SelectJoinCall, Plain
<1>5. CASE InsertCall(c)
  BY <1>1, <1>5 DEF InsertCall, InsertOf, Plain, InsertTexts
<1>6. CASE CreateTableForCall(c)
  BY <1>1, <1>6 DEF CreateTableForCall, CreateTable, Plain
<1>7. QED BY <1>2, <1>3, <1>4, <1>5, <1>6

LEMMA CallerKeepsSystem ==
    ASSUME SystemInv, TypeOK', NEW c \in Clients, CallerStep(c)
    PROVE  SystemInv'
<1> USE DEF Linked, Busy, SystemInv, TypeOK, ServerTypeOK
<1>1. CASE InitConnected(c)
  <2>1. PICK s \in Sessions : OpenSession(s) /\ link' = [link EXCEPT ![c] = s]
    BY <1>1 DEF InitConnected
  <2> USE <1>1, <2>1 DEF InitConnected, OpenSession
  <2>2. LinksAreOwn' BY DEF LinksAreOwn
  <2>3. CallsMatch' BY DEF CallsMatch, CallShape
  <2>4. PendingOnlyIfOpen' BY DEF PendingOnlyIfOpen
  <2>5. CallsRun' BY DEF CallsRun, LinksAreOwn
  <2>6. EntriesAreUnique' BY DEF EntriesAreUnique
  <2>7. QED BY <2>2, <2>3, <2>4, <2>5, <2>6
<1>2. CASE InitFailed(c) \/ Close(c) \/ RefusedCall(c)
  <2>1. /\ UNCHANGED serverVars /\ pc[c] \in {"start", "ready"} /\ call'[c] = NoCall
        /\ pc'[c] \in {"start", "ready"} /\ (pc'[c] = "start" => link'[c] = NoSession)
        /\ link'[c] \in {link[c], NoSession}
        /\ \A d \in Clients \ {c} : pc'[d] = pc[d] /\ link'[d] = link[d] /\ call'[d] = call[d]
    BY <1>2 DEF InitFailed, Close, RefusedCall, Return, CallsRun
  <2> USE <2>1 DEF serverVars
  <2>2. LinksAreOwn' BY DEF LinksAreOwn
  <2>3. CallsMatch' BY DEF CallsMatch, CallShape, NoCall, Bare
  <2>4. PendingOnlyIfOpen' BY DEF PendingOnlyIfOpen
  <2>5. CallsRun' BY DEF CallsRun
  <2>6. EntriesAreUnique' BY DEF EntriesAreUnique
  <2>7. QED BY <2>2, <2>3, <2>4, <2>5, <2>6
<1>3. QED
  BY <1>1, <1>2, QueryCalls, EnterKeepsSystem DEF CallerStep

(* A session that runs, or stops, for no client.                           *)
LEMMA UnseenKeepsSystem ==
    ASSUME SystemInv, TypeOK', NEW s \in Sessions, ReplyLost(s) \/ Reap(s)
    PROVE  SystemInv'
<1> USE DEF Linked, Busy, SystemInv, TypeOK, ServerTypeOK
<1>1. /\ \A t \in Sessions \ {s} : /\ phase'[t] = phase[t] /\ txn'[t] = txn[t]
                                   /\ pend'[t] = pend[t] /\ stmt'[t] = stmt[t]
      /\ (txn'[s] # "open" => pend'[s] = {}) /\ (phase'[s] = "free" => txn'[s] = "idle")
      /\ EntriesAreUnique'
      /\ (\A c \in Clients : link[c] # s) /\ UNCHANGED <<pc, link, call>>
  <2>1. CASE ReplyLost(s)
    <3>1. PICK r \in Replies : RunStatement(s, r)
      BY <2>1 DEF ReplyLost
    <3>2. StatementEffect(s, r) /\ EntriesAreUnique'
      BY <3>1, StatementEffects, StatementKeepsUnique
    <3>3. QED BY <2>1, <3>2 DEF ReplyLost, StatementEffect, PendingOnlyIfOpen
  <2>2. CASE Reap(s)
    BY <2>2 DEF Reap, EndSession, EntriesAreUnique
  <2>3. QED BY <2>1, <2>2
<1>2. LinksAreOwn' BY <1>1 DEF LinksAreOwn
<1>3. CallsMatch' BY <1>1 DEF CallsMatch, CallShape
<1>4. PendingOnlyIfOpen' BY <1>1 DEF PendingOnlyIfOpen
<1>5. CallsRun' BY <1>1 DEF CallsRun
<1>6. QED BY <1>1, <1>2, <1>3, <1>4, <1>5

LEMMA SilentKeepsSystem ==
    ASSUME SystemInv, TypeOK',
           \/ \E c \in Clients : DropIdle(c) \/ Restart(c)
           \/ \E s \in Sessions : Lookup(s)
    PROVE  SystemInv'
<1> USE DEF Linked, Busy, SystemInv, TypeOK, ServerTypeOK, DropIdle, Restart, Lookup, CreateLookup,
      serverVars
<1>1. LinksAreOwn' BY DEF LinksAreOwn
<1>2. CallsMatch' BY DEF CallsMatch, CallShape
<1>3. PendingOnlyIfOpen' BY DEF PendingOnlyIfOpen
<1>4. CallsRun' BY DEF CallsRun
<1>5. EntriesAreUnique' BY DEF EntriesAreUnique
<1>6. QED BY <1>1, <1>2, <1>3, <1>4, <1>5

LEMMA SystemStep == SystemInv /\ [Next]_vars => SystemInv'
<1> SUFFICES ASSUME SystemInv, [Next]_vars PROVE SystemInv'
  OBVIOUS
<1>1. TypeOK'
  BY TypeStep DEF SystemInv
<1>2. CASE UNCHANGED vars
  BY <1>1, <1>2 DEF vars, serverVars, clientVars, SystemInv, LinksAreOwn, CallsMatch, CallShape,
     PendingOnlyIfOpen, CallsRun, EntriesAreUnique, Linked, Busy
<1>3. ASSUME NEW c \in Clients, CallerStep(c) \/ EnvironmentStep(c) PROVE SystemInv'
  <2>1. CASE DropInCall(c)
    BY <1>1, <2>1, LossKeepsSystem DEF DropInCall
  <2>2. QED
    BY <1>1, <1>3, <2>1, CallerKeepsSystem, SilentKeepsSystem DEF EnvironmentStep
<1>4. ASSUME NEW s \in Sessions, ServerStep(s) PROVE SystemInv'
  BY <1>1, <1>4, ReplyKeepsSystem, UnseenKeepsSystem, SilentKeepsSystem DEF ServerStep
<1>5. QED BY <1>2, <1>3, <1>4 DEF Next

(* Clients, sessions and the table stay in step: no session is shared, a   *)
(* call waits for the statement its session runs, and an entry is pending  *)
(* in one block at most and never while it is in the table.                *)
THEOREM SystemInvariant == Spec => []SystemInv
<1>1. QED BY SystemInit, SystemStep, PTL DEF Spec
-----------------------------------------------------------------------------
(***************************************************************************)
(* What a caller of psql.zig may conclude from its answers is so.          *)
(***************************************************************************)
(* The history variables keep their types.                                 *)
LEMMA HistoryTypeStep == HistoryTypeOK /\ [HNext]_hvars => HistoryTypeOK'
<1> SUFFICES ASSUME HistoryTypeOK, [HNext]_hvars PROVE HistoryTypeOK'
  OBVIOUS
<1>1. TypeOK'
  BY TypeStep DEF HistoryTypeOK, HNext, hvars
<1>2. CASE UNCHANGED historyVars
  BY <1>1, <1>2 DEF HistoryTypeOK, historyVars
<1>3. CASE answer'.to \in Clients /\ Remember
  <2>1. Adds(answer') => answer'.call.stmt.entry \in Entries
    BY <1>1 DEF TypeOK, Answers, Calls, Statements, Adds, Ok, Plain, InsertOf,
                InsertTexts, CreateTable, Entries, PlainKinds
  <2>2. /\ InBlockAfter(answer'.to, answer') \in BOOLEAN
        /\ AckedAfter(answer'.to, answer') \in SUBSET Entries
        /\ ErredAfter(answer'.to, answer') \in BOOLEAN
        /\ RefusedAfter(answer'.to, answer') \in BOOLEAN
    BY <1>3, <2>1 DEF HistoryTypeOK, InBlockAfter, AckedAfter, ErredAfter, RefusedAfter
  <2>3. QED
    BY <1>1, <1>3, <2>2 DEF HistoryTypeOK, Remember, historyVars, NoAnswer
<1>4. QED
  BY <1>2, <1>3 DEF HNext, Remember, hvars

LEMMA HistoryTypeInit == HInit => HistoryTypeOK
BY TypeInit DEF HInit, HistoryTypeOK

(* The history a caller can keep is always of the right type too.          *)
THEOREM HistoryTypeCorrect == HSpec => []HistoryTypeOK
<1>1. QED BY HistoryTypeInit, HistoryTypeStep, PTL DEF HSpec
-----------------------------------------------------------------------------
(* A session that answers its client: the only step in which the server    *)
(* and the caller's belief both move.                                      *)
LEMMA ReplyBelief ==
    ASSUME BeliefInv, HistoryTypeOK', SystemInv', NEW s \in Sessions, Reply(s), Remember
    PROVE  BeliefInv'
<1> USE DEF Linked, Using
<1>1. PICK c \in Clients, r \in Replies :
         link[c] = s /\ RunStatement(s, r) /\ ReturnFrom(c, call[c], r) /\ UNCHANGED link
  BY DEF Reply
<1>2. PICK v \in Values : Outcome(c, call[c], r, v)
  BY <1>1, ReturnFromFacts
<1>3. StatementEffect(s, r)
  BY <1>1, StatementEffects DEF BeliefInv, SystemInv, HistoryTypeOK, TypeOK
<1>4. /\ pc[c] = "exec" /\ stmt[s] = call[c].stmt /\ CallShape(call[c])
      /\ \A d \in Clients \ {c} : link[d] # s
  BY <1>1, <1>2 DEF BeliefInv, SystemInv, CallsMatch, LinksAreOwn, Outcome
<1>5. /\ answer' = [to |-> c, call |-> call[c], val |-> v]
      /\ pc' = [pc EXCEPT ![c] = IF v = "panic" THEN "dead" ELSE "ready"]
      /\ call' = [call EXCEPT ![c] = NoCall]
  BY <1>2 DEF Outcome, Answer
<1>6. /\ inBlock' = [inBlock EXCEPT ![c] = InBlockAfter(c, answer')]
      /\ acked' = [acked EXCEPT ![c] = AckedAfter(c, answer')]
      /\ erred' = [erred EXCEPT ![c] = ErredAfter(c, answer')]
      /\ refused' = [refused EXCEPT ![c] = RefusedAfter(c, answer')]
  BY <1>5 DEF Remember
<1>7. BlocksMatch'
  <2>1. ASSUME NEW d \in Clients \ {c}, Using(d)' PROVE BlockMatches(d)'
    BY <1>1, <1>3, <1>4, <1>5, <1>6, <2>1 DEF BeliefInv, SystemInv, HistoryTypeOK, TypeOK, BlocksMatch,
       BlockMatches, StatementEffect
  <2>2. ASSUME Using(c)' PROVE BlockMatches(c)'
    <3> DEFINE kind == call[c].stmt.kind
    <3>1. BlockMatches(c) /\ v # "panic" /\ call[c].op \notin {"init", "close"}
      BY <1>1, <1>2, <1>4, <1>5, <2>2 DEF BeliefInv, SystemInv, HistoryTypeOK, TypeOK, BlocksMatch, Outcome
    <3>2. /\ Adds(answer') <=> v = "ok" /\ kind \in {"insert", "returning", "create"}
          /\ Begins(answer') <=> v = "ok" /\ kind = "begin"
          /\ Ends(answer') <=> v = "ok" /\ kind \in {"commit", "rollback"}
          /\ Refuses(answer') <=> v \in ServerErrors /\ kind \notin {"empty", "copy"}
          /\ answer'.val = v /\ answer'.call.stmt.entry = stmt[s].entry /\ stmt[s].kind = kind
      BY <1>4, <1>5, <3>1 DEF Adds, Begins, Ends, Refuses, Ok, InsertTexts
    <3>3. /\ inBlock'[c] = InBlockAfter(c, answer') /\ acked'[c] = AckedAfter(c, answer')
          /\ erred'[c] = ErredAfter(c, answer') /\ refused'[c] = RefusedAfter(c, answer')
          /\ inBlock[c] \in BOOLEAN /\ erred[c] \in BOOLEAN /\ refused[c] \in BOOLEAN
          /\ link[c] = s /\ link'[c] = s
      BY <1>1, <1>6 DEF BeliefInv, SystemInv, HistoryTypeOK
    <3>4. /\ Succeeded(r) /\ kind # "select" => v = "ok"
          /\ Succeeded(r) /\ kind = "select" => v \notin ServerErrors
          /\ ~ Succeeded(r) => v # "ok"
      BY <1>2, <1>3, <1>4, <3>1, <3>2
      DEF Outcome, StatementEffect, CallShape, ServerErrors, InsertTexts
    <3>5. committed \subseteq committed'
      BY <1>3 DEF StatementEffect
    <3>6. (txn[s] # "open" => pend[s] = {}) /\ phase'[s] \in {"idle", "copyin"}
          /\ (phase'[s] = "copyin" => ~ Succeeded(r))
      BY <1>3 DEF BeliefInv, SystemInv, PendingOnlyIfOpen, StatementEffect
    <3> USE <3>1, <3>2, <3>3, <3>4, <3>5, <3>6 DEF BlockMatches, InBlockAfter, AckedAfter,
          ErredAfter, RefusedAfter, Starts
    <3>7. CASE Succeeded(r) /\ kind = "begin"
      <4>1. txn'[s] = "open" /\ pend'[s] = pend[s] /\ txn[s] # "failed"
        BY <1>3, <3>7 DEF StatementEffect
      <4>2. QED BY <4>1, <3>7 DEF ServerErrors
    <3>8. CASE Succeeded(r) /\ kind \in {"commit", "rollback"}
      <4>1. txn'[s] = "idle" /\ pend'[s] = {}
        BY <1>3, <3>8 DEF StatementEffect
      <4>2. QED BY <4>1, <3>8
    <3>9. CASE Succeeded(r) /\ kind \in {"insert", "returning", "create"}
      <4>1. /\ txn[s] # "failed" /\ txn'[s] = txn[s]
            /\ pend[s] \subseteq pend'[s] /\ pend'[s] \subseteq pend[s] \cup {stmt[s].entry}
            /\ stmt[s].entry \in pend'[s] \cup committed'
            /\ txn[s] = "idle" => pend'[s] = pend[s]
        BY <1>3, <3>9 DEF StatementEffect
      <4>2. QED BY <4>1, <3>9 DEF ServerErrors
    <3>10. CASE Succeeded(r) /\ kind = "select"
      <4>1. txn'[s] = txn[s] /\ pend'[s] = pend[s]
        BY <1>3, <3>10 DEF StatementEffect
      <4>2. QED BY <4>1, <3>10
    <3>11. CASE ~ Succeeded(r) /\ kind \in {"empty", "copy"}
      <4>1. txn'[s] = txn[s] /\ pend'[s] = pend[s]
        BY <1>3, <3>11 DEF StatementEffect
      <4>2. QED BY <4>1, <3>11
    <3>12. CASE ~ Succeeded(r) /\ kind \notin {"empty", "copy"}
      <4>1. txn'[s] = (IF txn[s] = "idle" THEN "idle" ELSE "failed") /\ pend'[s] = {}
        BY <1>3, <3>12 DEF StatementEffect
      <4>2. QED BY <4>1, <3>12
    <3>13. Succeeded(r) =>
             kind \in {"begin", "commit", "rollback", "insert", "returning", "create", "select"}
      BY <1>3 DEF StatementEffect
    <3>14. QED BY <3>7, <3>8, <3>9, <3>10, <3>11, <3>12, <3>13
  <2>3. QED BY <2>1, <2>2 DEF BlocksMatch
<1>8. OutOfUse'
  BY <1>4, <1>5, <1>6 DEF BeliefInv, SystemInv, HistoryTypeOK, TypeOK, OutOfUse, RefusedAfter, Ends
<1>9. QED
  BY <1>7, <1>8 DEF BeliefInv

(* Steps that give no answer leave the histories alone.                    *)
LEMMA NoAnswerNoHistory ==
    ASSUME Remember, answer' = NoAnswer
    PROVE  UNCHANGED historyVars
BY DEF Remember, NoAnswer

(* A call that ends without the server: its client has lost its session.   *)
LEMMA UnlinkedReturn ==
    ASSUME BeliefInv, HistoryTypeOK', SystemInv', NEW c \in Clients, NEW cl, NEW r, ReturnFrom(c, cl, r),
           pc[c] \in {"ready", "exec"}, link' = [link EXCEPT ![c] = NoSession],
           UNCHANGED serverVars, Remember
    PROVE  BeliefInv'
<1> USE DEF Linked, Using, BeliefInv, SystemInv, HistoryTypeOK, TypeOK, serverVars
<1>1. PICK v \in Values : Outcome(c, cl, r, v)
  BY ReturnFromFacts
<1>2. /\ answer' = [to |-> c, call |-> cl, val |-> v]
      /\ pc' = [pc EXCEPT ![c] = IF v = "panic" THEN "dead" ELSE "ready"]
      /\ call' = [call EXCEPT ![c] = NoCall]
  BY <1>1 DEF Outcome, Answer
<1>3. /\ inBlock' = [inBlock EXCEPT ![c] = InBlockAfter(c, answer')]
      /\ acked' = [acked EXCEPT ![c] = AckedAfter(c, answer')]
      /\ erred' = [erred EXCEPT ![c] = ErredAfter(c, answer')]
      /\ refused' = [refused EXCEPT ![c] = RefusedAfter(c, answer')]
  BY <1>2 DEF Remember
<1>4. BlocksMatch'
  BY <1>2, <1>3 DEF BlocksMatch, BlockMatches
<1>5. OutOfUse'
  BY <1>2, <1>3 DEF OutOfUse, RefusedAfter, Ends
<1>6. QED BY <1>4, <1>5

LEMMA EnterBelief ==
    ASSUME BeliefInv, HistoryTypeOK', SystemInv', NEW c \in Clients, NEW op \in Ops,
           NEW st \in Statements, CallShape([op |-> op, stmt |-> st]),
           EnterPQexec(c, op, st), Remember
    PROVE  BeliefInv'
<1> USE DEF Linked, Using
<1> DEFINE cl == [op |-> op, stmt |-> st]
<1>1. CASE link[c] \in Sessions /\ Accept(link[c], st)
           /\ pc' = [pc EXCEPT ![c] = "exec"] /\ call' = [call EXCEPT ![c] = cl]
           /\ answer' = NoAnswer
  <2> USE <1>1 DEF BeliefInv, SystemInv, HistoryTypeOK, TypeOK, ServerTypeOK, Accept, AbortBlock,
        EnterPQexec, LinksAreOwn
  <2>1. UNCHANGED historyVars
    BY NoAnswerNoHistory
  <2>2. BlocksMatch'
    BY <2>1 DEF BlocksMatch, BlockMatches, historyVars
  <2>3. OutOfUse'
    BY <2>1 DEF OutOfUse, historyVars
  <2>4. QED BY <2>2, <2>3
<1>2. CASE link[c] = NoSession /\ UNCHANGED serverVars
           /\ \E r \in {NullResult} \cup LostResults : ReturnFrom(c, cl, r)
  <2>1. PICK r : ReturnFrom(c, cl, r)
    BY <1>2
  <2>2. pc[c] = "ready" /\ link' = [link EXCEPT ![c] = NoSession]
    BY <1>2 DEF EnterPQexec, BeliefInv, SystemInv, HistoryTypeOK, TypeOK
  <2>3. QED BY <1>2, <2>1, <2>2, UnlinkedReturn
<1>3. QED BY <1>1, <1>2 DEF EnterPQexec

LEMMA CallerBelief ==
    ASSUME BeliefInv, HistoryTypeOK', SystemInv', NEW c \in Clients, CallerStep(c), Remember
    PROVE  BeliefInv'
<1> USE DEF Linked, Using
<1> DEFINE Histories ==
      /\ inBlock'[c] = InBlockAfter(c, answer') /\ acked'[c] = AckedAfter(c, answer')
      /\ erred'[c] = ErredAfter(c, answer') /\ refused'[c] = RefusedAfter(c, answer')
      /\ \A d \in Clients \ {c} :
            /\ inBlock'[d] = inBlock[d] /\ acked'[d] = acked[d]
            /\ erred'[d] = erred[d] /\ refused'[d] = refused[d]
<1>1. ASSUME answer'.to = c PROVE Histories
  BY <1>1 DEF Remember, BeliefInv, SystemInv, HistoryTypeOK
<1> HIDE DEF Histories
<1>2. CASE InitConnected(c)
  <2>1. PICK s \in Sessions : OpenSession(s) /\ link' = [link EXCEPT ![c] = s]
    BY <1>2 DEF InitConnected
  <2>2. Histories /\ Ends(answer')
    BY <1>1, <1>2 DEF InitConnected, Answer, Bare, Ends
  <2> USE <1>2, <2>1, <2>2 DEF InitConnected, OpenSession, BeliefInv, SystemInv, HistoryTypeOK, TypeOK,
        ServerTypeOK, Histories
  <2>3. ASSUME NEW d \in Clients, Using(d)' PROVE BlockMatches(d)'
    <3>1. CASE d # c
      BY <2>3, <3>1 DEF BlocksMatch, BlockMatches
    <3>2. CASE d = c
      <4>1. ~ inBlock'[c] /\ acked'[c] = {} /\ ~ refused'[c]
        BY DEF InBlockAfter, AckedAfter, RefusedAfter
      <4>2. link'[c] = s /\ txn'[s] = "idle" /\ pend'[s] = {}
        BY DEF PendingOnlyIfOpen
      <4>3. QED BY <3>2, <4>1, <4>2 DEF BlockMatches
    <3>3. QED BY <3>1, <3>2
  <2>4. OutOfUse'
    BY DEF OutOfUse
  <2>5. QED BY <2>3, <2>4 DEF BlocksMatch
<1>3. CASE InitFailed(c) \/ Close(c)
  <2>1. Histories /\ Ends(answer')
    BY <1>1, <1>3 DEF InitFailed, Close, Answer, Bare, Ends
  <2>2. /\ pc' = [pc EXCEPT ![c] = "start"] /\ UNCHANGED <<serverVars, call>>
        /\ pc[c] \in {"start", "ready"}
        /\ link' \in {link, [link EXCEPT ![c] = NoSession]}
    BY <1>3 DEF InitFailed, Close, BeliefInv, SystemInv, HistoryTypeOK, TypeOK
  <2> USE <2>1, <2>2 DEF BeliefInv, SystemInv, HistoryTypeOK, TypeOK, ServerTypeOK, Histories, serverVars
  <2>3. BlocksMatch'
    BY DEF BlocksMatch, BlockMatches
  <2>4. OutOfUse'
    <3>1. ~ refused'[c]
      BY DEF RefusedAfter
    <3>2. QED BY <3>1 DEF OutOfUse
  <2>5. QED BY <2>3, <2>4
<1>4. CASE RefusedCall(c)
  <2>1. PICK op \in Ops \ {"execQuery"}, v \in {"NotAStruct", "OutOfMemory"} : Return(c, Bare(op), v)
    BY <1>4 DEF RefusedCall
  <2>2. /\ Histories /\ ~ Ends(answer') /\ ~ Begins(answer') /\ ~ Adds(answer')
        /\ ~ Refuses(answer') /\ answer'.val # "ok"
    BY <1>1, <2>1 DEF Return, Answer, Bare, Plain, Ends, Begins, Adds, Refuses, Ok, ServerErrors
  <2>3. /\ pc[c] = "ready" /\ pc' = pc /\ UNCHANGED <<serverVars, link>>
        /\ call' = [call EXCEPT ![c] = NoCall]
    BY <1>4, <2>1 DEF RefusedCall, Return, BeliefInv, SystemInv, HistoryTypeOK, TypeOK
  <2> USE <2>2, <2>3 DEF BeliefInv, SystemInv, HistoryTypeOK, TypeOK, ServerTypeOK, Histories, serverVars
  <2>4. ASSUME NEW d \in Clients, Using(d)' PROVE BlockMatches(d)'
    <3>1. CASE d # c
      BY <2>4, <3>1 DEF BlocksMatch, BlockMatches
    <3>2. CASE d = c
      <4>1. BlockMatches(c)
        BY <2>4, <3>2 DEF BlocksMatch
      <4>2. /\ inBlock'[c] <=> inBlock[c]
            /\ erred'[c] <=> inBlock[c]
            /\ refused'[c] => refused[c]
            /\ acked'[c] = IF inBlock[c] THEN acked[c] ELSE {}
        BY DEF InBlockAfter, AckedAfter, ErredAfter, RefusedAfter, Starts
      <4>3. ~ inBlock[c] => pend[link[c]] = {}
        BY <2>4, <3>2, <4>1 DEF BlockMatches, PendingOnlyIfOpen
      <4>4. link'[c] = link[c] /\ inBlock[c] \in BOOLEAN /\ UNCHANGED <<txn, pend, phase, committed>>
        OBVIOUS
      <4>5. QED BY <3>2, <4>1, <4>2, <4>3, <4>4 DEF BlockMatches
    <3>3. QED BY <3>1, <3>2
  <2>5. OutOfUse'
    BY DEF OutOfUse
  <2>6. QED BY <2>4, <2>5 DEF BlocksMatch
<1>5. QED
  BY <1>2, <1>3, <1>4, QueryCalls, EnterBelief DEF CallerStep

LEMMA SilentBelief ==
    ASSUME BeliefInv, HistoryTypeOK', SystemInv', Remember,
           \/ \E c \in Clients : DropIdle(c) \/ Restart(c)
           \/ \E s \in Sessions : ReplyLost(s) \/ Lookup(s) \/ Reap(s)
    PROVE  BeliefInv'
<1> USE DEF Linked, Using, BeliefInv, SystemInv, HistoryTypeOK, TypeOK, ServerTypeOK, BlocksMatch,
      BlockMatches, OutOfUse
<1>1. UNCHANGED historyVars
  BY NoAnswerNoHistory DEF DropIdle, Restart, ReplyLost, Lookup, Reap
<1> USE <1>1 DEF historyVars
<1>2. CASE \E c \in Clients : DropIdle(c) \/ Restart(c)
  BY <1>2 DEF DropIdle, Restart, serverVars
<1>3. ASSUME NEW s \in Sessions, ReplyLost(s) PROVE BeliefInv'
  <2>1. PICK r \in Replies : RunStatement(s, r)
    BY <1>3 DEF ReplyLost
  <2>2. StatementEffect(s, r)
    BY <2>1, StatementEffects DEF SystemInv
  <2>3. QED BY <1>3, <2>2 DEF ReplyLost, StatementEffect
<1>4. ASSUME NEW s \in Sessions, Lookup(s) \/ Reap(s) PROVE BeliefInv'
  BY <1>4 DEF Lookup, CreateLookup, Reap, EndSession
<1>5. QED BY <1>2, <1>3, <1>4

LEMMA BeliefStep == BeliefInv /\ [HNext]_hvars => BeliefInv'
<1> SUFFICES ASSUME BeliefInv, [HNext]_hvars PROVE BeliefInv'
  OBVIOUS
<1>1. HistoryTypeOK' /\ SystemInv'
  BY HistoryTypeStep, SystemStep DEF BeliefInv, HNext, hvars
<1>2. CASE UNCHANGED hvars
  BY <1>1, <1>2 DEF hvars, vars, serverVars, clientVars, historyVars, BeliefInv, BlocksMatch,
     BlockMatches, OutOfUse, Using
<1>3. ASSUME NEW c \in Clients, CallerStep(c) \/ EnvironmentStep(c), Remember
      PROVE  BeliefInv'
  <2>1. CASE CallerStep(c)
    BY <1>1, <1>3, <2>1, CallerBelief
  <2>2. CASE DropInCall(c)
    BY <1>1, <1>3, <2>2, UnlinkedReturn DEF DropInCall
  <2>3. CASE DropIdle(c) \/ Restart(c)
    BY <1>1, <1>3, <2>3, SilentBelief
  <2>4. QED BY <1>3, <2>1, <2>2, <2>3 DEF EnvironmentStep
<1>4. ASSUME NEW s \in Sessions, ServerStep(s), Remember
      PROVE  BeliefInv'
  BY <1>1, <1>4, ReplyBelief, SilentBelief DEF ServerStep
<1>5. QED
  BY <1>2, <1>3, <1>4 DEF HNext, Next

LEMMA BeliefInit == HInit => BeliefInv
BY HistoryTypeInit, SystemInit DEF HInit, Init, BeliefInv, BlocksMatch, OutOfUse, Using

(* What each caller takes its block to be agrees with its session.         *)
THEOREM BeliefInvariant == HSpec => []BeliefInv
<1>1. QED BY BeliefInit, BeliefStep, PTL DEF HSpec
-----------------------------------------------------------------------------
(* A block of which the server has refused a call has nothing left to      *)
(* commit, for any number of clients, sessions and keys.                   *)
THEOREM RefusedBlocksAreEmpty == HSpec => []RefusedBlockIsEmpty
<1>1. BeliefInv => RefusedBlockIsEmpty
  BY DEF BeliefInv, SystemInv, HistoryTypeOK, TypeOK, OutOfUse, BlocksMatch, BlockMatches, Using,
     PendingOnlyIfOpen, RefusedBlockIsEmpty
<1>2. QED BY <1>1, BeliefInvariant, PTL

(* Where the answer of a step can come from.                               *)
AnsweredByServer(c, r, v) ==
    /\ link[c] \in Sessions /\ link' = link
    /\ stmt[link[c]] = call[c].stmt /\ CallShape(call[c]) /\ Using(c)
    /\ StatementEffect(link[c], r)
    /\ Outcome(c, call[c], r, v)

AnsweredAlone(c) ==
    /\ answer'.to = c /\ link'[c] = NoSession
    /\ answer'.val \notin {"ok", "PrimaryKeyDuplicate"}
    /\ answer'.val = "panic" =>
         \/ answer'.call.op = "insert"
         \/ answer'.call.op \in {"select", "selectJoin"} /\ AllocMayFail

NothingLearnt ==
    \/ answer'.val \in {"none", "ConnectionFailed", "NotAStruct", "OutOfMemory"}
    \/ answer'.val = "ok" /\ answer'.call.stmt.kind = "none"

LEMMA LostIsAlone ==
    ASSUME NEW c \in Clients, NEW cl, NEW r \in {NullResult} \cup LostResults,
           ReturnFrom(c, cl, r), link'[c] = NoSession
    PROVE  AnsweredAlone(c)
<1>1. PICK v \in Values : Outcome(c, cl, r, v)
  BY ReturnFromFacts
<1>2. ~ Succeeded(r) /\ r.sqlstate # "23505" /\ r.status # "PGRES_TUPLES_OK"
  BY DEF NullResult, LostResults, Rejected, Succeeded
<1>3. answer' = [to |-> c, call |-> cl, val |-> v]
  BY <1>1 DEF Outcome, Answer
<1>4. QED BY <1>1, <1>2, <1>3 DEF Outcome, AnsweredAlone

LEMMA AnswerSources ==
    ASSUME BeliefInv, Next
    PROVE  \/ NothingLearnt
           \/ \E c \in Clients : AnsweredAlone(c)
           \/ \E c \in Clients, r \in Replies, v \in Values : AnsweredByServer(c, r, v)
<1> USE DEF BeliefInv, SystemInv, HistoryTypeOK, TypeOK
<1>1. ASSUME NEW c \in Clients, NEW op, NEW st, EnterPQexec(c, op, st)
      PROVE  NothingLearnt \/ AnsweredAlone(c)
  <2>1. CASE answer' = NoAnswer
    BY <2>1 DEF NothingLearnt, NoAnswer
  <2>2. CASE \E r \in {NullResult} \cup LostResults :
               ReturnFrom(c, [op |-> op, stmt |-> st], r) /\ link'[c] = NoSession
    BY <2>2, LostIsAlone
  <2>3. QED BY <1>1, <2>1, <2>2 DEF EnterPQexec
<1>2. ASSUME NEW c \in Clients, CallerStep(c)
      PROVE  NothingLearnt \/ AnsweredAlone(c)
  <2>1. CASE InitConnected(c) \/ InitFailed(c) \/ Close(c)
    BY <2>1 DEF InitConnected, InitFailed, Close, Answer, Bare, Plain, NothingLearnt
  <2>2. CASE RefusedCall(c)
    BY <2>2 DEF RefusedCall, Return, Answer, NothingLearnt
  <2>3. QED
    BY <1>1, <1>2, <2>1, <2>2 DEF CallerStep, ExecQueryCall, SelectCall, SelectJoinCall, InsertCall,
       CreateTableForCall
<1>3. ASSUME NEW c \in Clients, EnvironmentStep(c)
      PROVE  NothingLearnt \/ AnsweredAlone(c)
  <2>1. CASE DropInCall(c)
    BY <2>1, LostIsAlone DEF DropInCall
  <2>2. CASE DropIdle(c) \/ Restart(c)
    BY <2>2 DEF DropIdle, Restart, NoAnswer, NothingLearnt
  <2>3. QED BY <1>3, <2>1, <2>2 DEF EnvironmentStep
<1>4. ASSUME NEW s \in Sessions, ServerStep(s)
      PROVE  \/ NothingLearnt
             \/ \E c \in Clients, r \in Replies, v \in Values : AnsweredByServer(c, r, v)
  <2>1. CASE Reply(s)
    <3>1. PICK c \in Clients, r \in Replies :
             link[c] = s /\ RunStatement(s, r) /\ ReturnFrom(c, call[c], r) /\ UNCHANGED link
      BY <2>1 DEF Reply
    <3>2. PICK v \in Values : Outcome(c, call[c], r, v)
      BY <3>1, ReturnFromFacts
    <3>3. QED
      BY <3>1, <3>2, StatementEffects DEF AnsweredByServer, CallsMatch, Using, Outcome
  <2>2. CASE ReplyLost(s) \/ Lookup(s) \/ Reap(s)
    BY <2>2 DEF ReplyLost, Lookup, Reap, NoAnswer, NothingLearnt
  <2>3. QED BY <1>4, <2>1, <2>2 DEF ServerStep
<1>5. QED BY <1>2, <1>3, <1>4 DEF Next

LEMMA ServerAnswerFacts ==
    ASSUME BeliefInv, Remember, NEW c \in Clients, NEW r \in Replies, NEW v \in Values,
           AnsweredByServer(c, r, v)
    PROVE  LET s == link[c] IN
           /\ answer' = [to |-> c, call |-> call[c], val |-> v]
           /\ inBlock[c] <=> txn[s] # "idle"
           /\ pend[s] \subseteq acked[c]
           /\ inBlock[c] /\ ~ erred[c] => acked[c] \subseteq pend[s] \cup committed
           /\ ~ inBlock[c] => pend[s] = {}
           /\ inBlock'[c] = InBlockAfter(c, answer')
           /\ acked'[c] = AckedAfter(c, answer')
<1>1. answer' = [to |-> c, call |-> call[c], val |-> v]
  BY DEF AnsweredByServer, Outcome, Answer
<1>2. BlockMatches(c)
  BY DEF AnsweredByServer, BeliefInv, BlocksMatch
<1>3. ~ inBlock[c] => pend[link[c]] = {}
  BY <1>2 DEF BlockMatches, BeliefInv, SystemInv, PendingOnlyIfOpen, AnsweredByServer
<1>4. inBlock'[c] = InBlockAfter(c, answer') /\ acked'[c] = AckedAfter(c, answer')
  BY <1>1 DEF Remember, BeliefInv, SystemInv, HistoryTypeOK
<1>5. QED BY <1>1, <1>2, <1>3, <1>4 DEF BlockMatches

(* What the answers told a caller it may rely on is committed, for any     *)
(* number of clients, sessions and keys.                                   *)
THEOREM PromisesAreKept == HSpec => PromisesKept
<1> DEFINE Kept == answer'.to \in Clients =>
                     PromisedBy(answer'.to, answer') \subseteq committed'
<1>1. BeliefInv /\ [HNext]_hvars => [Kept]_hvars
  <2> SUFFICES ASSUME BeliefInv, HNext PROVE Kept
    OBVIOUS
  <2> USE DEF PromisedBy, Adds, Ok, InsertTexts
  <2>1. CASE NothingLearnt
    BY <2>1 DEF NothingLearnt
  <2>2. ASSUME NEW c \in Clients, AnsweredAlone(c) PROVE Kept
    BY <2>2 DEF AnsweredAlone
  <2>3. ASSUME NEW c \in Clients, NEW r \in Replies, NEW v \in Values, AnsweredByServer(c, r, v)
        PROVE  Kept
    <3>1. v = "ok" => Succeeded(r)
      BY <2>3 DEF AnsweredByServer, Outcome
    <3> DEFINE s == link[c]
               cl == call[c]
    <3>2. /\ answer' = [to |-> c, call |-> cl, val |-> v] /\ stmt[s] = cl.stmt
          /\ inBlock[c] <=> txn[s] # "idle"
          /\ inBlock[c] /\ ~ erred[c] => acked[c] \subseteq pend[s] \cup committed
          /\ ~ inBlock[c] => pend[s] = {}
      BY <2>3, ServerAnswerFacts DEF HNext, AnsweredByServer
    <3>22. committed \subseteq committed'
      BY <2>3 DEF AnsweredByServer, StatementEffect
    <3>3. CASE v = "ok" /\ cl.stmt.kind \in {"insert", "returning", "create"} /\ ~ inBlock[c]
      <4>1. pend'[s] = pend[s] /\ cl.stmt.entry \in pend'[s] \cup committed'
        BY <2>3, <3>1, <3>2, <3>3 DEF AnsweredByServer, StatementEffect
      <4>2. QED BY <3>2, <3>3, <4>1
    <3>4. CASE v = "ok" /\ cl.stmt.kind = "commit" /\ inBlock[c] /\ ~ erred[c]
      <4>1. pend[s] \subseteq committed'
        BY <2>3, <3>1, <3>2, <3>4 DEF AnsweredByServer, StatementEffect
      <4>2. QED BY <3>2, <3>4, <3>22, <4>1
    <3>5. QED BY <3>2, <3>3, <3>4
  <2>4. QED BY <2>1, <2>2, <2>3, AnswerSources DEF HNext
<1>2. QED BY <1>1, BeliefInvariant, PTL DEF HSpec, PromisesKept

(* A step makes the properties of the last answer true of it, so they hold *)
(* of every answer.                                                        *)
LastAnswerIsSound == DuplicateIsReal /\ CreateRefusedOnlyIfThere /\ DiesOnlyOfLossOrRows

LEMMA SoundAnswers ==
    ASSUME BeliefInv, HNext
    PROVE  LastAnswerIsSound'
<1> USE DEF LastAnswerIsSound, DuplicateIsReal, CreateRefusedOnlyIfThere, DiesOnlyOfLossOrRows
<1>1. CASE NothingLearnt
  BY <1>1 DEF NothingLearnt
<1>2. ASSUME NEW c \in Clients, AnsweredAlone(c) PROVE LastAnswerIsSound'
  BY <1>2 DEF AnsweredAlone
<1>3. ASSUME NEW c \in Clients, NEW r \in Replies, NEW v \in Values, AnsweredByServer(c, r, v)
      PROVE  LastAnswerIsSound'
  <2> DEFINE s == link[c]
             cl == call[c]
  <2>1. /\ answer' = [to |-> c, call |-> cl, val |-> v] /\ stmt[s] = cl.stmt
        /\ inBlock[c] <=> txn[s] # "idle"
        /\ pend[s] \subseteq acked[c]
        /\ ~ inBlock[c] => pend[s] = {}
        /\ inBlock'[c] = InBlockAfter(c, answer') /\ acked'[c] = AckedAfter(c, answer')
    BY <1>3, ServerAnswerFacts DEF HNext, AnsweredByServer
  <2> committed \subseteq committed'
    BY <1>3 DEF AnsweredByServer, StatementEffect
  <2>2. DuplicateIsReal'
    <3> SUFFICES ASSUME v = "PrimaryKeyDuplicate"
                 PROVE  cl.stmt.entry \in committed' \cup acked'[c]
      BY <2>1
    <3>1. cl.stmt.entry \in committed \cup pend[s]
      BY <1>3, <2>1 DEF AnsweredByServer, StatementEffect, Outcome
    <3>2. inBlock[c] => acked'[c] = acked[c]
      BY <1>3, <2>1 DEF AckedAfter, Ends, Starts, Begins, Adds, Ok, AnsweredByServer, Outcome
    <3>3. QED BY <2>1, <3>1, <3>2
  <2>3. CreateRefusedOnlyIfThere'
    <3> SUFFICES ASSUME v = "QueryFailed", cl.op = "createTableFor",
                        cl.stmt.kind = "create", ~ inBlock'[c]
                 PROVE  Table \in committed'
      BY <2>1
    <3>1. ~ Succeeded(r) /\ cl.stmt.kind = "create"
      BY <1>3 DEF AnsweredByServer, Outcome, CallShape
    <3>2. ~ inBlock[c]
      BY <1>3, <2>1 DEF InBlockAfter, Ends, Ok, AnsweredByServer, Outcome
    <3>3. QED
      BY <1>3, <2>1, <3>1, <3>2 DEF AnsweredByServer, StatementEffect
  <2>4. DiesOnlyOfLossOrRows'
    <3>1. ASSUME cl.op = "insert", v = "panic"
          PROVE  cl.stmt.kind = "returning" /\ cl.stmt.entry \in pend'[s] \cup committed'
      <4>1. cl.stmt.kind \in {"insert", "returning", "bad"}
        BY <1>3, <3>1 DEF AnsweredByServer, CallShape, InsertTexts
      <4>2. Succeeded(r)
        BY <1>3, <2>1, <3>1, <4>1 DEF AnsweredByServer, StatementEffect, Outcome, Succeeded
      <4>3. cl.stmt.kind = "returning"
        BY <1>3, <2>1, <3>1, <4>1, <4>2 DEF AnsweredByServer, StatementEffect, Outcome
      <4>4. QED BY <1>3, <2>1, <4>2, <4>3 DEF AnsweredByServer, StatementEffect
    <3>2. QED BY <1>3, <2>1, <3>1 DEF AnsweredByServer, Outcome
  <2>5. QED BY <2>2, <2>3, <2>4
<1>4. QED BY <1>1, <1>2, <1>3, AnswerSources DEF HNext

LEMMA LastAnswerInvariant == HSpec => []LastAnswerIsSound
<1> USE DEF LastAnswerIsSound, DuplicateIsReal, CreateRefusedOnlyIfThere, DiesOnlyOfLossOrRows
<1>1. HInit => LastAnswerIsSound
  BY DEF HInit, Init, NoAnswer, NoCall, Bare
<1>2. BeliefInv /\ LastAnswerIsSound /\ [HNext]_hvars => LastAnswerIsSound'
  <2>1. CASE HNext BY <2>1, SoundAnswers
  <2>2. CASE UNCHANGED hvars
    BY <2>2 DEF hvars, vars, serverVars, clientVars, historyVars
  <2>3. QED BY <2>1, <2>2
<1>3. QED BY <1>1, <1>2, BeliefInvariant, PTL DEF HSpec

(* PrimaryKeyDuplicate is never returned for a key that is not there.      *)
THEOREM DuplicatesAreReal == HSpec => []DuplicateIsReal
BY LastAnswerInvariant, PTL DEF LastAnswerIsSound

(* Outside a block and connected, createTableFor of a struct the server    *)
(* takes fails only when the table is there, whichever client lost the     *)
(* race to create it.                                                      *)
THEOREM CreateRefusedOnlyWhenThere == HSpec => []CreateRefusedOnlyIfThere
BY LastAnswerInvariant, PTL DEF LastAnswerIsSound

(* A program that has memory enough dies in an insert only, when its       *)
(* connection is lost, or of the rows of an insert that has been done.     *)
THEOREM DiesOnlyCutOffOrOfRows == HSpec => []DiesOnlyOfLossOrRows
BY LastAnswerInvariant, PTL DEF LastAnswerIsSound
=============================================================================
